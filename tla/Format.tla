------------------------------- MODULE Format -------------------------------
(***************************************************************************)
(* What is inside a module file, as the compiler writes it and the runtime *)
(* reads it (runtime/include/hexir_runtime/program.h).                     *)
(*                                                                         *)
(* Sizes count elements (f64 is the only element type).  Program offsets   *)
(* count commands, and a command whose header or operands run past the     *)
(* section is the single member Truncated.                                 *)
(***************************************************************************)
EXTENDS Naturals, Sequences

CONSTANTS
  SizeLimit,       (* what a size_t counts up to, in elements: 2^61       *)
  ExtentLimit      (* what a uint32_t counts up to: 2^32                  *)

ASSUME SizeAssumption   == SizeLimit \in Nat \ {0}
ASSUME ExtentAssumption == ExtentLimit \in Nat \ {0}

KernelKinds == {"matmul", "add", "relu"}
Devices     == {"cpu", "cuda"}

(* "other" is any kind the switch in hexir_execute_capture has no case for. *)
CommandType ==
  [kind : {"END", "ALLOC", "CONST", "DISPATCH", "PRINT", "other"},
   ops  : Seq(Nat)]
Truncated == [kind |-> "truncated", ops |-> <<>>]

(* image: "none" is image_size = 0, "outside" an image that ends past the
   EXECUTABLES section. *)
ExecutableType ==
  [kind : KernelKinds \cup {"other"}, device : Devices, m : Nat, n : Nat, k : Nat,
   image : {"none", "inside", "outside"}]

SymbolType == [name : STRING, offset : Nat]

(* exeTable: "absent" stands for no EXECUTABLES section, or one shorter than
   its header; "truncated" for a table that does not fit. *)
SectionsType ==
  [symbols  : {"absent", "present"},
   names    : Seq(SymbolType),
   program  : {"absent", "present"},
   commands : Seq(CommandType \cup {Truncated}),
   hasRodata : BOOLEAN,
   rodata   : Nat,
   exeTable : {"absent", "fits", "truncated"},
   exes     : Seq(ExecutableType)]
=============================================================================
