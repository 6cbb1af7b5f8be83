--------------------------- MODULE MCInterpreter ---------------------------
(* Values for the constants of Interpreter: modules to replay, on both devices *)
EXTENDS Interpreter, SequencesExt

CONSTANT MaxLength

(* Any total, non-commutative table will do: the checks only need to tell  *)
(* results of different kernels and different operands apart.              *)
MCKernel(kind, args) ==
  LET a == args[1]
      b == IF Len(args) = 2 THEN args[2] ELSE 0
  IN CASE kind = "matmul" -> (2 * a + b) % 3
       [] kind = "add"    -> (a + b) % 3
       [] OTHER           -> IF a = 2 THEN 0 ELSE a
MCLiteral(m, offset, size) == (offset + 1) % 3

C(kind, ops) == [kind |-> kind, ops |-> ops]

Exec(kind, device, m, image) ==
  [kind |-> kind, device |-> device, m |-> m, n |-> 1,
   k |-> IF kind = "matmul" THEN 1 ELSE 0, image |-> image]

Module(commands, executables) ==
  [symbols |-> "present", names |-> <<[name |-> "main", offset |-> 0]>>,
   program |-> "present", commands |-> commands,
   hasRodata |-> TRUE, rodata |-> 2, exeTable |-> "fits", exes |-> executables]

-----------------------------------------------------------------------------
(* Two of the slots.                                                        *)
ShortAlphabet ==
  << C("ALLOC", <<0, 1>>), C("ALLOC", <<1, 1>>), C("CONST", <<0, 1, 1>>),
     C("DISPATCH", <<0, 2, 0, 1>>), C("DISPATCH", <<1, 2, 0, 1>>),
     C("PRINT", <<1, 1, 1>>), C("END", <<>>) >>
ShortExecutables ==
  <<Exec("relu", "cpu", 1, "none"), Exec("relu", "cuda", 1, "inside")>>

(* Every list of up to MaxLength commands and END, and the short ones without *)
(* it.  Such a module is named by its commands, as indices into ShortAlphabet. *)
End_ == Len(ShortAlphabet)
ShortModules ==
  LET bodies(length) == SeqOf(1 .. End_ - 1, length)
  IN {<<"list", TRUE, p>> : p \in bodies(MaxLength - 2) \cup {Append(p, End_) : p \in bodies(MaxLength)}}

-----------------------------------------------------------------------------
(* Longer lists around one odd command, in modules with odd sections.       *)
OddAlphabet ==
  << C("other", <<>>), Truncated,
     C("ALLOC", <<0>>), C("ALLOC", <<3, 1>>), C("ALLOC", <<2, 0>>), C("ALLOC", <<2, 2>>),
     C("CONST", <<0, 0>>), C("CONST", <<0, 3, 0>>), C("CONST", <<0, 1, 2>>),
     C("CONST", <<3, 0, 1>>), C("CONST", <<2, 0, 0>>),
     C("CONST", <<0, 15, 2>>), C("DISPATCH", <<1, 5, 0, 1, 0, 1, 2>>),
     C("PRINT", <<0, 1>>), C("PRINT", <<3, 1, 1>>), C("PRINT", <<0, 2, 1>>), C("PRINT", <<0, 0, 1>>),
     C("PRINT", <<0, 4, 4>>), C("PRINT", <<0, 5, 4>>), C("PRINT", <<2, 4, 4>>),
     C("DISPATCH", <<0>>), C("DISPATCH", <<9, 3, 0, 1, 2>>), C("DISPATCH", <<0, 2, 0, 1, 2>>),
     C("DISPATCH", <<0, 5, 0, 1, 0, 1, 2>>), C("DISPATCH", <<0, 3, 0, 3, 2>>),
     C("DISPATCH", <<0, 2, 0, 2>>), C("DISPATCH", <<1, 2, 0, 2>>), C("DISPATCH", <<1, 0>>),
     C("DISPATCH", <<0, 3, 0, 1, 0>>), C("DISPATCH", <<1, 3, 0, 1, 0>>),
     C("DISPATCH", <<2, 3, 0, 1, 0>>) >>
  \o [i \in 1 .. 9 |-> C("DISPATCH", IF i \in {4, 5} THEN <<i - 1, 2, 0, 2>>
                                                    ELSE <<i - 1, 3, 0, 1, 2>>)]
OddExecutables ==
  << Exec("matmul", "cpu", 1, "none"), Exec("matmul", "cuda", 1, "inside"),
     Exec("add", "cpu", 1, "none"), Exec("relu", "cuda", 1, "none"),
     Exec("relu", "cpu", 1, "inside"), Exec("matmul", "cuda", 1, "outside"),
     Exec("other", "cpu", 1, "none"),
     Exec("matmul", "cpu", 2, "none"), Exec("matmul", "cuda", 2, "inside") >>

Variants == {"plain", "no_symbols", "no_program", "no_rodata",
             "no_executables", "truncated_table", "two_symbols", "late_symbol", "rebound"}
OddModules == ({"plain"} \X BOOLEAN \X DOMAIN OddAlphabet)
              \cup (Variants \X {TRUE} \X {11, 32, 33})

Prologue == << C("CONST", <<0, 0, 1>>), C("CONST", <<1, 1, 1>>), C("ALLOC", <<2, 1>>) >>
Epilogue == << C("PRINT", <<2, 1, 1>>), C("END", <<>>) >>

OddSections(m) ==
  LET again == IF m[1] = "rebound" THEN <<C("ALLOC", <<2, 1>>), C("CONST", <<2, 1, 1>>)>> ELSE <<>>
      body == Append(IF m[2] THEN Prologue ELSE <<>>, OddAlphabet[m[3]]) \o again \o Epilogue
      full == Module(body, OddExecutables)
      main(offset) == [name |-> "main", offset |-> offset]
  IN CASE m[1] = "no_symbols"      -> [full EXCEPT !.symbols = "absent", !.names = <<>>]
       [] m[1] = "no_program"      -> [full EXCEPT !.program = "absent", !.commands = <<>>]
       [] m[1] = "no_rodata"       -> [full EXCEPT !.hasRodata = FALSE, !.rodata = 0]
       [] m[1] = "no_executables"  -> [full EXCEPT !.exeTable = "absent"]
       [] m[1] = "truncated_table" -> [full EXCEPT !.exeTable = "truncated"]
       [] m[1] = "two_symbols"     -> [full EXCEPT !.names = <<[name |-> "f", offset |-> 1], main(0), main(2)>>]
       [] m[1] = "late_symbol"     -> [full EXCEPT !.names = <<main(7)>>]
       [] OTHER                    -> full

-----------------------------------------------------------------------------
MCModules == ShortModules \cup OddModules
MCSections(m) ==
  IF m[1] = "list" THEN Module([i \in DOMAIN m[3] |-> ShortAlphabet[m[3][i]]], ShortExecutables)
                   ELSE OddSections(m)
=============================================================================
