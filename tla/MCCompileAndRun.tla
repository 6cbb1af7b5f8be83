-------------------------- MODULE MCCompileAndRun --------------------------
(* Graphs to compile and run: two constants and a few operations on them *)
EXTENDS CompileAndRun

CONSTANTS MaxBody

(* Any total, non-commutative table will do. *)
MCKernel(kind, args) ==
  LET a == args[1]
      b == IF Len(args) = 2 THEN args[2] ELSE 0
  IN CASE kind = "matmul" -> (2 * a + b) % 3
       [] kind = "add"    -> (a + b) % 3
       [] OTHER           -> IF a = 2 THEN 0 ELSE a
MCValueAt(f, i) == i % 3
MCShortName(name) == name
MCOptions ==
  [targets |-> <<>>, placements |-> <<[op |-> "add", device |-> "gpu"]>>, gpuChip |-> "sm_75"]

G(op, args, where, rows, cols) ==
  [op |-> op, args |-> args, device |-> where, regular |-> TRUE, rows |-> rows, cols |-> cols]

Weights == << G("constant", <<>>, "none", 1, 2), G("constant", <<>>, "none", 2, 2) >>
Pieces ==
  {G("linear", args, where, 1, 2) : args \in {<<1, 2>>, <<3, 2>>}, where \in {"none", "cuda"}}
  \cup {G("add", args, where, 1, 2) : args \in {<<1, 3>>, <<3, 3>>}, where \in {"none", "cpu", "gpu"}}
  \cup {G("relu", args, where, 1, 2) : args \in {<<1>>, <<3>>, <<4>>}, where \in {"cpu", "cuda"}}
  \cup {G("print", <<1>>, "none", 1, 2), G("print", <<3>>, "none", 1, 2), G("print", <<2>>, "none", 2, 2)}

Function_(name, body) == [kind |-> "func.func", name |-> name, body |-> body]
Alone(body) == <<Function_("main", body)>>
Bodies(length) ==
  {body \in {Weights \o rest : rest \in BoundedSeq(Pieces, length)} :
     WellFormedGraph(Alone(body)) /\ WellShaped(body)}

(* Two functions of one module share its slots and its RODATA. *)
Pairs ==
  {<<Function_("main", first), Function_("aux", second)>> :
     first \in Bodies(1), second \in {body \in Bodies(1) : Len(body) = 3 /\ body[3].op = "linear"}}

(* Graphs nothing refuses either: operands too small for the kernel that is run over
   them, a size that wraps to nothing, an extent that does. *)
Misshapen ==
  {Alone(Weights \o rest) :
     rest \in {<<G("linear", <<2, 1>>, where, 2, 2), G("print", <<3>>, "none", 2, 2)>> : where \in {"cpu", "cuda"}}
          \cup {<<G("add", <<1, 2>>, where, 2, 2), G("relu", <<3>>, "cpu", 1, 2)>> : where \in {"cpu", "cuda"}}
          \cup {<<G("relu", <<1>>, "none", 2, 2)>>, <<G("relu", <<2>>, "none", 1, 1), G("print", <<3>>, "none", 1, 1)>>}}
  \cup {Alone(<<G("constant", <<>>, "none", 4, 4), G("print", <<1>>, "none", 4, 4)>>),
        Alone(<<G("constant", <<>>, "none", 4, 1), G("constant", <<>>, "none", 1, 4),
                G("linear", <<1, 2>>, "none", 4, 4), G("print", <<3>>, "none", 4, 4)>>),
        Alone(<<G("constant", <<>>, "none", 5, 1), G("relu", <<1>>, "none", 5, 1), G("print", <<2>>, "none", 5, 1)>>)}

MCModules ==
  {[graph |-> g, compiled |-> compiled] :
     g \in {Alone(body) : body \in Bodies(MaxBody)} \cup Pairs \cup Misshapen, compiled \in BOOLEAN}
Sections_ == [m \in MCModules |-> SectionsFor(m)]
MCSections(m) == Sections_[m]
Literals_ ==
  [m \in MCModules |->
     [o \in 0 .. 12 |-> [s \in 0 .. 12 |-> LiteralFor(m, o, s)]]]
MCLiteral(m, offset, size) == Literals_[m][offset][size]

Symmetry == Permutations(Buffers)
=============================================================================
