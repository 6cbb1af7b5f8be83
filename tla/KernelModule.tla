---------------------------- MODULE KernelModule ----------------------------
(***************************************************************************)
(* The IR the serializer reads: prim funcs, and functions of constant,     *)
(* call_tir, print and return operations (HexirOps.td, HexTIROps.td).  An  *)
(* operation names its operands by the position of the operation defining  *)
(* them, 0 being a block argument; a value is <<function, position>>.      *)
(***************************************************************************)
EXTENDS Format

CONSTANT ShortName(_)   (* writeName: what fits HEXIR_NAME_SIZE              *)

PrimType ==
  [kernel : KernelKinds \cup {"unknown", "missing"}, device : Devices \cup {"gpu", "missing"},
   rank2 : BOOLEAN, m : Nat, n : Nat, k : Nat]

(* callee: the position of the prim func.  regular: a dense constant, or a
   print of a rank-2 tensor. *)
OperationType ==
  [op : {"constant", "call_tir", "print", "return", "unsupported"},
   args : Seq(Nat), callee : Nat, regular : BOOLEAN, rows : Nat, cols : Nat]

(* A function with a body: of a declaration the serializer would take a first block
   that is not there. *)
FunctionType == [name : STRING, body : Seq(OperationType)]
SourceType   == [prims : Seq(PrimType), funcs : Seq(FunctionType)]

Positions(funcs) == UNION {{f} \X DOMAIN funcs[f].body : f \in DOMAIN funcs}
Before(v, w)     == v[1] < w[1] \/ (v[1] = w[1] /\ v[2] < w[2])

(* Mutant: the product is taken in 32 bits. *)
SizeIn32(operation) == (operation.rows * operation.cols) % ExtentLimit

(* byteSize multiplies in 64 bits, the last factor being the bytes of an element. *)
Size(operation) == (operation.rows * operation.cols) % SizeLimit

(* !use_empty() of the result of operation i. *)
Used(body, i) == \E j \in DOMAIN body : \E a \in DOMAIN body[j].args : body[j].args[a] = i

(* What MLIR verifies before any pass sees the module: operands are results of
   earlier operations, an operation has the operands it is defined with, and
   a call names a prim func. *)
Verified(s) ==
  \A f \in DOMAIN s.funcs : \A i \in DOMAIN s.funcs[f].body :
    LET body == s.funcs[f].body
        operation == body[i]
    IN /\ \A a \in DOMAIN operation.args :
            /\ operation.args[a] < i
            /\ operation.args[a] > 0 => body[operation.args[a]].op \notin {"print", "return"}
       /\ operation.op = "print" => Len(operation.args) = 1
       /\ operation.op = "constant" => operation.args = <<>>
       /\ operation.op = "call_tir" => operation.callee \in DOMAIN s.prims
=============================================================================
