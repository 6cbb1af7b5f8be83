---------------------------- MODULE MCSerializer ----------------------------
(* Modules to serialize: pairs of small functions over a few prim funcs *)
EXTENDS WrittenModule

CONSTANT MaxBody

(* A name of more than 31 characters loses its end. *)
MCShortName(name) ==
  IF name = "a_function_whose_name_is_too_long" THEN "a_function_whose_name_is_too_lo" ELSE name

Prim(kernel, device) ==
  [kernel |-> kernel, device |-> device, rank2 |-> TRUE, m |-> 1, n |-> 1, k |-> 1]
Op(op, args, callee, regular, rows, cols) ==
  [op |-> op, args |-> args, callee |-> callee, regular |-> regular, rows |-> rows, cols |-> cols]

Prims == << Prim("add", "cpu"), Prim("relu", "cuda"), Prim("matmul", "cuda") >>
OddPrims ==
  { <<Prim("missing", "cpu")>>, <<[Prim("add", "cpu") EXCEPT !.rank2 = FALSE]>>,
    <<Prim("unknown", "missing")>>, <<>> }

(* The operations a body is made of; operands reach back one or two. *)
SmallPieces ==
  { Op("constant", <<>>, 0, TRUE, 1, 2), Op("return", <<>>, 0, TRUE, 0, 0),
    Op("print", <<1>>, 0, TRUE, 1, 2), Op("print", <<2>>, 0, TRUE, 1, 2),
    Op("call_tir", <<1>>, 2, TRUE, 1, 2), Op("call_tir", <<1, 2>>, 1, TRUE, 1, 2),
    Op("call_tir", <<2, 1>>, 3, TRUE, 1, 2) }
OddPieces ==
  { Op("constant", <<>>, 0, TRUE, 2, 2), Op("constant", <<>>, 0, FALSE, 1, 1),
    Op("call_tir", <<0>>, 1, TRUE, 1, 1), Op("call_tir", <<1>>, 1, TRUE, 1, 1),
    Op("print", <<1>>, 0, FALSE, 1, 1), Op("print", <<0>>, 0, TRUE, 1, 1),
    Op("return", <<>>, 0, TRUE, 0, 0), Op("unsupported", <<>>, 0, TRUE, 1, 1) }

BodiesOf(prims, pieces, length) ==
  {body \in BoundedSeq(pieces, length) :
     Verified([prims |-> prims, funcs |-> <<[name |-> "f", body |-> body]>>])}
ModuleOf(prims, bodies) ==
  [prims |-> prims,
   funcs |-> [f \in DOMAIN bodies |->
                [name |-> IF f = 1 THEN "main" ELSE "other", body |-> bodies[f]]]]

(* A name that does not fit HEXIR_NAME_SIZE. *)
LongNames ==
  {[prims |-> Prims,
    funcs |-> <<[name |-> "a_function_whose_name_is_too_long", body |-> body]>>] :
     body \in BodiesOf(Prims, SmallPieces, 2)}

(* Two functions; one function with odd operations, over odd prim funcs. *)
MCSources ==
  {ModuleOf(Prims, <<first, second>>) :
     first \in BodiesOf(Prims, SmallPieces, MaxBody), second \in BodiesOf(Prims, SmallPieces, 2)}
  \cup UNION {{ModuleOf(prims, <<body>>) : body \in BodiesOf(prims, OddPieces, 2)} :
                prims \in OddPrims \cup {Prims}}
  \cup LongNames
=============================================================================
