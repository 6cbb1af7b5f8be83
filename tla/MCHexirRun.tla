----------------------------- MODULE MCHexirRun -----------------------------
(* Every command line of up to MaxArguments of these. *)
EXTENDS HexirRun, SequencesExt

CONSTANTS MaxArguments

Argument(option, value) == [option |-> option, value |-> value]
Arguments ==
  {Argument("quiet", ""), Argument("selftest", ""), Argument("entry", "other"),
   Argument("device", "cpu"), Argument("device", "cuda"), Argument("device", "tpu"),
   Argument("unknown", ""), Argument("path", "a.hxb"), Argument("path", "b.hxb")}
MCCommands == BoundedSeq(Arguments, MaxArguments)
=============================================================================
