--------------------------- MODULE WrittenModule ---------------------------
(***************************************************************************)
(* What the serializer's walk ends with, against HostProgram's statement   *)
(* of the module, and what tools/hxb-dump.py shows of it.                  *)
(***************************************************************************)
EXTENDS Serializer, HostProgram, HxbDump

(* What is written is what HostProgram states of the module, whatever was
   compiled to device code. *)
WritesHostProgram ==
  stage = "written" =>
    [symbols |-> "present", names |-> names, program |-> "present",
     commands |-> program, hasRodata |-> TRUE, rodata |-> rodata,
     exeTable |-> "fits", exes |-> exes] = SectionsOf(source, images)

(* The walk refuses exactly what has no host program: nothing is refused half
   way because of an order the operations came in. *)
RejectsTheUnserializable ==
  /\ stage = "written" => Serializable(source)
  /\ stage = "rejected" => ~Serializable(source)

(* What hxb-dump shows of the program is what executing the first entry point would
   replay, command for command, under its name. *)
DumpShowsWhatRuns ==
  stage = "written" /\ source.funcs # <<>> =>
    ShownProgram(program, names) =
      <<[entry |-> ShortName(source.funcs[1].name)]>>
        \o [i \in DOMAIN FunctionCommands(source, 1) |->
              [command |-> FunctionCommands(source, 1)[i]]]

(* "Entry points are marked where they start" (tools/hxb-dump.py:82). *)
DumpMarksEveryEntryPoint ==
  stage = "written" =>
    \A f \in DOMAIN names :
      [entry |-> names[f].name] \in ToSet(ShownProgram(program, names))
=============================================================================
