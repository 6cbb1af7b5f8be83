------------------------------ MODULE HxbDump -------------------------------
(***************************************************************************)
(* tools/hxb-dump.py, the second reader of module files: which files it    *)
(* reads, and what it shows of a program.                                  *)
(***************************************************************************)
EXTENDS Integers, SequencesExt, FiniteSetsExt

(* struct.calcsize of HEADER and of SECTION. *)
HeaderBytes == 24
EntryBytes  == 24

(* read_sections goes through a file of this version: the header and each entry are
   there to be unpacked, and no section runs past the end. *)
ReadsSections(length, table) ==
  /\ length >= HeaderBytes
  /\ \A s \in DOMAIN table :
       /\ HeaderBytes + s * EntryBytes <= length
       /\ table[s].offset <= length /\ table[s].offset + table[s].size <= length

(* Which entry it takes for a kind: of several, the last one put in the dict. *)
SectionRead(table, kind) ==
  LET listed == {s \in DOMAIN table : table[s].kind = kind}
  IN {s \in listed : \A r \in listed : r <= s}

(* Which entry is marked at an offset: of several, the last one put in the dict. *)
StartsAt(symbols, offset) == {s \in DOMAIN symbols : symbols[s].offset = offset}
Marker(symbols, offset) ==
  LET starts == StartsAt(symbols, offset)
  IN IF starts = {} THEN <<>> ELSE <<[entry |-> symbols[Max(starts)].name]>>

(* dump_program: the commands up to the first END, each entry marked before the
   command it starts at. *)
ShownProgram(commands, symbols) ==
  LET ends == {i \in DOMAIN commands : commands[i].kind = "END"}
      last == IF ends = {} THEN Len(commands) ELSE Min(ends)
  IN FlattenSeq([i \in 1 .. last |-> Marker(symbols, i - 1) \o <<[command |-> commands[i]]>>])
=============================================================================
