----------------------------- MODULE ModuleFile -----------------------------
(***************************************************************************)
(* A .hxb file from the bytes the serializer lays out to the pointers the  *)
(* runtime hands out: Serializer::run and collectExecutables               *)
(* (compiler/Serialization/ModuleSerializer.cpp) compute every offset      *)
(* before they write what it points at; hexir_module_load_file             *)
(* (runtime/src/module/module.c) maps whatever is on disk, which may be a  *)
(* part of a module or hold another section table, and checks it before    *)
(* it is used.                                                             *)
(*                                                                         *)
(* Sizes and offsets are bytes.                                            *)
(***************************************************************************)
EXTENDS Naturals, Sequences

CONSTANTS
  Contents,   (* the payloads laid out: ContentType                        *)
  Altered,    (* the section tables a file may hold for the one written    *)
  Uint32,     (* 2^32: how many values a uint32_t has                      *)
  Uint64      (* 2^64                                                      *)

(* The bytes of three sections, and of the device image of each executable, 0
   for a descriptor alone. *)
ContentType == [symbols : Nat, program : Nat, rodata : Nat, blobs : Seq(Nat)]

EntryType == [kind : {"SYMBOLS", "PROGRAM", "RODATA", "EXECUTABLES", "other"}, offset : Nat, size : Nat]

ASSUME ContentsAssumption == Contents \subseteq ContentType
ASSUME UintAssumption     == Uint32 \in Nat \ {0} /\ Uint64 \in Nat \ {0}
ASSUME AlteredAssumption  == Altered \subseteq Seq(EntryType)

VARIABLES
  content,      (* never changes                                           *)
  stage,        (* images, layout, write, stored, validate, loaded, failed
                   or released                                             *)
  at,           (* the next image, section or table entry                  *)
  images,       (* the size of the buffer the images are collected in      *)
  blobAt,       (* where in it each image starts                           *)
  imageOffset,  (* the image_offset of each entry                          *)
  executables,  (* the size of the EXECUTABLES payload                     *)
  offset,       (* where the next payload goes                             *)
  table,        (* the section table                                       *)
  out,          (* the size of what has been written                       *)
  landed,       (* where each payload was written                          *)
  disk,         (* the file: its length, whether its magic and version are
                   this runtime's, and the section table it holds          *)
  size,         (* st_size when the file was mapped                        *)
  mapped,       (* the mapping and the handle the runtime holds            *)
  status

vars == <<content, stage, at, images, blobAt, imageOffset, executables, offset, table,
          out, landed, disk, size, mapped, status>>
collected == <<images, blobAt, imageOffset, executables>>
written   == <<offset, table, out, landed>>
reader    == <<size, mapped, status>>

-----------------------------------------------------------------------------
HeaderSize == 24
EntrySize  == 24

Kinds      == <<"SYMBOLS", "PROGRAM", "RODATA", "EXECUTABLES">>
TableEnd   == HeaderSize + 4 * EntrySize

(* Mutant: nothing is padded. *)
AlignNot(n) == n

(* padTo(8), and the same rounding of an offset that is not written yet. *)
Align(n) == n + ((8 - (n % 8)) % 8)

(* static_cast<uint32_t>. *)
Cast32(n) == n % Uint32

PayloadSize(s) ==
  CASE Kinds[s] = "SYMBOLS" -> content.symbols
    [] Kinds[s] = "PROGRAM" -> content.program
    [] Kinds[s] = "RODATA"  -> content.rodata
    [] OTHER                -> executables

(* The header and the entries of EXECUTABLES. *)
EntriesEnd == 8 + 80 * Len(content.blobs)

-----------------------------------------------------------------------------
(* The compiler.                                                             *)

AddImage ==
  /\ stage = "images" /\ at <= Len(content.blobs)
  /\ LET blob  == content.blobs[at]
         start == IF blob = 0 THEN 0 ELSE Align(images)
     IN /\ images' = IF blob = 0 THEN images ELSE start + blob
        /\ blobAt' = Append(blobAt, start)
        /\ imageOffset' = Append(imageOffset, Cast32(start))
  /\ at' = at + 1
  /\ UNCHANGED <<content, stage, executables, written, disk, reader>>

(* Image offsets are final once the size of the entries is known. *)
PlaceImages ==
  /\ stage = "images" /\ at > Len(content.blobs)
  /\ imageOffset' = [p \in DOMAIN imageOffset |->
       IF content.blobs[p] = 0 THEN 0
       ELSE Cast32(imageOffset[p] + Cast32(Align(EntriesEnd)))]
  /\ executables' = Align(EntriesEnd) + images
  /\ stage' = "layout" /\ at' = 1
  /\ UNCHANGED <<content, images, blobAt, written, disk, reader>>

(* Mutant: the next offset does not count the payload. *)
LayOutInPlace ==
  /\ stage = "layout" /\ at <= Len(Kinds)
  /\ table' = Append(table, [kind |-> Kinds[at], offset |-> Align(offset), size |-> PayloadSize(at)])
  /\ offset' = Align(offset)
  /\ at' = at + 1
  /\ UNCHANGED <<content, stage, collected, out, landed, disk, reader>>

LayOut ==
  /\ stage = "layout" /\ at <= Len(Kinds)
  /\ table' = Append(table, [kind |-> Kinds[at], offset |-> Align(offset), size |-> PayloadSize(at)])
  /\ offset' = Align(offset) + PayloadSize(at)
  /\ at' = at + 1
  /\ UNCHANGED <<content, stage, collected, out, landed, disk, reader>>

(* Mutant: the header is not counted. *)
WriteTableOnly ==
  /\ stage = "layout" /\ at > Len(Kinds)
  /\ out' = out + Len(table) * EntrySize
  /\ stage' = "write" /\ at' = 1
  /\ UNCHANGED <<content, collected, offset, table, landed, disk, reader>>

WriteTable ==
  /\ stage = "layout" /\ at > Len(Kinds)
  /\ out' = out + HeaderSize + Len(table) * EntrySize
  /\ stage' = "write" /\ at' = 1
  /\ UNCHANGED <<content, collected, offset, table, landed, disk, reader>>

WritePayload ==
  /\ stage = "write" /\ at <= Len(Kinds)
  /\ landed' = Append(landed, Align(out))
  /\ out' = Align(out) + PayloadSize(at)
  /\ at' = at + 1
  /\ UNCHANGED <<content, stage, collected, offset, table, disk, reader>>

(* os.write: on disk is all of it or, if the compiler is still writing or was
   stopped, less.  The file may also be another program's or another version's, or
   its table may have been changed since, the number of its sections included. *)
Store ==
  /\ stage = "write" /\ at > Len(Kinds)
  /\ \E length \in 0 .. out, current \in BOOLEAN, entries \in {table} \cup Altered :
       disk' = [length |-> length, current |-> current, table |-> entries]
  /\ stage' = "stored" /\ at' = 1
  /\ UNCHANGED <<content, collected, written, reader>>

-----------------------------------------------------------------------------
(* The runtime.                                                              *)

(* hexir_module_release: also how validate's failures end. *)
Fail(how) == stage' = "failed" /\ status' = how /\ mapped' = FALSE /\ UNCHANGED <<at, size>>

(* open, fstat, mmap and calloc, any of which may fail. *)
Map ==
  /\ stage = "stored"
  /\ \/ Fail("IO")
     \/ disk.length > 0 /\ Fail("OUT_OF_MEMORY")
     \/ /\ disk.length > 0
        /\ size' = disk.length /\ mapped' = TRUE
        /\ stage' = "validate" /\ at' = 0
        /\ UNCHANGED status
  /\ UNCHANGED <<content, collected, written, disk>>

(* Nothing past the size is read: the header before the table, the table before
   an entry.  Mutant: the table is not looked for. *)
ValidateHeaderOnly ==
  /\ stage = "validate" /\ at = 0
  /\ IF size < HeaderSize \/ ~disk.current
     THEN Fail("INVALID_MODULE")
     ELSE at' = 1 /\ UNCHANGED <<stage, reader>>
  /\ UNCHANGED <<content, collected, written, disk>>
ValidateHeader ==
  /\ stage = "validate" /\ at = 0
  /\ IF size < HeaderSize \/ ~disk.current \/ HeaderSize + Len(disk.table) * EntrySize > size
     THEN Fail("INVALID_MODULE")
     ELSE at' = 1 /\ UNCHANGED <<stage, reader>>
  /\ UNCHANGED <<content, collected, written, disk>>

Entry == disk.table[at]

(* Mutants: only the start of a payload is checked; the end is computed, in 64
   bits; the mapping is kept. *)
ValidateSectionStart ==
  /\ stage = "validate" /\ at \in DOMAIN disk.table
  /\ IF Entry.offset > size
     THEN Fail("INVALID_MODULE")
     ELSE at' = at + 1 /\ UNCHANGED <<stage, reader>>
  /\ UNCHANGED <<content, collected, written, disk>>
ValidateSectionSum ==
  /\ stage = "validate" /\ at \in DOMAIN disk.table
  /\ IF (Entry.offset + Entry.size) % Uint64 > size
     THEN Fail("INVALID_MODULE")
     ELSE at' = at + 1 /\ UNCHANGED <<stage, reader>>
  /\ UNCHANGED <<content, collected, written, disk>>
ValidateSectionKeeps ==
  /\ stage = "validate" /\ at \in DOMAIN disk.table
  /\ IF Entry.offset > size \/ Entry.size > size - Entry.offset
     THEN stage' = "failed" /\ status' = "INVALID_MODULE" /\ UNCHANGED <<at, size, mapped>>
     ELSE at' = at + 1 /\ UNCHANGED <<stage, reader>>
  /\ UNCHANGED <<content, collected, written, disk>>

ValidateSection ==
  /\ stage = "validate" /\ at \in DOMAIN disk.table
  /\ IF Entry.offset > size \/ Entry.size > size - Entry.offset
     THEN Fail("INVALID_MODULE")
     ELSE at' = at + 1 /\ UNCHANGED <<stage, reader>>
  /\ UNCHANGED <<content, collected, written, disk>>

Load ==
  /\ stage = "validate" /\ at > Len(disk.table)
  /\ stage' = "loaded" /\ status' = "OK"
  /\ UNCHANGED <<content, at, collected, written, disk, size, mapped>>

(* hexir_module_section: the entry it takes for a kind, the first of them. *)
Listed(kind)  == {s \in DOMAIN disk.table : disk.table[s].kind = kind}
Section(kind) == {s \in Listed(kind) : \A r \in Listed(kind) : s <= r}

(* hexir -emit=hxb opens its output for writing: a file under the same name is
   cut to nothing, mapped or not. *)
Recompile ==
  /\ stage = "loaded" /\ disk.length > 0
  /\ disk' = [disk EXCEPT !.length = 0]
  /\ UNCHANGED <<content, stage, at, collected, written, reader>>

Release ==
  /\ stage = "loaded"
  /\ stage' = "released" /\ mapped' = FALSE
  /\ UNCHANGED <<content, at, collected, written, disk, size, status>>

Init ==
  /\ content \in Contents
  /\ stage = "images" /\ at = 1
  /\ images = 0 /\ blobAt = <<>> /\ imageOffset = <<>> /\ executables = 0
  /\ offset = TableEnd /\ table = <<>> /\ out = 0 /\ landed = <<>>
  /\ disk = [length |-> 0, current |-> FALSE, table |-> <<>>]
  /\ size = 0 /\ mapped = FALSE /\ status = "none"

Next ==
  \/ AddImage \/ PlaceImages \/ LayOut \/ WriteTable \/ WritePayload \/ Store
  \/ Map \/ ValidateHeader \/ ValidateSection \/ Load \/ Recompile \/ Release

Spec == Init /\ [][Next]_vars

-----------------------------------------------------------------------------
(* Properties.                                                               *)

Stages   == {"images", "layout", "write", "stored", "validate", "loaded", "failed", "released"}
Statuses == {"none", "OK", "IO", "OUT_OF_MEMORY", "INVALID_MODULE"}
TypeOK ==
  /\ content \in Contents
  /\ stage \in Stages /\ at \in Nat
  /\ images \in Nat /\ executables \in Nat
  /\ blobAt \in Seq(Nat) /\ imageOffset \in Seq(Nat)
  /\ offset \in Nat /\ out \in Nat
  /\ table \in Seq(EntryType) /\ landed \in Seq(Nat)
  /\ disk \in [length : Nat, current : BOOLEAN, table : Seq(EntryType)]
  /\ size \in Nat /\ mapped \in BOOLEAN /\ status \in Statuses

(* The table, written first, is true of the payloads written after it, and
   module.h's promise holds: payloads are 8-byte aligned. *)
TableIsTrue ==
  \A s \in DOMAIN landed :
    /\ landed[s] = table[s].offset /\ landed[s] % 8 = 0
    /\ landed[s] + table[s].size <= out

(* No payload lies over another, or over the header and the table. *)
PayloadsDisjoint ==
  \A s, r \in DOMAIN table :
    /\ table[s].offset >= TableEnd
    /\ s < r => table[s].offset + table[s].size <= table[r].offset

(* An entry's image_offset leads to its image, inside EXECUTABLES and 8-byte
   aligned (program.h:63), unless the section outgrows the field. *)
ImagesAreFound ==
  stage # "images" /\ executables < Uint32 =>
    \A p \in DOMAIN content.blobs : content.blobs[p] # 0 =>
      /\ imageOffset[p] = Align(EntriesEnd) + blobAt[p]
      /\ imageOffset[p] % 8 = 0
      /\ imageOffset[p] >= EntriesEnd
      /\ imageOffset[p] + content.blobs[p] <= executables

(* Whatever table a file holds, what the runtime finds in a loaded module is in the
   mapping; a part of a module is never loaded.  And what is refused as malformed is
   not this version's, or says it holds what it does not: never a module the
   compiler finished. *)
Within(s, length) == disk.table[s].offset + disk.table[s].size <= length
RejectsTheBroken ==
  /\ stage = "loaded" =>
       /\ disk.current
       /\ \A s \in UNION {Section(kind) : kind \in {Kinds[i] : i \in DOMAIN Kinds}} : Within(s, size)
       /\ disk.table = table => size = out
  /\ status = "INVALID_MODULE" /\ disk.current =>
       /\ HeaderSize + Len(disk.table) * EntrySize > size \/ \E s \in DOMAIN disk.table : ~Within(s, size)
       /\ disk.table = table => size < out

(* hxb-dump is "a second implementation of that reader" (tools/hxb-dump.py:5): of the
   files of this version, whatever their table and wherever they are cut, it reads
   those the runtime loads and none that the runtime finds malformed, and both take
   the same section where no kind is listed twice. *)
Dump == INSTANCE HxbDump
ReadersAgree ==
  /\ stage = "loaded" /\ disk.length = size =>
       /\ Dump!ReadsSections(disk.length, disk.table)
       /\ \A i \in DOMAIN Kinds :
            (\A s, r \in Listed(Kinds[i]) : s = r) => Section(Kinds[i]) = Dump!SectionRead(disk.table, Kinds[i])
  /\ status = "INVALID_MODULE" /\ disk.current => ~Dump!ReadsSections(disk.length, disk.table)

(* A module that is not loaded holds no mapping. *)
MappingReleased ==
  stage \in {"failed", "released"} \/ status \in {"IO", "OUT_OF_MEMORY", "INVALID_MODULE"} => ~mapped

-----------------------------------------------------------------------------
(* What makes the properties inductive.                                      *)

Reading == {"stored", "validate", "loaded", "failed", "released"}
Written == Reading \cup {"write"}

(* How far each loop is. *)
Progress ==
  /\ stage = "images" => at \in 1 .. Len(content.blobs) + 1 /\ Len(blobAt) = at - 1
                         /\ table = <<>> /\ offset = TableEnd
  /\ stage # "images" => Len(blobAt) = Len(content.blobs)
  /\ Len(imageOffset) = Len(blobAt)
  /\ stage = "layout" => at \in 1 .. 5 /\ Len(table) = at - 1
  /\ stage \in {"images", "layout"} => out = 0 /\ landed = <<>>
  /\ stage \in Written => Len(table) = 4
  /\ stage = "write" => at \in 1 .. 5 /\ Len(landed) = at - 1
  /\ stage \in Reading => Len(landed) = 4
  /\ stage \notin Reading => status = "none" /\ ~mapped

(* The images lie one after another; their offsets are moved past the entries
   once. *)
ImagesCollected ==
  /\ \A p \in DOMAIN blobAt : content.blobs[p] # 0 =>
       /\ blobAt[p] % 8 = 0 /\ blobAt[p] + content.blobs[p] <= images
       /\ imageOffset[p] =
            IF stage = "images" THEN Cast32(blobAt[p])
            ELSE Cast32(Cast32(blobAt[p]) + Cast32(Align(EntriesEnd)))
  /\ stage # "images" => executables = Align(EntriesEnd) + images

(* The table is one running sum, rounded up before each payload. *)
LaidOut ==
  /\ offset >= TableEnd
  /\ table = <<>> => offset = TableEnd
  /\ table # <<>> => offset = table[Len(table)].offset + table[Len(table)].size
  /\ \A s \in DOMAIN table :
       /\ table[s].size = PayloadSize(s)
       /\ table[s].offset % 8 = 0
       /\ table[s].offset + table[s].size <= offset
       /\ table[s].offset =
            IF s = 1 THEN Align(TableEnd) ELSE Align(table[s - 1].offset + table[s - 1].size)

(* The payloads written so far are where the table says, and the next one goes
   after the last. *)
WrittenAsLaidOut ==
  /\ stage \in Written =>
       out = IF landed = <<>> THEN TableEnd
             ELSE table[Len(landed)].offset + table[Len(landed)].size
  /\ \A s \in DOMAIN landed : landed[s] = table[s].offset

(* What validate has looked at is in the mapping. *)
TableFits == HeaderSize + Len(disk.table) * EntrySize <= size
Checked ==
  /\ size <= out /\ disk.length <= out
  /\ stage = "stored" => status = "none" /\ ~mapped
  /\ stage = "validate" =>
       /\ status = "none" /\ at \in 0 .. Len(disk.table) + 1 /\ size = disk.length
       /\ at > 0 => disk.current /\ TableFits /\ \A s \in 1 .. at - 1 : Within(s, size)
  /\ stage \in {"loaded", "released"} => status = "OK"
  /\ stage = "loaded" => disk.current /\ TableFits /\ \A s \in DOMAIN disk.table : Within(s, size)
  /\ stage = "failed" => ~mapped
  /\ status = "INVALID_MODULE" =>
       /\ stage = "failed" /\ size = disk.length
       /\ ~disk.current \/ ~TableFits \/ \E s \in DOMAIN disk.table : ~Within(s, size)

(* The inductive invariant: the offsets written first are true of what is written
   after them, and a loader goes on only with what it has checked. *)
IInv ==
  /\ TypeOK /\ Progress /\ ImagesCollected /\ LaidOut /\ PayloadsDisjoint
  /\ WrittenAsLaidOut /\ TableIsTrue /\ Checked /\ MappingReleased
=============================================================================
