---------------------------- MODULE MCModuleFile ----------------------------
(* Images of any length, in any order with descriptors; tables that lack a section,
   list one twice or one of no kind, and entries that end at the end of the file,
   past it, and past what 64 bits hold. *)
EXTENDS ModuleFile, SequencesExt

CONSTANTS Sizes, BlobSizes, MaxBlobs

MCContents ==
  [symbols : {40}, program : Sizes, rodata : {0, 8}, blobs : BoundedSeq(BlobSizes, MaxBlobs)]

Lists(kind, start, length) == [kind |-> kind, offset |-> start, size |-> length]
MCAltered ==
  {<<>>,
   <<Lists("PROGRAM", 48, 200)>>,
   <<Lists("RODATA", Uint64 - 8, 24)>>,
   <<Lists("SYMBOLS", 0, 8), Lists("RODATA", 200, Uint64 - 1)>>,
   <<Lists("RODATA", 72, 8), Lists("RODATA", 80, 0)>>,
   [s \in 1 .. 6 |-> Lists("other", s, 0)]}
=============================================================================
