-------------------------- MODULE ModuleFileProofs --------------------------
(***************************************************************************)
(* Proofs about ModuleFile, for payloads of any size and any number of     *)
(* images: the offsets written first are true of what is written after     *)
(* them, and whatever part of a module is on disk, with whatever section   *)
(* table, is loaded only if it holds what it lists.                        *)
(***************************************************************************)
EXTENDS ModuleFile, TLAPS

(* padTo leaves a multiple of 8 that is no smaller. *)
LEMMA Aligned ==
  ASSUME NEW n \in Nat
  PROVE  Align(n) \in Nat /\ Align(n) >= n /\ Align(n) % 8 = 0
BY DEF Align

(* A value a uint32_t can hold is not changed by the cast. *)
LEMMA CastFits ==
  ASSUME NEW n \in Nat
  PROVE  Cast32(n) \in Nat /\ (n < Uint32 => Cast32(n) = n)
BY UintAssumption DEF Cast32

LEMMA AlignedSum ==
  ASSUME NEW m \in Nat, NEW n \in Nat, m % 8 = 0, n % 8 = 0
  PROVE  (m + n) % 8 = 0
OBVIOUS

-----------------------------------------------------------------------------
(* The part of it the runtime leaves alone. *)
FileAsStated == ImagesCollected /\ LaidOut /\ PayloadsDisjoint /\ WrittenAsLaidOut /\ TableIsTrue

(* What the constants are. *)
LEMMA Numbers ==
  /\ TableEnd = 120 /\ Len(Kinds) = 4 /\ DOMAIN Kinds = 1 .. 4
  /\ HeaderSize + Len(Kinds) * EntrySize = TableEnd
  /\ \A s \in 1 .. 4 : Kinds[s] \in {"SYMBOLS", "PROGRAM", "RODATA", "EXECUTABLES"}
BY DEF TableEnd, Kinds, HeaderSize, EntrySize

LEMMA Appended ==
  ASSUME NEW s \in Seq(Nat), NEW e \in Nat, NEW n \in Nat, Len(s) = n - 1
  PROVE  /\ DOMAIN s = 1 .. n - 1 /\ DOMAIN Append(s, e) = 1 .. n
         /\ \A p \in 1 .. n : p # n => Append(s, e)[p] = s[p]
OBVIOUS

(* The payloads are sequences of bytes. *)
LEMMA ContentTyped ==
  ASSUME TypeOK
  PROVE  /\ content \in ContentType
         /\ content.blobs \in Seq(Nat) /\ Len(content.blobs) \in Nat
         /\ \A p \in DOMAIN content.blobs : content.blobs[p] \in Nat
         /\ EntriesEnd \in Nat
<1>1. content \in ContentType
  BY ContentsAssumption DEF TypeOK
<1>2. content.blobs \in Seq(Nat)
  BY <1>1 DEF ContentType
<1> QED
  BY <1>1, <1>2 DEF EntriesEnd

LEMMA PayloadTyped ==
  ASSUME TypeOK, NEW s \in 1 .. 4
  PROVE  PayloadSize(s) \in Nat
<1>1. content \in ContentType
  BY ContentTyped
<1>2. content.symbols \in Nat /\ content.program \in Nat /\ content.rodata \in Nat
  BY <1>1 DEF ContentType
<1>3. executables \in Nat
  BY DEF TypeOK
<1> QED
  BY <1>2, <1>3 DEF PayloadSize, Kinds

(* Once written, the file is only read. *)
LEMMA ReaderKeeps ==
  ASSUME IInv, UNCHANGED <<content, collected, written>>,
         stage \in Reading \cup {"write"}, stage' \in Reading
  PROVE  FileAsStated'
<1> USE DEF collected, written
<1>1. PayloadSize(1)' = PayloadSize(1) /\ PayloadSize(2)' = PayloadSize(2)
      /\ PayloadSize(3)' = PayloadSize(3) /\ PayloadSize(4)' = PayloadSize(4)
  BY DEF PayloadSize
<1>2. \A s \in 1 .. 4 : PayloadSize(s)' = PayloadSize(s)
  BY DEF PayloadSize
<1>3. DOMAIN table = 1 .. 4
  BY DEF IInv, Progress, Written, Reading, TypeOK
<1>4. ImagesCollected'
  BY DEF IInv, ImagesCollected, Reading, EntriesEnd
<1>5. LaidOut'
  BY <1>2, <1>3 DEF IInv, LaidOut
<1>6. PayloadsDisjoint'
  BY DEF IInv, PayloadsDisjoint
<1>7. WrittenAsLaidOut'
  BY DEF IInv, WrittenAsLaidOut, Reading, Written
<1>8. TableIsTrue'
  BY DEF IInv, TableIsTrue
<1> QED
  BY <1>4, <1>5, <1>6, <1>7, <1>8 DEF FileAsStated

-----------------------------------------------------------------------------
(* The compiler's steps.                                                     *)

LEMMA InitHolds == Init => IInv
<1> SUFFICES ASSUME Init PROVE IInv
  OBVIOUS
<1>0. content \in ContentType /\ content.blobs \in Seq(Nat) /\ Len(content.blobs) \in Nat
  BY ContentsAssumption DEF Init, ContentType
<1>1. TypeOK
  <2>1. <<>> \in Seq(Nat) /\ <<>> \in Seq(EntryType)
    OBVIOUS
  <2>2. disk \in [length : Nat, current : BOOLEAN, table : Seq(EntryType)]
    BY <2>1 DEF Init
  <2>3. content \in Contents /\ stage \in Stages /\ status \in Statuses /\ mapped \in BOOLEAN
    BY DEF Init, Stages, Statuses
  <2> QED
    BY <2>1, <2>2, <2>3, Numbers DEF Init, TypeOK
<1>2. Progress
  BY <1>0 DEF Init, Progress, Reading, Written
<1>3. ImagesCollected /\ LaidOut /\ PayloadsDisjoint /\ WrittenAsLaidOut /\ TableIsTrue
  BY Numbers DEF Init, ImagesCollected, LaidOut, PayloadsDisjoint, WrittenAsLaidOut, TableIsTrue, Written, Reading
<1>4. Checked /\ MappingReleased
  BY DEF Init, Checked, MappingReleased
<1> QED
  BY <1>1, <1>2, <1>3, <1>4 DEF IInv

LEMMA AddImageStep == IInv /\ AddImage => IInv'
<1> SUFFICES ASSUME IInv, AddImage PROVE IInv'
  OBVIOUS
<1> USE DEF written, reader
<1> DEFINE blob  == content.blobs[at]
           start == IF blob = 0 THEN 0 ELSE Align(images)
<1>1. /\ TypeOK /\ Progress /\ ImagesCollected /\ stage = "images" /\ stage' = "images"
      /\ at \in DOMAIN content.blobs /\ blob \in Nat /\ images \in Nat
      /\ Len(blobAt) = at - 1 /\ Len(imageOffset) = at - 1
  <2>1. TypeOK /\ Progress /\ ImagesCollected /\ stage = "images" /\ stage' = "images"
    BY DEF IInv, AddImage
  <2>2. Len(blobAt) = at - 1 /\ Len(imageOffset) = at - 1 /\ at \in 1 .. Len(content.blobs)
    BY <2>1 DEF AddImage, Progress
  <2>3. content.blobs \in Seq(Nat) /\ images \in Nat
    BY <2>1, ContentTyped DEF TypeOK
  <2>4. at \in DOMAIN content.blobs /\ blob \in Nat
    BY <2>2, <2>3
  <2> QED
    BY <2>1, <2>2, <2>3, <2>4
<1>2. start \in Nat /\ (blob # 0 => start % 8 = 0 /\ start >= images)
  BY <1>1, Aligned
<1>3. Cast32(start) \in Nat
  BY <1>2, CastFits
<1>4. /\ images' = (IF blob = 0 THEN images ELSE start + blob)
      /\ blobAt' = Append(blobAt, start) /\ imageOffset' = Append(imageOffset, Cast32(start))
      /\ at' = at + 1
  BY DEF AddImage
<1>5. images' \in Nat /\ images' >= images /\ (blob # 0 => images' = start + blob)
  BY <1>1, <1>2, <1>4
<1>6. TypeOK'
  <2>1. blobAt' \in Seq(Nat) /\ imageOffset' \in Seq(Nat)
    BY <1>1, <1>2, <1>3, <1>4 DEF TypeOK
  <2> QED
    BY <1>1, <1>4, <1>5, <2>1 DEF TypeOK, AddImage
<1>7. Progress'
  BY <1>1, <1>2, <1>3, <1>4, ContentTyped DEF Progress, AddImage, TypeOK, Reading, Written
<1>8. ImagesCollected'
  <2>1. ASSUME NEW p \in DOMAIN blobAt', content.blobs[p] # 0
        PROVE  /\ blobAt'[p] % 8 = 0 /\ blobAt'[p] + content.blobs[p] <= images'
               /\ imageOffset'[p] = Cast32(blobAt'[p])
    <3>1. CASE p = at
      <4>1. blobAt \in Seq(Nat) /\ imageOffset \in Seq(Nat) /\ at \in Nat
        BY <1>1 DEF TypeOK
      <4>2. blobAt'[at] = start /\ imageOffset'[at] = Cast32(start)
        <5> HIDE DEF start
        <5>1. blobAt'[at] = start
          <6>1. /\ blobAt \in Seq(Nat) /\ at \in Nat /\ Len(blobAt) = at - 1
                /\ start \in Nat /\ blobAt' = Append(blobAt, start)
            BY <1>1, <1>2, <1>4, <4>1
          <6> QED
            BY ONLY <6>1
        <5>2. imageOffset'[at] = Cast32(start)
          <6>1. /\ imageOffset \in Seq(Nat) /\ at \in Nat /\ Len(imageOffset) = at - 1 /\ Cast32(start) \in Nat
                /\ imageOffset' = Append(imageOffset, Cast32(start))
            BY <1>1, <1>3, <1>4, <4>1
          <6> QED
            BY ONLY <6>1
        <5> QED
          BY <5>1, <5>2
      <4>3. blob # 0
        BY <2>1, <3>1
      <4> QED
        BY <3>1, <4>2, <4>3, <1>2, <1>5, <1>1
    <3>2. CASE p # at
      <4>0. /\ blobAt \in Seq(Nat) /\ imageOffset \in Seq(Nat)
            /\ DOMAIN blobAt = 1 .. at - 1 /\ DOMAIN imageOffset = 1 .. at - 1
            /\ DOMAIN blobAt' = 1 .. at
        BY <1>1, <1>2, <1>3, <1>4, Appended DEF TypeOK
      <4>1. p \in DOMAIN blobAt /\ blobAt'[p] = blobAt[p] /\ imageOffset'[p] = imageOffset[p]
        <5>1. at \in Nat /\ p \in 1 .. at
          BY <4>0, <2>1, <1>1 DEF TypeOK
        <5>2. p \in 1 .. at - 1
          BY <5>1, <3>2
        <5>3. Append(blobAt, start)[p] = blobAt[p]
          BY <5>1, <3>2, <4>0, <1>1, <1>2, Appended
        <5>4. Append(imageOffset, Cast32(start))[p] = imageOffset[p]
          BY <5>1, <3>2, <4>0, <1>1, <1>3, Appended
        <5> QED
          BY <5>2, <5>3, <5>4, <4>0, <1>4
      <4>2. blobAt[p] \in Nat /\ p \in DOMAIN content.blobs
        <5>1. blobAt[p] \in Nat
          <6>1. blobAt \in Seq(Nat) /\ p \in DOMAIN blobAt
            BY <4>1, <4>0
          <6> QED
            BY <6>1
        <5>2. at \in 1 .. Len(content.blobs) /\ DOMAIN content.blobs = 1 .. Len(content.blobs)
          BY <1>1, ContentTyped
        <5> QED
          BY <5>1, <5>2, <4>1, <4>0, ContentTyped, <1>1
      <4>3. content.blobs[p] \in Nat
        BY <4>2, <1>1, ContentTyped
      <4>4. blobAt[p] % 8 = 0 /\ blobAt[p] + content.blobs[p] <= images /\ imageOffset[p] = Cast32(blobAt[p])
        BY <4>1, <1>1, <2>1 DEF ImagesCollected
      <4> QED
        BY <4>1, <4>2, <4>3, <4>4, <1>1, <1>5
    <3> QED
      BY <3>1, <3>2
  <2> QED
    BY <1>1, <2>1 DEF ImagesCollected, AddImage
<1>9. (LaidOut /\ PayloadsDisjoint /\ WrittenAsLaidOut /\ TableIsTrue /\ MappingReleased /\ Checked)'
  BY <1>1, Numbers DEF IInv, AddImage, Progress, LaidOut, PayloadsDisjoint, WrittenAsLaidOut, TableIsTrue,
     MappingReleased, Checked, Reading, Written
<1> QED
  BY <1>6, <1>7, <1>8, <1>9 DEF IInv

LEMMA PlaceImagesStep == IInv /\ PlaceImages => IInv'
<1> SUFFICES ASSUME IInv, PlaceImages PROVE IInv'
  OBVIOUS
<1> USE DEF written, reader
<1>1. /\ TypeOK /\ Progress /\ ImagesCollected /\ stage = "images" /\ stage' = "layout"
      /\ Len(blobAt) = Len(content.blobs) /\ Len(imageOffset) = Len(content.blobs)
      /\ table = <<>> /\ landed = <<>> /\ content' = content /\ blobAt' = blobAt /\ images' = images
  BY ContentTyped DEF IInv, PlaceImages, Progress, TypeOK
<1>2. EntriesEnd' = EntriesEnd /\ EntriesEnd \in Nat
  BY <1>1, ContentTyped DEF EntriesEnd
<1>3. Align(EntriesEnd) \in Nat
  BY <1>2, Aligned
<1>4. DOMAIN imageOffset = DOMAIN blobAt /\ \A p \in DOMAIN imageOffset : imageOffset[p] \in Nat
  <2>1. imageOffset \in Seq(Nat) /\ blobAt \in Seq(Nat) /\ Len(imageOffset) = Len(blobAt)
    BY <1>1 DEF TypeOK
  <2> QED
    BY <2>1
<1>5. \A p \in DOMAIN imageOffset : Cast32(imageOffset[p] + Cast32(Align(EntriesEnd))) \in Nat
  BY <1>3, <1>4, CastFits
<1>6. TypeOK'
  <2>0. /\ DOMAIN imageOffset = 1 .. Len(imageOffset) /\ Len(imageOffset) \in Nat
        /\ imageOffset' \in [DOMAIN imageOffset -> Nat]
    BY <1>1, <1>5 DEF PlaceImages, TypeOK
  <2>1. imageOffset' \in Seq(Nat) /\ Len(imageOffset') = Len(imageOffset)
    BY <2>0
  <2>2. executables' \in Nat
    BY <1>1, <1>3 DEF PlaceImages, TypeOK
  <2> QED
    BY <1>1, <2>1, <2>2 DEF PlaceImages, TypeOK, Stages
<1>7. Progress'
  <2>1. Len(imageOffset') = Len(imageOffset)
    BY <1>1, ContentTyped DEF PlaceImages, TypeOK
  <2> QED
    BY <1>1, <2>1, ContentTyped DEF Progress, PlaceImages, TypeOK, Reading, Written
<1>8. ImagesCollected'
  BY <1>1, <1>2, <1>4 DEF ImagesCollected, PlaceImages
<1>9. (LaidOut /\ PayloadsDisjoint /\ WrittenAsLaidOut /\ TableIsTrue /\ MappingReleased /\ Checked)'
  BY <1>1, Numbers DEF IInv, PlaceImages, Progress, LaidOut, PayloadsDisjoint, WrittenAsLaidOut, TableIsTrue,
     MappingReleased, Checked, Reading, Written
<1> QED
  BY <1>6, <1>7, <1>8, <1>9 DEF IInv

LEMMA LayOutStep == IInv /\ LayOut => IInv'
<1> SUFFICES ASSUME IInv, LayOut PROVE IInv'
  OBVIOUS
<1> USE DEF collected, reader
<1> DEFINE entry == [kind |-> Kinds[at], offset |-> Align(offset), size |-> PayloadSize(at)]
<1>1. /\ TypeOK /\ Progress /\ LaidOut /\ PayloadsDisjoint
      /\ stage = "layout" /\ stage' = "layout" /\ at \in 1 .. 4 /\ Len(table) = at - 1
      /\ table \in Seq(EntryType) /\ offset \in Nat /\ offset >= TableEnd
      /\ landed = <<>> /\ landed' = <<>>
  BY Numbers DEF IInv, LayOut, Progress, LaidOut, TypeOK
<1>2. PayloadSize(at) \in Nat /\ Align(offset) \in Nat /\ Align(offset) >= offset /\ Align(offset) % 8 = 0
  BY <1>1, PayloadTyped, Aligned
<1>3. entry \in EntryType
  BY <1>1, <1>2, Numbers DEF EntryType
<1>4. table' = Append(table, entry) /\ offset' = Align(offset) + PayloadSize(at) /\ at' = at + 1
  BY DEF LayOut
<1>5. /\ table' \in Seq(EntryType) /\ Len(table') = at /\ table'[at] = entry
      /\ DOMAIN table = 1 .. at - 1 /\ DOMAIN table' = 1 .. at
      /\ \A s \in 1 .. at - 1 : table'[s] = table[s]
  <2> HIDE DEF entry
  <2> QED BY <1>1, <1>3, <1>4
<1>6. TypeOK'
  <2>1. at' \in Nat /\ offset' \in Nat
    BY <1>1, <1>2, <1>4
  <2>2. table' \in Seq(EntryType)
    BY <1>5
  <2> HIDE DEF entry
  <2> QED
    BY <1>1, <2>1, <2>2 DEF TypeOK, LayOut
<1>7. Progress'
  BY <1>1, <1>4, <1>5 DEF Progress, LayOut, Reading, Written
<1>8. ImagesCollected'
  BY <1>1 DEF IInv, LayOut, ImagesCollected, EntriesEnd
<1>9. \A s \in 1 .. 4 : PayloadSize(s)' = PayloadSize(s)
  BY DEF LayOut, PayloadSize
<1>10. \A s \in 1 .. at - 1 :
         /\ table[s].offset \in Nat /\ table[s].size \in Nat
         /\ table[s].offset + table[s].size <= offset
  <2>1. ASSUME NEW s \in 1 .. at - 1
        PROVE  table[s] \in EntryType /\ table[s].offset + table[s].size <= offset
    <3>1. s \in DOMAIN table
      BY <1>5
    <3>2. table[s] \in EntryType
      BY <3>1, <1>1
    <3> QED
      BY <3>1, <3>2, <1>1 DEF LaidOut
  <2> QED
    BY <2>1 DEF EntryType
<1>11. LaidOut'
  <2>1. offset' \in Nat /\ offset' >= TableEnd /\ table' # <<>>
    BY SMTT(30), <1>1, <1>2, <1>4, <1>5, Numbers
  <2>2. offset' = table'[Len(table')].offset + table'[Len(table')].size
    BY <1>4, <1>5
  <2>3. ASSUME NEW s \in 1 .. at
        PROVE  /\ table'[s].size = PayloadSize(s)'
               /\ table'[s].offset % 8 = 0
               /\ table'[s].offset + table'[s].size <= offset'
               /\ table'[s].offset =
                    IF s = 1 THEN Align(TableEnd) ELSE Align(table'[s - 1].offset + table'[s - 1].size)
    <3>1. CASE s = at
      <4>1. offset = IF at = 1 THEN TableEnd ELSE table[at - 1].offset + table[at - 1].size
        BY <1>1, <1>5 DEF LaidOut
      <4>2. at # 1 => table'[at - 1] = table[at - 1]
        BY <1>1, <1>5
      <4>3. table'[s].offset = Align(offset) /\ table'[s].size = PayloadSize(at)
        BY <3>1, <1>5
      <4>4. table'[s].size = PayloadSize(s)' /\ table'[s].offset % 8 = 0
        <5>1. s \in 1 .. 4
          BY <1>1
        <5>2. PayloadSize(s)' = PayloadSize(s)
          BY ONLY <1>9, <5>1
        <5>3. PayloadSize(s) = PayloadSize(at)
          BY <3>1
        <5>4. table'[s].offset % 8 = 0
          BY <4>3, <1>2
        <5> QED
          BY <4>3, <5>2, <5>3, <5>4
      <4>5. table'[s].offset + table'[s].size <= offset'
        BY <4>3, <1>2, <1>4
      <4>6. table'[s].offset =
              IF s = 1 THEN Align(TableEnd) ELSE Align(table'[s - 1].offset + table'[s - 1].size)
        BY <3>1, <4>1, <4>2, <4>3
      <4> QED
        BY <4>4, <4>5, <4>6
    <3>2. CASE s # at
      <4>1. s \in 1 .. at - 1 /\ (s # 1 => s - 1 \in 1 .. at - 1)
        BY <3>2, <1>1
      <4>2. table'[s] = table[s] /\ (s # 1 => table'[s - 1] = table[s - 1])
        BY <4>1, <1>5
      <4>3. /\ table[s].size = PayloadSize(s) /\ table[s].offset % 8 = 0
            /\ table[s].offset =
                 IF s = 1 THEN Align(TableEnd) ELSE Align(table[s - 1].offset + table[s - 1].size)
        BY <4>1, <1>1, <1>5 DEF LaidOut
      <4>4. table[s].offset + table[s].size <= offset'
        BY SMTT(30), <4>1, <1>1, <1>2, <1>4, <1>10
      <4>5. PayloadSize(s)' = PayloadSize(s)
        BY <4>1, <1>1, <1>9
      <4> QED
        BY <4>1, <4>2, <4>3, <4>4, <4>5
    <3> QED
      BY <3>1, <3>2
  <2> QED
    BY <2>1, <2>2, <2>3, <1>5 DEF LaidOut
<1>12. PayloadsDisjoint'
  <2>1. ASSUME NEW s \in 1 .. at, NEW r \in 1 .. at
        PROVE  /\ table'[s].offset >= TableEnd
               /\ s < r => table'[s].offset + table'[s].size <= table'[r].offset
    <3>1. CASE r # at /\ s # at
      BY <3>1, <1>1, <1>5 DEF PayloadsDisjoint
    <3>2. CASE s = at
      BY <3>2, <1>1, <1>2, <1>5, Numbers
    <3>3. CASE s # at /\ r = at
      <4>1. s \in 1 .. at - 1
        BY <3>3, <1>1
      <4>2. table'[s] = table[s] /\ table'[r].offset = Align(offset)
        BY <4>1, <3>3, <1>5
      <4>3. table[s].offset >= TableEnd
        BY <4>1, <1>1, <1>5 DEF PayloadsDisjoint
      <4> QED
        BY SMTT(30), <4>1, <4>2, <4>3, <1>1, <1>2, <1>10
    <3> QED
      BY <3>1, <3>2, <3>3
  <2> QED
    BY <2>1, <1>5 DEF PayloadsDisjoint
<1>13. (WrittenAsLaidOut /\ TableIsTrue /\ MappingReleased /\ Checked)'
  BY <1>1 DEF IInv, LayOut, Progress, WrittenAsLaidOut, TableIsTrue, MappingReleased, Checked, Reading, Written
<1> QED
  BY <1>6, <1>7, <1>8, <1>11, <1>12, <1>13 DEF IInv

LEMMA WriteTableStep == IInv /\ WriteTable => IInv'
<1> SUFFICES ASSUME IInv, WriteTable PROVE IInv'
  OBVIOUS
<1> USE DEF collected, reader
<1>1. /\ TypeOK /\ Progress /\ stage = "layout" /\ stage' = "write" /\ at' = 1
      /\ Len(table) = 4 /\ out = 0 /\ landed = <<>> /\ landed' = <<>>
      /\ UNCHANGED <<content, images, blobAt, imageOffset, executables, offset, table, disk, reader>>
  <2>1. TypeOK /\ Progress /\ stage = "layout" /\ at > 4 /\ at \in 1 .. 5
    BY Numbers DEF IInv, WriteTable, Progress
  <2>2. Len(table) = at - 1 /\ out = 0 /\ landed = <<>>
    BY <2>1 DEF Progress
  <2>3. Len(table) = 4
    BY <2>1, <2>2
  <2> QED
    BY <2>1, <2>2, <2>3 DEF WriteTable
<1>2. out' = TableEnd
  BY <1>1, Numbers DEF WriteTable, HeaderSize, EntrySize
<1>3. TypeOK'
  BY <1>1, <1>2, Numbers DEF TypeOK, Stages
<1>4. Progress'
  BY <1>1 DEF Progress, Reading, Written
<1>5. \A s \in 1 .. 4 : PayloadSize(s)' = PayloadSize(s)
  BY <1>1 DEF PayloadSize
<1>6. DOMAIN table = 1 .. 4
  BY <1>1 DEF TypeOK
<1>7. LaidOut'
  BY <1>1, <1>5, <1>6 DEF IInv, LaidOut
<1>8. (ImagesCollected /\ PayloadsDisjoint)'
  BY <1>1 DEF IInv, ImagesCollected, PayloadsDisjoint, EntriesEnd
<1>9. (WrittenAsLaidOut /\ TableIsTrue /\ MappingReleased)'
  BY <1>1, <1>2 DEF IInv, Progress, WrittenAsLaidOut, TableIsTrue, MappingReleased, Reading, Written
<1>10. Checked'
  <2>1. Checked /\ size \in Nat /\ disk.length \in Nat
    BY DEF IInv, TypeOK
  <2>2. size <= 0 /\ disk.length <= 0 /\ size' = size /\ disk' = disk /\ status' = "none"
    BY <1>1, <2>1 DEF IInv, Progress, Checked, Reading
  <2> QED
    BY <2>1, <2>2, <1>1, <1>2, Numbers DEF Checked
<1> QED
  BY <1>3, <1>4, <1>7, <1>8, <1>9, <1>10 DEF IInv

LEMMA WritePayloadStep == IInv /\ WritePayload => IInv'
<1> SUFFICES ASSUME IInv, WritePayload PROVE IInv'
  OBVIOUS
<1> USE DEF collected, reader
<1>1. /\ TypeOK /\ Progress /\ stage = "write" /\ stage' = "write" /\ at \in 1 .. 4 /\ at' = at + 1
      /\ Len(table) = 4 /\ Len(landed) = at - 1 /\ landed \in Seq(Nat) /\ out \in Nat
      /\ table \in Seq(EntryType)
      /\ UNCHANGED <<content, images, blobAt, imageOffset, executables, offset, table, disk, reader>>
  BY Numbers DEF IInv, WritePayload, Progress, TypeOK, Written
<1>2. DOMAIN table = 1 .. 4
  BY <1>1
<1>3. \A s \in 1 .. 4 : table[s].offset \in Nat /\ table[s].size \in Nat
  <2>1. \A s \in DOMAIN table : table[s] \in EntryType
    <3>1. table \in Seq(EntryType)
      BY <1>1
    <3> QED
      BY <3>1
  <2> QED
    BY <2>1, <1>2 DEF EntryType
<1>4. landed' = Append(landed, Align(out)) /\ out' = Align(out) + PayloadSize(at)
  BY <1>1 DEF WritePayload
<1>5. PayloadSize(at) \in Nat /\ Align(out) \in Nat /\ Align(out) >= out /\ Align(out) % 8 = 0
  BY <1>1, PayloadTyped, Aligned
<1>6. Align(out) = table[at].offset /\ table[at].size = PayloadSize(at)
  <2>1. table[at].offset = IF at = 1 THEN Align(TableEnd) ELSE Align(table[at - 1].offset + table[at - 1].size)
    BY <1>1, <1>2 DEF IInv, LaidOut
  <2>2. out = IF at = 1 THEN TableEnd ELSE table[at - 1].offset + table[at - 1].size
    BY <1>1 DEF IInv, WrittenAsLaidOut, Written
  <2>3. table[at].size = PayloadSize(at)
    BY <1>1, <1>2 DEF IInv, LaidOut
  <2> QED
    BY <2>1, <2>2, <2>3
<1>7. /\ landed' \in Seq(Nat) /\ Len(landed') = at /\ DOMAIN landed' = 1 .. at /\ DOMAIN landed = 1 .. at - 1
      /\ landed'[at] = Align(out) /\ \A s \in 1 .. at - 1 : landed'[s] = landed[s]
  BY <1>1, <1>4, <1>5
<1>8. TypeOK'
  <2>1. at' \in Nat /\ out' \in Nat
    BY <1>1, <1>4, <1>5
  <2>2. landed' \in Seq(Nat)
    BY <1>7
  <2> QED
    BY <1>1, <2>1, <2>2 DEF TypeOK
<1>9. Progress'
  BY <1>1, <1>7 DEF Progress, Reading, Written
<1>10. \A s \in 1 .. 4 : PayloadSize(s)' = PayloadSize(s)
  BY <1>1 DEF PayloadSize
<1>11. LaidOut'
  BY <1>1, <1>2, <1>10 DEF IInv, LaidOut
<1>12. (ImagesCollected /\ PayloadsDisjoint)'
  BY <1>1 DEF IInv, ImagesCollected, PayloadsDisjoint, EntriesEnd
<1>13. \A s \in 1 .. at : landed'[s] = table[s].offset
  <2>1. landed'[at] = table[at].offset
    BY <1>6, <1>7
  <2>2. \A s \in 1 .. at - 1 : landed'[s] = table[s].offset
    BY <1>7 DEF IInv, WrittenAsLaidOut
  <2> QED
    BY <2>1, <2>2, <1>1
<1>14. WrittenAsLaidOut'
  <2>1. out' = table[at].offset + table[at].size /\ landed' # <<>>
    BY <1>1, <1>4, <1>6, <1>7
  <2> QED
    BY <2>1, <1>1, <1>7, <1>13 DEF WrittenAsLaidOut
<1>15. TableIsTrue'
  <2>1. ASSUME NEW s \in 1 .. at
        PROVE  /\ landed'[s] = table[s].offset /\ landed'[s] % 8 = 0
               /\ landed'[s] + table[s].size <= out'
    <3>1. landed'[s] = table[s].offset /\ table[s].offset % 8 = 0
      BY <1>1, <1>2, <1>13 DEF IInv, LaidOut
    <3>2. CASE s = at
      BY <3>1, <3>2, <1>3, <1>4, <1>5, <1>6
    <3>3. CASE s # at
      <4>1. s \in 1 .. at - 1
        BY <3>3, <1>1
      <4>2. landed[s] + table[s].size <= out
        BY <4>1, <1>7 DEF IInv, TableIsTrue
      <4> QED
        <5>1. /\ landed[s] = landed'[s] /\ s \in 1 .. 4
              /\ table[s].offset \in Nat /\ table[s].size \in Nat
          <6>1. landed[s] = landed'[s]
            BY <4>1, <1>7
          <6>2. s \in 1 .. 4
            BY <4>1, <1>1
          <6> QED
            BY <6>1, <6>2, <1>3
        <5> QED
          BY SMTT(30), <5>1, <4>2, <3>1, <1>1, <1>4, <1>5
    <3> QED
      BY <3>2, <3>3
  <2> QED
    BY <2>1, <1>1, <1>7 DEF TableIsTrue
<1>16. MappingReleased'
  BY <1>1 DEF IInv, Progress, MappingReleased, Reading
<1>17. Checked'
  <2>1. Checked /\ size \in Nat /\ disk.length \in Nat
    BY DEF IInv, TypeOK
  <2>2. size <= out' /\ disk.length <= out'
    <3>1. size <= out /\ disk.length <= out
      BY <2>1 DEF Checked
    <3> QED
      BY <3>1, <2>1, <1>1, <1>4, <1>5
  <2>3. size' = size /\ disk' = disk /\ status' = "none"
    BY <1>1 DEF IInv, Progress, Reading
  <2> QED
    BY <2>1, <2>2, <2>3, <1>1 DEF Checked
<1> QED
  BY <1>8, <1>9, <1>11, <1>12, <1>14, <1>15, <1>16, <1>17 DEF IInv

LEMMA StoreStep == IInv /\ Store => IInv'
<1> SUFFICES ASSUME IInv, Store PROVE IInv'
  OBVIOUS
<1>1. /\ stage = "write" /\ stage' = "stored" /\ UNCHANGED <<content, collected, written, reader>>
      /\ at > 4 /\ at' = 1
  BY Numbers DEF Store
<1>2. disk' \in [length : Nat, current : BOOLEAN, table : Seq(EntryType)] /\ disk'.length <= out
  <2>1. PICK length \in 0 .. out, current \in BOOLEAN, entries \in {table} \cup Altered :
          disk' = [length |-> length, current |-> current, table |-> entries]
    BY DEF Store
  <2>2. out \in Nat /\ entries \in Seq(EntryType)
    BY AlteredAssumption DEF IInv, TypeOK
  <2> QED
    BY <2>1, <2>2
<1>3. TypeOK'
  BY <1>1, <1>2 DEF IInv, TypeOK, Stages, collected, written, reader
<1>4. Progress'
  <2>1. Progress /\ TypeOK
    BY DEF IInv
  <2>2. at \in 1 .. 5 /\ Len(landed) = at - 1 /\ Len(table) = 4
    BY <1>1, <2>1 DEF Progress, Written
  <2> QED
    BY <1>1, <2>1, <2>2 DEF Progress, Reading, Written, collected, written, reader
<1>5. FileAsStated'
  BY <1>1, ReaderKeeps DEF Reading
<1>6. (MappingReleased /\ Checked)'
  BY <1>1, <1>2 DEF IInv, Progress, MappingReleased, Checked, Reading, reader, written
<1> QED
  BY <1>3, <1>4, <1>5, <1>6 DEF IInv, FileAsStated

-----------------------------------------------------------------------------
(* The runtime's steps: what they need of the file is in FileAsStated.       *)

(* A refusal is one for a reason. *)
LEMMA FailStep ==
  ASSUME IInv, NEW how \in {"IO", "OUT_OF_MEMORY", "INVALID_MODULE"}, Fail(how),
         stage \in {"stored", "validate"},
         UNCHANGED <<content, collected, written, disk>>,
         how = "INVALID_MODULE" =>
           size = disk.length /\ (~disk.current \/ ~TableFits \/ \E s \in DOMAIN disk.table : ~Within(s, size))
  PROVE  IInv'
<1>1. TypeOK'
  BY DEF IInv, TypeOK, Fail, Stages, Statuses, collected, written
<1>2. Progress'
  BY DEF IInv, Progress, Fail, Reading, Written, collected, written
<1>3. FileAsStated'
  BY ReaderKeeps DEF Fail, Reading
<1>4. (MappingReleased /\ Checked)'
  BY DEF IInv, MappingReleased, Checked, Within, TableFits, Fail, written
<1> QED
  BY <1>1, <1>2, <1>3, <1>4 DEF IInv, FileAsStated

LEMMA MapStep == IInv /\ Map => IInv'
<1> SUFFICES ASSUME IInv, Map PROVE IInv'
  OBVIOUS
<1>1. stage = "stored" /\ UNCHANGED <<content, collected, written, disk>>
  BY DEF Map
<1>2. CASE Fail("IO") \/ Fail("OUT_OF_MEMORY")
  BY <1>1, <1>2, FailStep
<1>3. CASE /\ disk.length > 0 /\ size' = disk.length /\ mapped' = TRUE
           /\ stage' = "validate" /\ at' = 0 /\ UNCHANGED status
  <2>1. TypeOK'
    BY <1>1, <1>3 DEF IInv, TypeOK, Stages, collected, written
  <2>2. Progress'
    BY <1>1, <1>3 DEF IInv, Progress, Reading, Written, collected, written
  <2>3. FileAsStated'
    BY <1>1, <1>3, ReaderKeeps DEF Reading
  <2>4. Len(disk.table) \in Nat
    BY DEF IInv, TypeOK
  <2>5. (MappingReleased /\ Checked)'
    BY <1>1, <1>3, <2>4 DEF IInv, MappingReleased, Checked, written
  <2> QED
    BY <2>1, <2>2, <2>3, <2>5 DEF IInv, FileAsStated
<1> QED
  BY <1>2, <1>3 DEF Map

LEMMA ValidateHeaderStep == IInv /\ ValidateHeader => IInv'
<1> SUFFICES ASSUME IInv, ValidateHeader PROVE IInv'
  OBVIOUS
<1>1. stage = "validate" /\ at = 0 /\ UNCHANGED <<content, collected, written, disk>>
  BY DEF ValidateHeader
<1>2. disk \in [length : Nat, current : BOOLEAN, table : Seq(EntryType)] /\ size \in Nat /\ size = disk.length
  BY <1>1 DEF IInv, TypeOK, Checked
<1> DEFINE broken == size < HeaderSize \/ ~disk.current \/ HeaderSize + Len(disk.table) * EntrySize > size
<1>3. Len(disk.table) \in Nat /\ HeaderSize = 24 /\ EntrySize = 24
  BY <1>2 DEF HeaderSize, EntrySize
<1>4. (broken <=> ~disk.current \/ ~TableFits) /\ Len(disk.table) + 1 >= 1
  BY <1>2, <1>3 DEF TableFits
<1>5. CASE broken
  BY <1>1, <1>2, <1>4, <1>5, FailStep DEF ValidateHeader
<1>6. CASE ~broken
  <2>1. at' = 1 /\ UNCHANGED <<stage, size, mapped, status>>
    BY <1>6 DEF ValidateHeader, reader
  <2>2. disk.current /\ TableFits
    BY <1>4, <1>6
  <2>3. TypeOK'
    BY <1>1, <2>1 DEF IInv, TypeOK, collected, written
  <2>4. Progress'
    BY <1>1, <2>1 DEF IInv, Progress, Reading, Written, collected, written
  <2>5. FileAsStated'
    BY <1>1, <2>1, ReaderKeeps DEF Reading
  <2>6. MappingReleased'
    BY <1>1, <2>1 DEF IInv, MappingReleased
  <2>7. TableFits' /\ disk'.current /\ \A s \in 1 .. at' - 1 : Within(s, size)'
    BY <1>1, <2>1, <2>2 DEF TableFits
  <2>8. at' \in 0 .. Len(disk'.table) + 1
    BY <1>1, <1>3, <2>1
  <2>9. Checked'
    BY <1>1, <2>1, <2>7, <2>8 DEF IInv, Checked, written
  <2> QED
    BY <2>3, <2>4, <2>5, <2>6, <2>9 DEF IInv, FileAsStated
<1> QED
  BY <1>5, <1>6

LEMMA ValidateSectionStep == IInv /\ ValidateSection => IInv'
<1> SUFFICES ASSUME IInv, ValidateSection PROVE IInv'
  OBVIOUS
<1>1. stage = "validate" /\ at \in DOMAIN disk.table /\ UNCHANGED <<content, collected, written, disk>>
  BY DEF ValidateSection
<1>2. PICK entries \in Seq(EntryType) : entries = disk.table
  BY DEF IInv, TypeOK
<1>3. at \in 1 .. Len(entries) /\ entries[at] \in EntryType /\ Len(entries) \in Nat /\ size \in Nat
  BY <1>1, <1>2 DEF IInv, TypeOK
<1>4. Entry.offset \in Nat /\ Entry.size \in Nat
  BY <1>2, <1>3 DEF EntryType, Entry
<1> DEFINE broken == Entry.offset > size \/ Entry.size > size - Entry.offset
<1>5. broken <=> ~Within(at, size)
  BY <1>3, <1>4 DEF Within, Entry
<1>6. CASE broken
  <2>1. size = disk.length
    BY <1>1 DEF IInv, Checked
  <2> QED
    BY <1>1, <1>5, <1>6, <2>1, FailStep DEF ValidateSection
<1>7. CASE ~broken
  <2>1. at' = at + 1 /\ UNCHANGED <<stage, size, mapped, status>>
    BY <1>7 DEF ValidateSection, reader
  <2>2. TypeOK'
    BY <1>1, <2>1 DEF IInv, TypeOK, collected, written
  <2>3. Progress'
    BY <1>1, <2>1 DEF IInv, Progress, Reading, Written, collected, written
  <2>4. FileAsStated'
    BY <1>1, <2>1, ReaderKeeps DEF Reading
  <2>5. \A s \in 1 .. at' - 1 : Within(s, size)'
    <3>1. \A s \in 1 .. at : Within(s, size)
      BY <1>1, <1>3, <1>5, <1>7 DEF IInv, Checked
    <3> QED
      BY <3>1, <1>1, <1>3, <2>1 DEF Within
  <2>6. MappingReleased'
    BY <1>1, <2>1 DEF IInv, MappingReleased
  <2>7. TableFits' /\ disk'.current
    BY <1>1, <1>3, <2>1 DEF IInv, Checked, TableFits
  <2>8. at' \in 0 .. Len(disk'.table) + 1
    BY <1>1, <1>2, <1>3, <2>1
  <2>9. Checked'
    BY <1>1, <2>1, <2>5, <2>7, <2>8 DEF IInv, Checked, written
  <2> QED
    BY <2>2, <2>3, <2>4, <2>6, <2>9 DEF IInv, FileAsStated
<1> QED
  BY <1>6, <1>7

LEMMA LoadStep == IInv /\ Load => IInv'
<1> SUFFICES ASSUME IInv, Load PROVE IInv'
  OBVIOUS
<1>1. /\ stage = "validate" /\ at > Len(disk.table) /\ stage' = "loaded" /\ status' = "OK"
      /\ UNCHANGED <<content, at, collected, written, disk, size, mapped>>
  BY DEF Load
<1>2. PICK entries \in Seq(EntryType) : entries = disk.table
  BY DEF IInv, TypeOK
<1>3. disk.current /\ TableFits /\ \A s \in DOMAIN disk.table : Within(s, size)
  <2>1. /\ at \in 0 .. Len(entries) + 1 /\ at > Len(entries)
        /\ Len(entries) \in Nat /\ DOMAIN entries = 1 .. Len(entries)
    BY <1>1, <1>2 DEF IInv, Checked
  <2>2. at > 0 /\ DOMAIN entries = 1 .. at - 1
    BY <2>1
  <2> QED
    BY <1>1, <1>2, <2>2 DEF IInv, Checked
<1>4. TypeOK'
  BY <1>1 DEF IInv, TypeOK, Stages, Statuses, collected, written
<1>5. Progress'
  BY <1>1 DEF IInv, Progress, Reading, Written, collected, written
<1>6. FileAsStated'
  BY <1>1, ReaderKeeps DEF Reading
<1>7. (MappingReleased /\ Checked)'
  BY <1>1, <1>3 DEF IInv, MappingReleased, Checked, Within, TableFits, written
<1> QED
  BY <1>4, <1>5, <1>6, <1>7 DEF IInv, FileAsStated

LEMMA RecompileStep == IInv /\ Recompile => IInv'
<1> SUFFICES ASSUME IInv, Recompile PROVE IInv'
  OBVIOUS
<1>1. /\ stage = "loaded" /\ disk' = [disk EXCEPT !.length = 0]
      /\ UNCHANGED <<content, stage, at, collected, written, reader>>
  BY DEF Recompile
<1>2. disk' \in [length : Nat, current : BOOLEAN, table : Seq(EntryType)] /\ disk'.length = 0
      /\ disk'.current = disk.current /\ disk'.table = disk.table
  BY <1>1 DEF IInv, TypeOK
<1>3. TypeOK'
  BY <1>1, <1>2 DEF IInv, TypeOK, collected, written, reader
<1>4. Progress'
  BY <1>1 DEF IInv, Progress, Reading, Written, collected, written, reader
<1>5. FileAsStated'
  BY <1>1, ReaderKeeps DEF Reading
<1>6. (MappingReleased /\ Checked)'
  <2>1. 0 <= out
    BY DEF IInv, TypeOK
  <2> QED
    BY <2>1, <1>1, <1>2 DEF IInv, MappingReleased, Checked, Within, TableFits, written, reader
<1> QED
  BY <1>3, <1>4, <1>5, <1>6 DEF IInv, FileAsStated

LEMMA ReleaseStep == IInv /\ Release => IInv'
<1> SUFFICES ASSUME IInv, Release PROVE IInv'
  OBVIOUS
<1>1. /\ stage = "loaded" /\ stage' = "released" /\ mapped' = FALSE
      /\ UNCHANGED <<content, at, collected, written, disk, size, status>>
  BY DEF Release
<1>2. TypeOK'
  BY <1>1 DEF IInv, TypeOK, Stages, collected, written
<1>3. Progress'
  BY <1>1 DEF IInv, Progress, Reading, Written, collected, written
<1>4. FileAsStated'
  BY <1>1, ReaderKeeps DEF Reading
<1>5. (MappingReleased /\ Checked)'
  BY <1>1 DEF IInv, MappingReleased, Checked, written
<1> QED
  BY <1>2, <1>3, <1>4, <1>5 DEF IInv, FileAsStated

LEMMA StutterStep == IInv /\ UNCHANGED vars => IInv'
<1> SUFFICES ASSUME IInv, UNCHANGED vars PROVE IInv'
  OBVIOUS
<1>1. (TypeOK /\ Progress)'
  BY DEF IInv, TypeOK, Progress, vars
<1>2. (ImagesCollected /\ PayloadsDisjoint /\ WrittenAsLaidOut /\ TableIsTrue)'
  BY DEF IInv, ImagesCollected, PayloadsDisjoint, WrittenAsLaidOut, TableIsTrue, EntriesEnd, vars
<1>3. LaidOut'
  BY DEF IInv, LaidOut, PayloadSize, vars
<1>4. (MappingReleased /\ Checked)'
  BY DEF IInv, MappingReleased, Checked, Within, TableFits, vars
<1> QED
  BY <1>1, <1>2, <1>3, <1>4 DEF IInv

-----------------------------------------------------------------------------
(* The theorems.                                                             *)

(* The invariant the others follow from. *)
THEOREM Invariance == Spec => []IInv
<1>1. Init => IInv
  BY InitHolds
<1>2. IInv /\ [Next]_vars => IInv'
  BY AddImageStep, PlaceImagesStep, LayOutStep, WriteTableStep, WritePayloadStep, StoreStep,
     MapStep, ValidateHeaderStep, ValidateSectionStep, LoadStep, RecompileStep, ReleaseStep,
     StutterStep DEF Next
<1> QED
  BY <1>1, <1>2, PTL DEF Spec

(* Every variable keeps its type. *)
THEOREM TypeCorrectness == Spec => []TypeOK
<1>1. IInv => TypeOK
  BY DEF IInv
<1> QED
  BY <1>1, Invariance, PTL

(* Serializer::run: the offsets computed before the table is written are where
   padTo puts the payloads, on 8-byte boundaries. *)
THEOREM TableCorrectness == Spec => []TableIsTrue
<1>1. IInv => TableIsTrue
  BY DEF IInv
<1> QED
  BY <1>1, Invariance, PTL

(* Serializer::run: no payload overlaps another, or the table. *)
THEOREM Disjointness == Spec => []PayloadsDisjoint
<1>1. IInv => PayloadsDisjoint
  BY DEF IInv
<1> QED
  BY <1>1, Invariance, PTL

(* collectExecutables: the offsets moved past the entries lead to the images. *)
THEOREM ImageOffsets == Spec => []ImagesAreFound
<1>1. IInv => ImagesAreFound
  <2> SUFFICES ASSUME IInv, stage # "images", executables < Uint32,
                      NEW p \in DOMAIN content.blobs, content.blobs[p] # 0
               PROVE  /\ imageOffset[p] = Align(EntriesEnd) + blobAt[p]
                      /\ imageOffset[p] % 8 = 0
                      /\ imageOffset[p] >= EntriesEnd
                      /\ imageOffset[p] + content.blobs[p] <= executables
    BY DEF ImagesAreFound
  <2>1. TypeOK /\ Progress /\ ImagesCollected
    BY DEF IInv
  <2>2. blobAt \in Seq(Nat) /\ Len(blobAt) = Len(content.blobs) /\ DOMAIN blobAt = DOMAIN content.blobs
    BY <2>1, ContentTyped DEF TypeOK, Progress
  <2>3. p \in DOMAIN blobAt
    BY <2>2
  <2>4. blobAt[p] \in Nat /\ content.blobs[p] \in Nat /\ images \in Nat
    BY SMTT(30), <2>1, <2>2, <2>3, ContentTyped DEF TypeOK
  <2>5. /\ blobAt[p] % 8 = 0 /\ blobAt[p] + content.blobs[p] <= images
        /\ imageOffset[p] = Cast32(Cast32(blobAt[p]) + Cast32(Align(EntriesEnd)))
        /\ executables = Align(EntriesEnd) + images
    BY <2>1, <2>3 DEF ImagesCollected
  <2>6. EntriesEnd \in Nat /\ Align(EntriesEnd) \in Nat /\ Align(EntriesEnd) >= EntriesEnd
        /\ Align(EntriesEnd) % 8 = 0
    BY <2>1, ContentTyped, Aligned
  <2>7. Cast32(blobAt[p]) = blobAt[p] /\ Cast32(Align(EntriesEnd)) = Align(EntriesEnd)
    <3>1. blobAt[p] < Uint32 /\ Align(EntriesEnd) < Uint32
      BY <2>4, <2>5, <2>6, UintAssumption
    <3> QED
      BY <3>1, <2>4, <2>6, CastFits
  <2>8. imageOffset[p] = Align(EntriesEnd) + blobAt[p]
    <3>1. blobAt[p] + Align(EntriesEnd) \in Nat /\ blobAt[p] + Align(EntriesEnd) < Uint32
      BY <2>4, <2>5, <2>6, UintAssumption
    <3>2. Cast32(blobAt[p] + Align(EntriesEnd)) = blobAt[p] + Align(EntriesEnd)
      BY <3>1, CastFits
    <3> QED
      BY <3>2, <2>4, <2>5, <2>6, <2>7
  <2>9. (Align(EntriesEnd) + blobAt[p]) % 8 = 0
    BY <2>4, <2>5, <2>6, AlignedSum
  <2>10. /\ Align(EntriesEnd) + blobAt[p] >= EntriesEnd
         /\ Align(EntriesEnd) + blobAt[p] + content.blobs[p] <= executables
    BY <2>4, <2>5, <2>6
  <2> QED
    BY <2>8, <2>9, <2>10
<1> QED
  BY <1>1, Invariance, PTL

(* A module of this version that was not altered ends with its last payload. *)
LEMMA WholeModule ==
  ASSUME IInv, stage \in {"loaded", "failed"}
  PROVE  /\ Len(table) = 4 /\ DOMAIN table = 1 .. 4
         /\ out = table[4].offset + table[4].size /\ TableEnd <= out
         /\ \A s \in 1 .. 4 : table[s].offset + table[s].size <= out
<1>0. stage \in Reading /\ stage \in Written
  BY DEF Reading, Written
<1>1. Len(table) = 4 /\ Len(landed) = 4 /\ table \in Seq(EntryType) /\ landed \in Seq(Nat)
  BY <1>0 DEF IInv, TypeOK, Progress
<1>2. DOMAIN table = 1 .. 4 /\ landed # <<>> /\ table # <<>>
  <2>1. DOMAIN table = 1 .. 4
    <3>1. Len(table) = 4 /\ table \in Seq(EntryType)
      BY ONLY <1>1
    <3> QED
      BY ONLY <3>1
  <2>2. landed # <<>>
    <3>1. SUFFICES ASSUME landed = <<>> PROVE FALSE
      OBVIOUS
    <3>2. Len(landed) = 4
      BY ONLY <1>1
    <3> QED
      BY ONLY <3>1, <3>2
  <2>3. table # <<>>
    <3>1. SUFFICES ASSUME table = <<>> PROVE FALSE
      OBVIOUS
    <3>2. Len(table) = 4
      BY ONLY <1>1
    <3> QED
      BY ONLY <3>1, <3>2
  <2> QED
    BY <2>1, <2>2, <2>3
<1>3. table[4] \in EntryType
  <2>1. table \in Seq(EntryType) /\ 4 \in DOMAIN table
    BY ONLY <1>1, <1>2
  <2> QED
    BY ONLY <2>1
<1>4. table[4].offset \in Nat /\ table[4].size \in Nat
  BY <1>3 DEF EntryType
<1>5. out = table[4].offset + table[4].size /\ offset = table[4].offset + table[4].size
  BY <1>0, <1>1, <1>2 DEF IInv, WrittenAsLaidOut, LaidOut
<1>6. table[4].offset >= TableEnd
  BY <1>2 DEF IInv, PayloadsDisjoint
<1>7. \A s \in 1 .. 4 : table[s].offset + table[s].size <= offset
  BY <1>2 DEF IInv, LaidOut
<1> QED
  BY <1>1, <1>2, <1>4, <1>5, <1>6, <1>7, Numbers

(* hexir_module_load_file: what is loaded holds what it lists, what is malformed
   does not. *)
THEOREM Refusal == Spec => []RejectsTheBroken
<1>1. IInv => RejectsTheBroken
  <2> SUFFICES ASSUME IInv PROVE RejectsTheBroken
    OBVIOUS
  <2>1. size \in Nat /\ out \in Nat /\ size <= out
    BY DEF IInv, TypeOK, Checked
  <2>2. ASSUME stage = "loaded", disk.table = table
        PROVE  size = out
    <3>1. /\ DOMAIN table = 1 .. 4 /\ out = table[4].offset + table[4].size
      BY <2>2, WholeModule
    <3>2. Within(4, size)
      BY <2>2, <3>1 DEF IInv, Checked
    <3> QED
      BY <2>1, <2>2, <3>1, <3>2 DEF Within
  <2>3. ASSUME stage = "loaded", NEW s \in UNION {Section(kind) : kind \in {Kinds[i] : i \in DOMAIN Kinds}}
        PROVE  Within(s, size)
    BY <2>3 DEF IInv, Checked, Section, Listed
  <2>4. ASSUME status = "INVALID_MODULE", disk.current, disk.table = table
        PROVE  size < out
    <3>1. /\ stage = "failed"
          /\ ~TableFits \/ \E s \in DOMAIN disk.table : ~Within(s, size)
      BY <2>4 DEF IInv, Checked
    <3>2. /\ Len(table) = 4 /\ DOMAIN table = 1 .. 4 /\ TableEnd <= out
          /\ \A s \in 1 .. 4 : table[s].offset + table[s].size <= out
      BY <3>1, WholeModule
    <3>3. CASE ~TableFits
      BY <2>1, <2>4, <3>2, <3>3, Numbers DEF TableFits
    <3>4. CASE \E s \in DOMAIN disk.table : ~Within(s, size)
      <4>1. PICK s \in 1 .. 4 : ~(table[s].offset + table[s].size <= size)
        BY <2>4, <3>2, <3>4 DEF Within
      <4>2. table[s].offset + table[s].size <= out
        BY <3>2
      <4> QED
        BY <2>1, <4>1, <4>2
    <3> QED
      BY <3>1, <3>3, <3>4
  <2>5. stage = "loaded" => disk.current
    BY DEF IInv, Checked
  <2>6. ASSUME status = "INVALID_MODULE", disk.current
        PROVE  \/ HeaderSize + Len(disk.table) * EntrySize > size
               \/ \E s \in DOMAIN disk.table : ~Within(s, size)
    <3>1. Len(disk.table) \in Nat
      BY DEF IInv, TypeOK
    <3>2. ~TableFits => HeaderSize + Len(disk.table) * EntrySize > size
      BY <2>1, <3>1 DEF TableFits, HeaderSize, EntrySize
    <3> QED
      BY <2>6, <3>2 DEF IInv, Checked
  <2> QED
    BY <2>2, <2>3, <2>4, <2>5, <2>6 DEF RejectsTheBroken
<1> QED
  BY <1>1, Invariance, PTL

(* hxb-dump and the loader draw the same line between a module and what is none,
   however many sections a table lists and whatever they are. *)
THEOREM ReadersAgreement == Spec => []ReadersAgree
<1>1. IInv => ReadersAgree
  <2> SUFFICES ASSUME IInv PROVE ReadersAgree
    OBVIOUS
  <2>1. PICK entries \in Seq(EntryType) : entries = disk.table
    BY DEF IInv, TypeOK
  <2>2. ASSUME size = disk.length, HeaderSize <= size
        PROVE  Dump!ReadsSections(disk.length, disk.table)
                 <=> TableFits /\ \A s \in DOMAIN disk.table : Within(s, size)
    <3>1. size \in Nat /\ Len(entries) \in Nat /\ DOMAIN entries = 1 .. Len(entries)
      BY DEF IInv, TypeOK
    <3>2. /\ Dump!HeaderBytes = 24 /\ Dump!EntryBytes = 24 /\ HeaderSize = 24 /\ EntrySize = 24
      BY DEF Dump!HeaderBytes, Dump!EntryBytes, HeaderSize, EntrySize
    <3>3. TableFits <=> 24 + Len(entries) * 24 <= size
      BY <2>1, <3>2 DEF TableFits
    <3>4. \A s \in 1 .. Len(entries) : entries[s].offset \in Nat /\ entries[s].size \in Nat
      <4>1. \A s \in 1 .. Len(entries) : entries[s] \in EntryType
        BY <3>1
      <4> QED
        BY <4>1 DEF EntryType
    <3>5. \A s \in 1 .. Len(entries) : Within(s, size) <=> entries[s].offset + entries[s].size <= size
      BY <2>1 DEF Within
    <3>6. Dump!ReadsSections(size, entries)
            <=> /\ 24 <= size
                /\ \A s \in 1 .. Len(entries) :
                     24 + s * 24 <= size /\ entries[s].offset <= size /\ entries[s].offset + entries[s].size <= size
      BY <3>1, <3>2 DEF Dump!ReadsSections
    <3>7. (\A s \in 1 .. Len(entries) : 24 + s * 24 <= size) <=> 24 + Len(entries) * 24 <= size
      BY <2>2, <3>1, <3>2
    <3>8. \A s \in 1 .. Len(entries) : entries[s].offset + entries[s].size <= size => entries[s].offset <= size
      BY <3>1, <3>4
    <3> QED
      BY <2>1, <2>2, <3>1, <3>2, <3>3, <3>5, <3>6, <3>7, <3>8
  <2>3. TableFits => HeaderSize <= size
    <3>1. Len(entries) \in Nat /\ size \in Nat
      BY DEF IInv, TypeOK
    <3> QED
      BY <2>1, <3>1 DEF TableFits, HeaderSize, EntrySize
  <2>4. stage = "loaded" /\ disk.length = size => Dump!ReadsSections(disk.length, disk.table)
    BY <2>2, <2>3 DEF IInv, Checked
  <2>5. ASSUME NEW i \in DOMAIN Kinds, \A s, r \in Listed(Kinds[i]) : s = r
        PROVE  Section(Kinds[i]) = Dump!SectionRead(disk.table, Kinds[i])
    <3>1. \A s \in Listed(Kinds[i]) : s \in Nat
      BY <2>1 DEF Listed
    <3>2. Section(Kinds[i]) = Listed(Kinds[i])
      BY <2>5, <3>1 DEF Section
    <3>3. Dump!SectionRead(disk.table, Kinds[i]) = {s \in Listed(Kinds[i]) : \A r \in Listed(Kinds[i]) : r <= s}
      BY DEF Dump!SectionRead, Listed
    <3> QED
      BY <2>5, <3>1, <3>2, <3>3
  <2>6. ASSUME status = "INVALID_MODULE", disk.current
        PROVE  ~Dump!ReadsSections(disk.length, disk.table)
    <3>1. /\ size = disk.length
          /\ ~TableFits \/ \E s \in DOMAIN disk.table : ~Within(s, size)
      BY <2>6 DEF IInv, Checked
    <3>2. CASE HeaderSize <= size
      BY <2>2, <3>1, <3>2
    <3>3. CASE ~(HeaderSize <= size)
      BY <3>1, <3>3 DEF IInv, TypeOK, HeaderSize, Dump!ReadsSections, Dump!HeaderBytes
    <3> QED
      BY <3>2, <3>3
  <2> QED
    BY <2>4, <2>5, <2>6 DEF ReadersAgree
<1> QED
  BY <1>1, Invariance, PTL

(* hexir_module_load_file: a failure gives the mapping back. *)
THEOREM MappingsEnd == Spec => []MappingReleased
<1>1. IInv => MappingReleased
  BY DEF IInv
<1> QED
  BY <1>1, Invariance, PTL
=============================================================================
