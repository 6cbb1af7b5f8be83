\* Up to two executables; the uint32 range is small enough to be outgrown.
CONSTANTS
  Sizes = {24}
  BlobSizes = {0, 5, 8, 50}
  MaxBlobs = 2
  Uint32 = 240
  Uint64 = 1000
  Contents <- MCContents
  Altered <- MCAltered
SPECIFICATION Spec
INVARIANTS IInv TableIsTrue ImagesAreFound RejectsTheBroken ReadersAgree
\* A module that was refused or released is left alone.
CHECK_DEADLOCK FALSE
