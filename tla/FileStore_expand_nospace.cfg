\* Two files that can reach the double-indirect tier on a disk without
\* room for both at full size: ExpandFileSize's space check for growing a
\* file from the direct tier into the double tier compares the free count
\* with the old size instead of the growth, Find runs dry and its -1 is
\* stored as a sector number.
CONSTANTS
  SectorSize = 1
  NumDirect = 2
  LevelNum = 2
  NumSectors = 40
  Junk = Junk
  MaxRemoves = 1
  MaxTotalBytes = 16
  NoFile = NoFile
  Names = {a, b}
  NumDirEntries = 2
  MaxBytes = 8
  CreateSizes = {0, 1, 2, 3, 4, 5, 6, 7, 8}
  WriteSizes = {1, 2, 3, 4, 5, 6, 7, 8}
  FreeMapFileSize <- MCFreeMapFileSize
  DirectoryFileSize <- MCDirectoryFileSize

SPECIFICATION MCSpec
CONSTRAINT RemoveBound
INVARIANT SectorOwnership
