\* Files grown a sector at a time into the double-indirect tier on a disk
\* without room for two full files: ExpandFileSize's check for growing
\* from the single into the double tier compares the free count with the
\* old size plus the new index blocks instead of with the growth, and
\* refuses a write there is room for.
CONSTANTS
  SectorSize = 2
  NumDirect = 2
  LevelNum = 2
  NumSectors = 24
  Junk = Junk
  MaxRemoves = 1
  MaxTotalBytes = 16
  NoFile = NoFile
  Names = {a, b}
  NumDirEntries = 2
  MaxBytes = 16
  CreateSizes = {0}
  WriteSizes = {1, 2}
  FreeMapFileSize <- MCFreeMapFileSize
  DirectoryFileSize <- MCDirectoryFileSize

SPECIFICATION MCSpec
CONSTRAINT RemoveBound
CONSTRAINT TotalBound
INVARIANT FitsIffSpace
