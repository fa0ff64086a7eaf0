\* Two files created with 6 sectors (one second-level block) and grown
\* by 6 more, which needs two new second-level blocks, on a disk with
\* exactly one sector too few: the check for new second-level blocks
\* counts one index block, Find runs dry and -1 is stored as a sector.
CONSTANTS
  SectorSize = 1
  NumDirect = 1
  LevelNum = 3
  NumSectors = 43
  Junk = Junk
  MaxRemoves = 1
  MaxTotalBytes = 26
  NoFile = NoFile
  Names = {a, b}
  NumDirEntries = 2
  MaxBytes = 13
  CreateSizes = {6}
  WriteSizes = {6}
  FreeMapFileSize <- MCFreeMapFileSize
  DirectoryFileSize <- MCDirectoryFileSize

SPECIFICATION MCSpec
CONSTRAINT RemoveBound
CONSTRAINT TotalBound
INVARIANT SectorOwnership
