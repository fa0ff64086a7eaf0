\* A file f, then a file created at the path f/f: FindDirSector walks
\* into the regular file f as if it were a directory.
CONSTANTS
  d = d  e = e  f = f  sep = sep
  Names = {d, e, f}
  Sep = sep
  NumSectors = 12
  NumDirEntries = 2
  MapDataSectors = 1
  DirDataSectors = 1
  MaxDirDep = 5
  DirPaths <- LeakDirPaths
  FilePaths <- LeakFilePaths

SPECIFICATION Spec
INVARIANT SectorBitmap
