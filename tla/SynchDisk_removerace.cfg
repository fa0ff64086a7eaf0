\* Four threads on one file: two readers of its data sector, one of which
\* holds the file open, a writer of the same sector, and a Remove.
CONSTANTS
  t1 = t1  t2 = t2  t3 = t3  t4 = t4
  Threads = {t1, t2, t3, t4}
  Prog <- MCProg
  DirSec = DirSec  MapSec = MapSec  HdrSec = HdrSec  DataSec = DataSec
  NoThread = NoThread

SPECIFICATION Spec




INVARIANT OpenFileNotFreed
