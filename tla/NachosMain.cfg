\* Each boot: every test of ThreadTest() (two producers and two consumers
\* over a buffer of two, four threads meeting at a barrier three times,
\* two readers and two writers looping twice); four threads on one file
\* over SynchDisk; directories d, e, d/e and files f, d/f, d/e/f on a
\* disk of 12 sectors whose directories hold two entries; PipeTest's
\* three rounds with words of one or two characters; a user program of
\* four pages making four loads or stores with two frames and a TLB of
\* three entries, under each TLB policy, with one context switch.
CONSTANTS
  Boots = {"ThreadTest", "SynchDisk", "Dirs", "PipeTest", "StartProcess"}
  Tests = {"Lab3Test4_1", "Lab3Test4_2", "Lab3Challenge1", "Lab3Challenge2"}
  p1 = p1  p2 = p2  c1 = c1  c2 = c2
  Producers = {p1, p2}
  Consumers = {c1, c2}
  BufIters <- MCBufIters
  BufLen = 2
  Junk = Junk
  BarThreads = {b1, b2, b3, b4}
  Rounds = 3
  Readers = {r1, r2}
  Writers = {w1, w2}
  RWIters = 2
  NoThread = NoThread
  t1 = t1  t2 = t2  t3 = t3  t4 = t4
  Threads = {t1, t2, t3, t4}
  Prog <- MCProg
  DirSec = DirSec  MapSec = MapSec  HdrSec = HdrSec  DataSec = DataSec
  d = d  e = e  f = f  sep = sep
  Names = {d, e, f}
  Sep = sep
  NumSectors = 12
  NumDirEntries = 2
  MapDataSectors = 1
  DirDataSectors = 1
  MaxDirDep = 5
  DirPaths <- MCDirPaths
  FilePaths <- MCFilePaths
  Chars = {x, y}
  NUL = NUL
  MaxLen = 2
  PipeRounds = 3
  NumPages = 4
  NumPhysPages = 2
  TLBSize = 3
  Policies = {"FIFO", "CLOCK", "RR"}
  WriteVals = {9}
  MaxAccesses = 4
  MaxSwitches = 1

SPECIFICATION Spec
PROPERTY BufferIsStack
PROPERTY RemoveDone
INVARIANT BarrierSync
INVARIANT RWExclusion
INVARIANT SectorRW
INVARIANT IOSerial
INVARIANT SectorBitmap
INVARIANT SingleOwner
INVARIANT PipeReadsLast
INVARIANT FrameOwnership
INVARIANT OneEntryPerPage
PROPERTY AllFinish
