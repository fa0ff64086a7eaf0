\* The main thread (tid 0) opens a file and forks; the child's Read
\* on the inherited id runs GetFile's fallback loop, which hands every
\* slot it scans to the child, while the parent waits for the disk in
\* its own Read with the OpenFile of one of those slots.
CONSTANTS
  Tids <- MCTids
  MainTid = 0
  MaxFileNumber = 5
  Files = {f1, f2}
  NoFile = NoFile
  MaxOpens = 3

SPECIFICATION Spec
\* Nachos stops when every thread has exited or an ASSERT fails.
CHECK_DEADLOCK FALSE
INVARIANT NoUseAfterFree
