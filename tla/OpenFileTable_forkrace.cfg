\* Fork: the child is ready before its parent has copied the open-file
\* table; a Read on an inherited id in between finds nothing.
CONSTANTS
  Tids <- MCTids
  MainTid = 0
  MaxFileNumber = 5
  Files = {f1, f2}
  NoFile = NoFile
  MaxOpens = 3

SPECIFICATION Spec
\* Nachos stops when every thread has exited or an ASSERT fails.
CHECK_DEADLOCK FALSE
INVARIANT ReadWriteNeverFails
