\* The Exec-only workload with four Open calls and the Exec-and-Fork
\* workload with three, one chosen per behaviour; a table of three file
\* slots, two files.
CONSTANTS
  Files = {f1, f2}
  NoFile = NoFile

SPECIFICATION ModesSpec
\* Nachos stops when every thread has exited or an ASSERT fails.
CHECK_DEADLOCK FALSE
INVARIANT ExecHandlesResolve
INVARIANT ExecNoOrphanSlot
INVARIANT ForkCopyNeverOverflows
