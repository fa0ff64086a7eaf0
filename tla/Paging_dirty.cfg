\* Two pages, one frame, a round-robin TLB of one entry (so no TLB entry
\* outlives its page): a store, then a fault on the other page.
CONSTANTS
  NumPages = 2
  NumPhysPages = 1
  TLBSize = 1
  Policies = {"RR"}
  WriteVals = {9}
  MaxAccesses = 3
  MaxSwitches = 1

SPECIFICATION Spec
\* The program stops after its last access.
CHECK_DEADLOCK FALSE
INVARIANT MemoryKept
