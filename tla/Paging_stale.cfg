\* Two pages, one frame, a FIFO TLB of two entries: the second page's fault
\* evicts the first, whose TLB entry stays.
CONSTANTS
  NumPages = 2
  NumPhysPages = 1
  TLBSize = 2
  Policies = {"FIFO"}
  WriteVals = {9}
  MaxAccesses = 3
  MaxSwitches = 0

SPECIFICATION Spec
\* The program stops after its last access.
CHECK_DEADLOCK FALSE
INVARIANT TLBCoherent
