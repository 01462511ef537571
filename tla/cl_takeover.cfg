SPECIFICATION FairSpec
CONSTANTS
  a = a  b = b  c = c  d = d  here = here  there = there  none = none
  Procs <- Three
  Hosts <- OneHost
  Host <- AllHere
  Mortal <- OnlyD
  MaxUses <- OnlyATwice
  Faults <- UnlinkFaults
  None = none
INVARIANTS MutualExclusion
PROPERTIES FormerOwnerCannotRelease DeadOwnerReclaimed
CHECK_DEADLOCK FALSE
