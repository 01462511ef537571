SPECIFICATION Spec
CONSTANTS
  a = a  b = b  c = c  d = d  here = here  there = there  none = none
  Procs <- Four
  Hosts <- OneHost
  Host <- AllHere
  Mortal <- OnlyD
  MaxUses <- Once
  Faults <- NoFaults
  None = none
SYMMETRY Interchangeable
INVARIANTS MutualExclusion
CHECK_DEADLOCK FALSE
