SPECIFICATION TimedSpec
CONSTANTS
  a = a  b = b  c = c  d = d  here = here  there = there  none = none
  Procs <- Two
  Hosts <- TwoHosts
  Host <- Split
  Mortal <- Everybody
  MaxUses <- OnlyATwice
  Faults <- EveryFault
  None = none
INVARIANTS TypeOK
PROPERTIES WaitingEnds
CHECK_DEADLOCK FALSE
