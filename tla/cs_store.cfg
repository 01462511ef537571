SPECIFICATION FairSpec
CONSTANTS
  e1 = e1  e2 = e2
  Editors <- TwoEditors
  MaxRev = 3
  NoEditor = NoEditor
INVARIANTS TypeOK BackupKeepsPredecessor
PROPERTIES NoLostUpdate RevisionIncreases NoSpuriousConflict Refinement SaveEnds
CHECK_DEADLOCK FALSE
