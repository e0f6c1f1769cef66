SPECIFICATION FairSpec
CONSTANTS
  Cores = {1, 2}
  Samples = 2
  Positions <- HoldPositions
INVARIANTS
  HoldIsCurrent
  StaysLevel
PROPERTIES
  HoldResumes
  DropDisarms
