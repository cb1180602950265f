SPECIFICATION Spec
CONSTANTS
  Commands <- AllCommands
  MaxParts = 2
INVARIANTS
  
  WorkDirLife
  
  
  
  CountsAddUp
