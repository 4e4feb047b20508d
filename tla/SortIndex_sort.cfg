CONSTANTS
  amount = 2
  blocks = 8
  Chunks = 2
  EvenBlocks = TRUE
  FullChunks = FALSE
SPECIFICATION Spec
INVARIANTS
  TypeOK
  NoBlockSkipped
  OverlapsOnlyThere
  PhasesInStep
  ChunkSorted
PROPERTIES
  Terminates
CHECK_DEADLOCK FALSE
