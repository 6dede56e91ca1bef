CONSTANTS
  Engines <- Sliding
SPECIFICATION Spec
INVARIANTS
  NoDoubleFree
