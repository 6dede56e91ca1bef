CONSTANTS
  Engines <- AllEngines
SPECIFICATION FairSpec
INVARIANTS
  TypeOK
  RefCountsExact
  ChecksSuffice
  SlotsWritable
  NothingLost
  FirstComeFirstServed
  NeverCutShort
  ChainsCarry
PROPERTIES
  AllAnswered
