CONSTANTS
  Base <- ChainBase
  Dummy <- ChainDummy
  Shared <- ChainShared
  BaseOf <- ChainBaseOf
  Srcs <- ChainSrcs
  Independent <- ReduceIndependent
  Id <- ChainId
  InpIds <- ReduceInpIds
  DummyIds <- ReduceDummyIds
  Feeds <- ReduceFeeds
  Parts <- ReduceParts
  GroupOf <- ReduceGroupOf
  MaxDP = 2
  Plans <- ReducePlans
  MaxRounds <- ReduceRounds
SPECIFICATION Spec
INVARIANTS
  UngenedExact
  GluedWhenWhole
PROPERTIES
  UnlockedPoolIsFinal
  ImplementsDispatch
