CONSTANTS
  Base <- ChainBase
  Dummy <- ChainDummy
  Shared <- ChainShared
  BaseOf <- ChainBaseOf
  Srcs <- ChainSrcs
  Independent <- ChainIndependent
  Id <- ChainId
  InpIds <- ChainInpIds
  DummyIds <- ChainDummyIds
  Feeds <- ChainFeeds
  Parts <- NoParts
  GroupOf <- NoGroups
  MaxDP = 2
  Plans <- ChainPlans
  MaxRounds <- ChainRounds
SPECIFICATION Spec
INVARIANTS
  TypeOK
  EachRequestOnce
  StrideInv
  SourcesFirst
  NothingLeftBehind
