CONSTANTS
  Base <- ChainBase
  Dummy <- ChainDummy
  Shared <- FusedShared
  BaseOf <- FusedBaseOf
  Srcs <- ChainSrcs
  Independent <- ChainIndependent
  Id <- ChainId
  InpIds <- FusedInpIds
  DummyIds <- FusedDummyIds
  Feeds <- FusedFeeds
  Parts <- NoParts
  GroupOf <- NoGroups
  MaxDP = 2
  Plans <- FusedPlans
  MaxRounds <- FusedRounds
SPECIFICATION FairSpec
INVARIANTS
  RoutedToItsBase
PROPERTIES
  AllAnswered
