CONSTANTS
  a = a
  b = b
  c = c
  d = d
  g1 = g1
  g2 = g2
  GPU <- TwoGpus
  Model <- ThreeModels
  Sources <- ThreeSources
  Columns <- NoColumns
  GpusOf <- NoGpus
  Preemptive = TRUE
  Late = {}
  MayFail = {a, b}
  Prompt = TRUE
  QuickRounds = FALSE
SPECIFICATION FairSpec
INVARIANTS
  PlansAreInForce
PROPERTIES
  SignalledIsReady
  StoppedIsHeard
  AllFinish
  FailureIsNoticed
CHECK_DEADLOCK FALSE
