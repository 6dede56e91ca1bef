CONSTANTS
  a = a
  b = b
  c = c
  d = d
  g1 = g1
  g2 = g2
  GPU <- TwoGpus
  Model <- ThreeModels
  Sources <- ThreeSources
  Columns <- NoColumns
  GpusOf <- NoGpus
  Preemptive = TRUE
  Late = {}
  MayFail = {}
  Prompt = FALSE
  QuickRounds = FALSE
SPECIFICATION Spec
PROPERTIES
  SignalledIsReady
CHECK_DEADLOCK FALSE
