CONSTANTS
  a = a
  b = b
  c = c
  d = d
  g1 = g1
  g2 = g2
  GPU <- TwoGpus
  Model <- FourModels
  Sources <- FourSources
  Columns <- TwoColumns
  GpusOf <- ColumnGpus
  Preemptive = FALSE
  Late <- LateEvaluator
  MayFail = {}
  Prompt = FALSE
  QuickRounds = FALSE
SPECIFICATION FairSpec
INVARIANTS
  TypeOK
  ExclusiveGPUs
  LateAfterFirstStage
PROPERTIES
  AllFinish
