CONSTANTS
  a = a
  b = b
  c = c
  t = t
  w = w
  x = x
  y = y
  Model <- Six
  Inputs <- NoInputs
  TotGpu = 8
  Unit = 4
  Schedules <- Overload
  Settings <- Adjusting
SPECIFICATION Spec
INVARIANTS
  EnoughGpus
