CONSTANTS
  a = a
  b = b
  c = c
  t = t
  w = w
  x = x
  y = y
  Model <- Small
  Inputs <- SmallInputs
  TotGpu = 4
  Unit = 2
  Schedules <- AllSchedules
  Settings <- AllSettings
SPECIFICATION Spec
INVARIANTS
  TypeOK
  GpusAreExclusive
  AssertionsHold
  GroupsAreConnected
  SomeModelCanFinish
PROPERTIES
  UnstoppedIsUntouched
