SPECIFICATION PartsSpec
CONSTANTS
  t1 = t1
  t2 = t2
  d1 = d1
  d2 = d2
  d3 = d3
  g1 = g1
  g2 = g2
  g3 = g3
  k1 = k1
  k2 = k2
  Turns = {t1, t2}
  Drivers = {d1, d2, d3}
  MaxStuck = 1
  Gets = {g1, g2, g3}
  Keys = {k1, k2}
  NoDriver = NoDriver
  Inputs = {p1, p2, p3, p4, p5}
INVARIANTS
  BackupReady
  DriversAccounted
  PromptOnce
  BusyHasRun
PROPERTIES
  RelayCompletes
  InputsHandled
CHECK_DEADLOCK FALSE
