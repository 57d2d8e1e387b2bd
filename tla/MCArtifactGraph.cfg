SPECIFICATION Spec
CONSTANTS
  a1 = a1
  a2 = a2
  Agents = {a1, a2}
  NoAgent = NoAgent
  FilesOf <- FirstAndLast
  NoFile = NoFile
  PartialFile = PartialFile
  MaxItems = 3
  Earlier <- EarlierFiles
  MaxEvents = 1
SYMMETRY AgentSymmetry
INVARIANTS
  ClaimExclusive
  OutdatedStops
  TopoSound
  FileWhole
PROPERTIES
  AddKeepsOthers
CHECK_DEADLOCK FALSE
