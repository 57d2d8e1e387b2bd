SPECIFICATION FairSpec
CONSTANTS
  c1 = c1
  c2 = c2
  c3 = c3
  Calls = {c1, c2, c3}
  Connect = Connect
  SessionNamed = {c3}
  Transports = {"stdio", "http"}
  NoRequest = NoRequest
  NoAnswer = NoAnswer
  Scenarios <- MCScenarios
INVARIANTS
  AnswerMatches
PROPERTIES
  StdioCallReturns
CHECK_DEADLOCK FALSE
