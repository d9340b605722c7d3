SPECIFICATION RulesSpec
CONSTANTS
  Study <- MCStudy
  Facts <- MCFacts
  Choice <- MCChoice
  Market <- MCMarket
  Position = {p1}
  NoVerdict = NoVerdict
  MaxRules = 2
INVARIANTS
  LowerLowAfterLowerHigh
