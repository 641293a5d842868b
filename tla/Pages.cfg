SPECIFICATION Spec
CONSTANTS
  None = None
  MaxMatches = 3
  MaxLives = 5
  MaxXpRows = 4
  MaxReadings = 6
  MaxRules = 4
INVARIANTS
  HistoryAddsUp
  MarkersAreChanges
  AnalysisAddsUp
  XpAddsUp
  ShapeSurvives
PROPERTIES
  RulesStay
CHECK_DEADLOCK FALSE
