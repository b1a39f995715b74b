CONSTANTS
  q = q
  r = r
  Queries = {q, r}
  HistorySize = 6
  MaxIterations = 2
  MaxRetries = 1
  QueueSize = 1
  Answers <- MCAnswers
  MaxRuns = 2
  Restored <- MCRestored
SPECIFICATION Spec
CHECK_DEADLOCK FALSE
INVARIANTS GroupsUnbroken SearchedAtMostTwice ToolsMatchPlan CancelHeeded SteersAnswered
PROPERTIES RunEnds RunAdvances
