CONSTANTS
  NodeCount = 5
  Success <- MCSuccess
  Conditional <- MCConditional
  Reversible = {1, 2, 3, 4}
  Answers <- MCAnswers
  MaxConcurrency = 2
  MaxLapses = 1
SPECIFICATION Spec
PROPERTY CompensationNotInterrupted
