\* Two runs, one product, artifacts of one day, rows of two days.
CONSTANTS
  Products = {laptop}
  MaxRuns = 2
  Prices = {1, 2}
  MaxDays = 2
  MinEntries = 2
  Retention = 1
  MaxAttempts = 2
  MaxPersists = 2
  MaxCommits = 3
  MaxDate = 3
SPECIFICATION Spec
INVARIANT TypeOK
INVARIANT AnswerTrue
INVARIANT LowestEver
PROPERTY RecordsOnce
CHECK_DEADLOCK FALSE
