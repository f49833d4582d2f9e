SPECIFICATION OqsSpec
CONSTANTS
  Rank <- MCRank
  Queries <- MCQueries
  MaxWorkers = 4
  Budgets = {1, 3}
  Ties <- MCTies
  Exact = 4
  Spacings = {1, 2}
  SciFrom = 8
  Upper <- MCUpper
  Number <- MCNumber
  Digits <- MCDigits
  Parameter <- MCParameter
  Place <- MCPlace
  MaxLexemes = 20
  MaxHops = 3
  Requests <- MCRequests
  Asts <- MCAsts
INVARIANTS
  TypeOK
  ResultIsExact
  SucceedsIffFits
  ErrorHasCause
  CompleteMeansAll
  PreparedAsWritten
PROPERTIES
  RequestEnds
CHECK_DEADLOCK FALSE
