SPECIFICATION Spec
CONSTANTS
  Schedule <- TwoChanges
  InitialRate = 2
  Second = 2
  MaxTime = 12
  Starts <- TwoClients
  AppStop = 9
  PathLength = 3
  Unopenable <- NoneOrOne
INVARIANTS
  RateAsConfigured
  ThroughputAccounted
  UtilAtMostFull
  ClientsApart
  ResultsReported
