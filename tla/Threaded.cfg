\* Three threads; the scenarios are MCScenarios.
CONSTANTS
  Workers = 2
  Scenarios <- MCScenarios
SPECIFICATION FairSpec
INVARIANTS TypeOK TornDown Lossless RootCause PanicWins InFlight
PROPERTIES Terminates
