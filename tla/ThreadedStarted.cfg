\* The run hangs, so it may stop.
CONSTANTS
  Workers = 1
  Scenarios <- MCStarted
SPECIFICATION FairSpec
PROPERTIES Terminates
CHECK_DEADLOCK FALSE
