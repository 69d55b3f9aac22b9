\* One segment, one item, two faults.
CONSTANTS
  Workers = 1
  Scenarios <- MCSelfAbort
SPECIFICATION Spec
INVARIANTS TornDown
