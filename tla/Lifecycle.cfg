\* Six faults are what it takes to make every lifecycle call panic after a panic.
CONSTANTS
  MaxItems = 2
  MaxTicks = 1
  MaxFaults = 6
SPECIFICATION Spec
INVARIANTS TypeOK TornDown FirstErrorWins PoisonSticks
PROPERTIES QuietAfterTeardown
