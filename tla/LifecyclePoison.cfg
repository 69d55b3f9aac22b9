\* One fault is enough: a step panics, the caller catches it and calls run.
CONSTANTS
  MaxItems = 1
  MaxTicks = 1
  MaxFaults = 1
SPECIFICATION Spec
INVARIANTS PoisonedRunFails
