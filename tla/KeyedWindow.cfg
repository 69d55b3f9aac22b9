\* Four items on three keys let a key be evicted after another was used again;
\* MaxInstant lies above the clock, with windows that end beyond it.
CONSTANTS
  MaxInstant = 7
  Keys = {k1, k2, k3}
  Specs <- MCSpecs
  Accepted = {1, 9}
  Starts = {1}
  HeapSlack = 0
  MaxTaken = 4
  MaxTime = 4
  MaxSkews = 1
SYMMETRY MCSymmetry
SPECIFICATION Spec
INVARIANTS TypeOK  WindowsAsReported AsUnkeyed Timely TableSound
