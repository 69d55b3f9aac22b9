\* The clock must be able to pass the end of two sessions between two calls.
CONSTANTS
  MaxInstant = 9
  Keys = {k1, k2}
  Specs <- MCSessions
  Accepted = {9}
  Starts = {1}
  HeapSlack = 64
  MaxTaken = 3
  MaxTime = 6
  MaxSkews = 0
SPECIFICATION Spec
PROPERTIES InOrderOfEnd
