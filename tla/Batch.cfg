\* A word of 0..7 makes two items of size 5 overflow; limit 4 is crossed by
\* one such item, limit 7 (the word's maximum) by two.
CONSTANTS
  WordMax = 7
  Sizes = {0, 5}
  ItemLimits = {0, 1, 3}
  ByteLimits = {0, 4, 7}
  AgeLimits = {0, 2}
  MaxTaken = 4
  MaxTime = 2
  Accepted = {1, 9}
SPECIFICATION Spec
INVARIANTS TypeOK Segmented WithinLimits Timely
PROPERTIES ForAReason
