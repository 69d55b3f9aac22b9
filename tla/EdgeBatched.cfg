\* The smallest capacity at which counts are published in batches (32 \div 16 = 2)
\* and a blocked sender waits for several free slots (32 \div 4 = 8).
CONSTANTS
  Capacity = 32
  MaxSends = 35
SPECIFICATION Spec
INVARIANTS Bound NoLostWakeup NoMutualSleep
