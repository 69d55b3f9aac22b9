\* A hand-off edge: the sender waits after each message.
CONSTANTS
  Capacity = 0
  MaxSends = 5
SPECIFICATION FairSpec
INVARIANTS TypeOK ClosedIsLearned
PROPERTIES ImplementsChannel CallReturns
