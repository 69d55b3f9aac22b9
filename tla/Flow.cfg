\* Three calls build any chain of two stages with a policy, or one under a
\* dead-letter policy with its sink; two items let a group hold one while another
\* comes, and one failure is met in every call.
CONSTANTS
  MaxCalls = 3
  MaxLinks = 2
  Names = {"a"}
  Retries = {"jittered", "endless", "none"}
  RetryPolicy <- MCRetryPolicy
  MaxItems = 2
  MaxTicks = 1
  MaxFaults = 1
  Fan = 2
  Interval = 1
  MaxClosing = 1
  NanosMax = 7
  InstantMax = 7
SPECIFICATION FairSpec
INVARIANTS TypeOK AsCalled NothingLost Accounted BothHalves SwitchInTime
PROPERTIES NothingAfterHalt CancelEnds
CHECK_DEADLOCK FALSE
