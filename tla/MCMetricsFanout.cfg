\* Up to three resources; the calls end in any order, some of them in failure.
SPECIFICATION FanoutFairSpec
CONSTANTS
  v1 = v1
  v2 = v2
  Empty = Empty
  Bad = Bad
  MaxItems = 3
  Keys <- MCKeys
  TimeSeries <- MCTimeSeries
  Numbers <- MCNumbers
  NoValue = NoValue
CHECK_DEADLOCK FALSE
INVARIANTS
  FanoutTypeOK
  ReadAfterAllStored
  EverySampleOnce
PROPERTIES
  GenerationEnds
