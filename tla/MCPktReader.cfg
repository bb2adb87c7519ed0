SPECIFICATION FairSpec
CONSTANTS
  Initial = b0
  Spare = b1
  NoBatch = none
  Uses <- AllUses
  MaxViews = 2
  MaxProduced = 5
INVARIANT StreamIntact
PROPERTIES ViewStable CancelEndsBoth PacketsDelivered
CHECK_DEADLOCK FALSE
