SPECIFICATION Spec
CONSTANTS
  Kinds = {"push/pull", "pull/push", "xpub/xsub", "router/dealer"}
  Frames = {2, 3}
  HWM = 1
  MaxArrivals = 4
INVARIANTS ForwardedInOrder NestingBounded Unaltered
CHECK_DEADLOCK FALSE
