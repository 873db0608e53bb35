CONSTANTS
  BaseStep = 10
  Slack = 2
  IntMax = 60
  MaxMerges = 3
  Stamps = {t1, t2, t3}
  Own = own
  Names <- MCNames
  Targets <- MCTargets
  Sources <- MCSources
SYMMETRY Symmetry
SPECIFICATION Spec
INVARIANT SuccessLeavesDocument
CHECK_DEADLOCK FALSE
