CONSTANTS
  ClipNames <- MCClipNames
  Jobs <- MCJobs
  Base = "base"
  StepLimit = 2
  MaxSuspends = 2
SPECIFICATION FairSpec
INVARIANTS
  DrawnUnderOwnClip
  DeviceBalanced
PROPERTIES
  ImplementsDrawing
  EventuallyDone
CHECK_DEADLOCK FALSE
