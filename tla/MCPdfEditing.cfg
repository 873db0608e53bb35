SPECIFICATION Spec
CONSTANTS
  Handles = {h1}
  Ending <- MCEnding
  Disks <- MCDisks
  Images = {"img", "broken"}
  Decodable = {"img"}
  Jsons <- MCJsons
  MaxCalls = 5
  MaxPages = 2
  MaxTexts = 1
  Absent = Absent
  NoPackage = NoPackage
INVARIANTS SavedAsCalled
PROPERTY FailuresContained
CHECK_DEADLOCK FALSE
