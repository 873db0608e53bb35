CONSTANTS
  Packages <- MCPackages
  Asked = {7, 8, 9, 10, 16777216, 16777217}
  Exact = 16777216
  Nothing = Nothing
SPECIFICATION Spec
INVARIANTS
  OwnResource
  DocumentAsWritten
  OpeningDeathExplained
PROPERTIES
  OpeningEnds
