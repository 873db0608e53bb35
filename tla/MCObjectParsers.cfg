SPECIFICATION Spec
CONSTANTS
  Documents <- MCDocuments
  MaxDepth = 7
  Texts <- MCTexts
  Clipped <- MCClipped
  MaxTextObjects = 3
  Cells = {0, 1, 2, 3, 4, 5, 6, 7}
  Places <- MCPlaces
  Controls <- MCControls
  Corners <- MCCorners
  MaxOps = 4
  Files <- MCFiles
INVARIANTS
  StyleAsMeant
  TextAsMeant
  ClipsAsMeant
  PathAsMeant
  
PROPERTY ParsingEnds
