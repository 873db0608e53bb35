CONSTANTS
  Packages <- MCPackages
  Handles = {h1, h2}
  AreaNames = {"612x792", "A4", "shifted"}
  Objects = {"a", "b", "c"}
  DrawParams = {7}
  NoArea = NoArea
  MaxLoads = 3
SPECIFICATION Spec
INVARIANTS
  PagesWhole
  AreaOfThePage
  ObjectsPlaced
  GroundsAligned
  PdfLikeScreen
