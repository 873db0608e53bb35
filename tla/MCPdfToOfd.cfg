CONSTANTS
  Docs <- MCDocs
  Fonts <- MCFonts
  FontName <- MCFontName
  Embedded <- MCEmbedded
  Addrs = {a1, a2, a3}
  FirstID = 5856
SPECIFICATION Spec
INVARIANTS
  UniqueIds
  MaxUnitIDCovers
  TextFonts
  AnnotsOnOwnPage
  WholeIfNothingFailed
CHECK_DEADLOCK FALSE
