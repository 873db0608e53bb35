CONSTANTS
  Documents <- MCDocuments
  Plugins <- MCPlugins
  Pages <- MCPages
  Objects = {"o1"}
  Messages = {"expired"}
  None = None
SPECIFICATION Spec
INVARIANTS
  SuccessIsEarned
  FirstChangeNamed
  StampsOnce
  AcceptedIsSeen
  DeathHasAReason
