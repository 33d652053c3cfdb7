SPECIFICATION Spec
CONSTANTS
  Toolsets <- SomeToolsets
  Logins <- WidestLogin
INVARIANTS
  DryRunsOnlyLook
  BadArgumentsChangeNothing
  ReadOnlyChangesNothing
  LoginCoversTools
  AdminToolsHaveForms
  ReadsOutliveLookups
  WritesAreWitnessed
  LastingIsConfirmed
