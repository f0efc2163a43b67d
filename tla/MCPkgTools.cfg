SPECIFICATION Spec
CONSTANTS
  Pkg <- MCPkg
  Plist <- MCPlist
  Scenarios <- MCScenarios
  Preserved <- MCPreserved
  Scripts <- MCScripts
  NULL = NULL
INVARIANTS
  DependenciesPresent
  RequiredByComplete
  NoStrayLines
  FilesOwned
  NoConflicts
  ManualKept
PROPERTIES
  PreservedKept
