SPECIFICATION Spec
CONSTANTS
  Pkg <- MCPkg
  Plist <- MCPlist
  Scenarios <- MCLeaves
  Preserved <- MCPreserved
  Scripts <- MCScripts
  NULL = NULL
INVARIANTS
  LeavesFound
