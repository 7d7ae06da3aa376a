SPECIFICATION Spec
SYMMETRY DllSymmetry
CONSTANTS
  Source <- MCSource
  Unit <- MCUnit
  Dll = {dllA, dllB}
  Export <- MCExport
  MainTypes <- MCMainTypes
  LocalDecl = {"my.c#q"}
  Arguments <- MCArguments
  MaxLinks = 3
INVARIANTS RequirementsMet OneBody SourcesImportedOnce
\* No more links once the bound is reached.
CHECK_DEADLOCK FALSE
