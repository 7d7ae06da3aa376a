SPECIFICATION Spec
SYMMETRY DllSymmetry
CONSTANTS
  Source <- MCFailSource
  Unit <- MCFailUnit
  Dll = {dllA, dllB}
  Export <- MCNoExport
  MainTypes <- MCFailMainTypes
  LocalDecl = {}
  Arguments <- MCFailArguments
  MaxLinks = 3
INVARIANT ImportedOnce
CHECK_DEADLOCK FALSE
