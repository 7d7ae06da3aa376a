SPECIFICATION Spec
CONSTANTS
  Ident <- MCOneIdent
  BaseIdent <- MCOneBase
  DummyIdent = "x"
  MaxIndex = 0
  Index <- MCOneIndex
  MaxFrames = 3
  MaxDepth = 4
  MaxFresh = 1
  ShouldFail = TRUE
PROPERTY FuncRestores
CHECK_DEADLOCK FALSE
