SPECIFICATION Spec
CONSTANTS
  Ident <- MCIdent
  BaseIdent <- MCBaseIdent
  DummyIdent = "x"
  MaxIndex = 0
  Index <- MCIndex
  MaxFrames = 4
  MaxDepth = 3
  MaxFresh = 3
  ShouldFail = TRUE
CONSTRAINT FewTerms
INVARIANTS NamesDistinct TermsAreLive StacksSuffice
PROPERTY RestoredOnReturn
CHECK_DEADLOCK FALSE
