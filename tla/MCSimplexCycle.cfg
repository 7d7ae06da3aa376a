SPECIFICATION CycleSpec
CONSTANTS
  N = 4
  Constraint <- MCConstraint
  MaxAsserts = 8
  MaxPush = 0
INVARIANT Decides
