SPECIFICATION MCSpec
CONSTANTS
  N = 2
  Constraint <- MCConstraint
  MaxAsserts = 4
  MaxPush = 1
INVARIANTS TableauFeasible UnsatIsRight SatIsRight ReportedEqualitiesHold
INVARIANTS AllRemaximized AssertionsHold RowsAreEquations
PROPERTIES PopRestores
\* The caller may stop after Unsat.
CHECK_DEADLOCK FALSE
