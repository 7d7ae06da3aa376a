CONSTANTS
  Programs <- MCPrograms
  Ctors <- MCCtors
  Fixpoints <- MCFixpoints
  MaxAssumes = 4
  MaxPush = 1
SPECIFICATION ReduxSpec
INVARIANTS MergesSound UnsatSound NoDanglingValue ClosureComplete ValidWasImplied
INVARIANTS RefutationsSound RefutationsComplete
PROPERTIES PopsRestore
\* The caller may stop after Unsat.
CHECK_DEADLOCK FALSE
