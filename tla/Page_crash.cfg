SPECIFICATION Spec
CONSTANTS
  Pages = {"availableCapacity"}
  Restarts = FALSE
INVARIANTS
  FailedRowDoesNotBreakThePage
