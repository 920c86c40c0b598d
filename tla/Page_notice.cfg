SPECIFICATION Spec
CONSTANTS
  Pages = {"clusters"}
  Restarts = FALSE
INVARIANTS
  NoticeMeansUnwired
