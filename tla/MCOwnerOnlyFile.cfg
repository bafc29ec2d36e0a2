SPECIFICATION Spec
CONSTANTS
  Writers = {"one", "two", "other"}
  Paths = {"p", "q"}
  PathOf <- MCPathOf
  ContentOf <- MCContentOf
INVARIANTS
  WholeFiles
  NothingLeftBehind
PROPERTIES
  ImplementsDurableFiles
CHECK_DEADLOCK FALSE
