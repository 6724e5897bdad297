\* Two calling threads; five Hooks, moves of the class and calls in any proportion.
SPECIFICATION FairSpec
CONSTANTS
  c1 = c1  c2 = c2
  Callers = {c1, c2}
  Kinds <- AllKinds
  Versions <- AllVersions
  Suspends <- MaySuspend
  QuickToInterpreter = TRUE
  InterpreterToCompiled = TRUE
  MaxEvents = 5
INVARIANTS TypeOK NoHalfHookedCall ReplacementRunsOnce
PROPERTIES InvokesFreshClass CallsReachOriginal
