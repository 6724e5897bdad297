\* The native flag of a clone that was made again.
SPECIFICATION Spec
CONSTANTS
  c1 = c1  c2 = c2
  Callers = {c1, c2}
  Kinds <- AllKinds
  Versions <- AllVersions
  Suspends <- CanSuspend
  QuickToInterpreter = TRUE
  InterpreterToCompiled = TRUE
  MaxEvents = 5
INVARIANTS ReclonedIsOriginal
