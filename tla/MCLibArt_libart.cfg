\* 32-bit phones of every version the code tells apart, two threads.
SPECIFICATION Spec
CONSTANTS
  t1 = t1  t2 = t2
  WordBits = 4
  Threads = {t1, t2}
  Phones <- Phones32
  FdLimit = 7
  MaxCalls = 3
INVARIANTS TypeOK PointersTrue FoundIfThere CrashesOnlyIfLost ProtectExact
PROPERTIES PointersStay
