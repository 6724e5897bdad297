\* The same phones, none of which lacks anything, as 64-bit processes, one thread.
SPECIFICATION Spec
CONSTANTS
  t1 = t1  t2 = t2
  WordBits = 4
  Threads = {t1}
  Phones <- Phones64
  FdLimit = 4
  MaxCalls = 2
INVARIANTS FoundIfThere
