\* Zygote and two applications; start-up ends, so the system may stop.
SPECIFICATION Spec
CONSTANTS
  Zygote = Zygote
  Apps = {a1, a2}
  MaxCreates = 2
INVARIANTS TypeOK HookedWithOffsets GlobalInjection
CHECK_DEADLOCK FALSE
