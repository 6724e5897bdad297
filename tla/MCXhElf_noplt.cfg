\* A library without a PLT, whose relocations carry addends.
SPECIFICATION Spec
CONSTANTS
  defined = defined  other = other  undefined = undefined  absent = absent
  f = f  g = g  h = h  NoFunc = NoFunc
  GroupBits = 3
  WordBits = 8
  ElfClassBits = 2
  Images <- MCNoPltImages
  Hooks <- MCHooks
  Original <- MCOriginal
  MaxCalls = 2
INVARIANTS HookedExactly
