\* Two calls of hook_impl on one file.
SPECIFICATION Spec
CONSTANTS
  defined = defined  other = other  undefined = undefined  absent = absent
  f = f  g = g  h = h  NoFunc = NoFunc
  GroupBits = 3
  WordBits = 8
  ElfClassBits = 2
  Images <- MCImages
  Hooks <- MCHooks
  Original <- MCOriginal
  MaxCalls = 2
INVARIANTS TypeOK OldIsOriginal HookedExactly PagesRestored FaultsOnlyWhenUnmapped
           ReadsAsLinked
