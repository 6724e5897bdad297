\* Applications that overlap calls as they like.
SPECIFICATION Spec
CONSTANTS
  c1 = c1  c2 = c2  w1 = w1  w2 = w2
  hook = hook  ignore = ignore
  NoThread = NoThread  NoLib = NoLib
  Callers = {c1, c2}
  Workers = {w1, w2}
  Infos = {hook, ignore}
  HookInfos = {hook}
  Libs = {lib}
  KeepApart <- Overlapping
  OwnHandlers = {"app", "default"}
  AppFaults = TRUE
  StackGarbage = {TRUE, FALSE}
  MaxCalls = 4
SYMMETRY Sym
INVARIANTS OneRefresher EnvLive
PROPERTIES NoUseAfterFree SessionSpec
