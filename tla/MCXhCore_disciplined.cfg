\* Applications that register before they refresh and clear on its own, every
\* runnable thread scheduled.
SPECIFICATION FairSpec
CONSTANTS
  c1 = c1  c2 = c2  w1 = w1  w2 = w2
  hook = hook  ignore = ignore
  NoThread = NoThread  NoLib = NoLib
  Callers = {c1, c2}
  Workers = {w1, w2}
  Infos = {hook, ignore}
  HookInfos = {hook}
  Libs = {lib}
  KeepApart <- Disciplined
  OwnHandlers = {"app"}
  AppFaults = TRUE
  StackGarbage = {TRUE, FALSE}
  MaxCalls = 4
INVARIANTS TypeOK OneWorker NoLostWakeup NoLateHook FaultsContained HandlerRestorable GuardArmed
PROPERTIES ClearEndsSession EveryCallReturns AsyncRequestServed
