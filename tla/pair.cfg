SPECIFICATION Spec
CONSTANTS
  c1 = c1  c2 = c2
  m1 = m1  m2 = m2  m3 = m3
  e1 = e1  e2 = e2  e3 = e3
  ConnSeq <- TwoConns
  Exps = {e1, e3}
  Mods = {m1, m2}
  ModulesOf <- BothOrLast
  ConnOf <- TwoConnOf
  DataMods = {m1}
  Heartbeat = TRUE
  Faults = {"refuse", "reset", "timeout", "badparam"}
  MaxInbox = 1
  MaxOut = 0
  Unbound = Unbound
INVARIANTS RecordedOnce ButtonsMatch ConnectedMeansAll TimerInv
PROPERTIES ImplementsLog
CHECK_DEADLOCK FALSE
