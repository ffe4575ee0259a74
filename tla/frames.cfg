SPECIFICATION Spec
CONSTANTS
  c1 = c1  c2 = c2
  m1 = m1  m2 = m2  m3 = m3
  e1 = e1  e2 = e2  e3 = e3
  ConnSeq <- TwoConns
  Exps = {e1}
  Mods = {m1, m2}
  ModulesOf <- BothModules
  ConnOf <- TwoConnOf
  DataMods = {m1, m2}
  Heartbeat = FALSE
  Faults = {}
  MaxInbox = 1
  MaxOut = 1
  Unbound = Unbound
INVARIANTS FramesKeepConnection
CHECK_DEADLOCK FALSE
