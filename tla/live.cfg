SPECIFICATION FairSpec
CONSTANTS
  c1 = c1  c2 = c2
  m1 = m1  m2 = m2  m3 = m3
  e1 = e1  e2 = e2  e3 = e3
  ConnSeq <- OneConn
  Exps = {e1}
  Mods = {m1}
  ModulesOf <- SameModules
  ConnOf <- OneConnOf
  DataMods = {m1}
  Heartbeat = TRUE
  Faults = {"reset", "eof", "timeout"}
  MaxInbox = 1
  MaxOut = 1
  Unbound = Unbound
PROPERTIES Responds DropEndsSession HeartbeatFindsEnd ReadersEnd
CHECK_DEADLOCK FALSE
