CONSTANTS
  Peers = {p1}
  Handlers = {h1, h2}
  Self = self
  Capacity = 20
  Loads = {17, 18}
  TTL = 1
  Flight = 1
  MaxTime = 3
  Configs <- MCConfigs
  Calls = {c1, c2}
  Workers <- MCWorkers
  Static <- MCStatic
  Requests <- MCRequests
  MaxDrops = 3
SPECIFICATION Spec
INVARIANTS AdmissionInv ChosenHadRoom AdmittedFindsRoom OneClientPerHost
PROPERTIES ConnectionSettles
CHECK_DEADLOCK FALSE
