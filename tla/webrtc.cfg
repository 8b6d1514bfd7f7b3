CONSTANTS
  Objs = {o1, o2}
  IDs = {i1}
  None = None
  MaxSessions = 1
  Offers = {f1, f2}
  Configs <- RelayAndAudio
SPECIFICATION FairSpec
INVARIANTS WebRTCInv LivePeerIsListed
PROPERTIES PeersEndWithSession
CHECK_DEADLOCK FALSE
