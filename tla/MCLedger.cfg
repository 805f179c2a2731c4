CONSTANTS
  cUser = cUser
  cInbound = cInbound
  kUser = kUser
  kInbound = kInbound
  Chunk <- TwoChunks
  Key = {kUser, kInbound}
  KeyOf <- TwoKeyOf
  UserKey = {kUser}
  Flusher = {f1, f2}
  Cap = 1
  Fault = {"commit", "crash"}
  None = None
SPECIFICATION LiveSpec
INVARIANTS TypeOK Conservation ChargedIsCommitted StopLosesOnlyLate
PROPERTIES Delivered BillKept
