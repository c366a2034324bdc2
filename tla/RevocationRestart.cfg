SPECIFICATION StoreSpec
CONSTANTS
  j1 = j1  j2 = j2
  Callers = {p1, p2}
  Sweepers = {}
  Jtis = {j1, j2}
  ExpiresAt <- Expiries
  Never <- NoExpiry
  MaxTime = 1
  MaxRestarts = 1
  Inodes = {i1, i2, i3, i4}
  NoInode = NoInode  NoJti = NoJti  Garbled = Garbled
INVARIANTS Durable
