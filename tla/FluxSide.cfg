SPECIFICATION SideSpec
CONSTANTS
  c1 = c1
  c2 = c2
  h1 = h1
  h2 = h2
  NoConn = NoConn
  Hosts = {h1}
  Conns = {c1, c2}
  HostOf <- Reconnects
  QueueCap = 1
  StatusPermits = 1
  Updates = 0
  RegistryOn = FALSE
  MaxFails = 0
  MayStall = FALSE
  j1 = j1  j2 = j2
  Callers = {p1}
  Sweepers = {sw}
  Jtis = {j1, j2}
  ExpiresAt <- Expiries
  Never <- NoExpiry
  MaxTime = 1
  MaxRestarts = 2
  Inodes = {i1, i2, i3, i4}
  NoInode = NoInode  NoJti = NoJti  Garbled = Garbled
SYMMETRY StreamSymmetry
VIEW SideView
INVARIANTS SideTypeOK NoSilentLoss DenylistAsConfirmed
