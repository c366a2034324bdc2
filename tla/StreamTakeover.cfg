SPECIFICATION MCSpec
CONSTANTS
  a1 = a1  a2 = a2  a3 = a3  a4 = a4  c1 = c1  c2 = c2  h1 = h1  r1 = r1
  Attempts = {a1}
  Conns = {c1, c2}
  Hosts = {h1}
  ReqIds = {a1}
  Caps = {"list", "exec"}
  Rid <- FreshIds
  Target <- ToOneHost
  Need <- WantList
  HostOf <- OneHost
  Advertised <- Hellos
  JwtCaps <- Claims
  AllowWildcard = FALSE
  PendingMax = 2
  QueueCap = 1
  Workers = 1
  NoConn = NoConn  NoEntry = NoEntry  NoBody = NoBody  NoReq = NoReq
INVARIANTS EntryPerOpenStream
