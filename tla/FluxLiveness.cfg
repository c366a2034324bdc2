SPECIFICATION FluxSpec
CONSTANTS
  a1 = a1  a2 = a2  a3 = a3  a4 = a4  c1 = c1  c2 = c2  h1 = h1  r1 = r1
  Attempts = {a1, a2, a3}
  Conns = {c1}
  Hosts = {h1}
  ReqIds = {r1}
  Caps = {"list", "exec"}
  Rid <- ReusedIds
  Target <- ToOneHost
  Need <- Wants
  HostOf <- OneHost
  Advertised <- Hellos
  JwtCaps <- Claims
  AllowWildcard = FALSE
  PendingMax = 1
  QueueCap = 1
  Workers = 1
  NoConn = NoConn  NoEntry = NoEntry  NoBody = NoBody  NoReq = NoReq
  d1 = d1  d2 = d2  k1 = k1  k2 = k2
PROPERTIES EveryDispatchEnds EntriesDrain SilenceNoticed ExistingReported
