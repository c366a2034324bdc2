SPECIFICATION StateSpec
CONSTANTS
  Containers = {k1}
  States = {"running", "exited"}
  Absent = "absent"
  Tasks = {trigger, loop}
  Conns = {c1, c2}
  InboxCap = 1
  OutCap = 1
  MaxChanges = 2
  MaxDrops = 1
  FwRequests = {r1, r2, r3}
  Ids = {"a", "b"}
  Names = {"web", "gone"}
  Rows <- MCRows
  Inspected <- MCInspected
  NoAddress = 0
  Caddys = {3}
  Serial = TRUE
  MaxFwFaults = 0
  MaxBoots = 1
  Mains = {m1, m2, bad}
  Apps = {shop, blog}
  Versions = {v1, v2, bad}
  Broken = {bad}
  NoFile = NoFile
  Empty = Empty
  MaxApplies = 2
  MaxIngressFaults = 1
  MaxRequests = 4
  MAX_ATTEMPTS = 2
  Codes = {0, 1, 9}
  Killed = 9
  MaxCallFaults = 1
  \* An old and a new container of one service, on the managed network or not.
  ContainerIds = {e1, e2}
  Name <- Redeployed
  Lower <- LowerCase
  Namespaces = {"prod"}
  Attachments = {{"prod"}, {"podman"}}
  Reconcilers = {"trigger", "loop"}
  QueueCap = 1
  MaxContainerChanges = 4
  MaxFails = 1
  Skips = TRUE
  Builds = {"b1", "b2"}
  BadIds = {}
  OtherRef = {"b2"}
  Capacity = 1
  MaxBuildFaults = 1
  MaxStops = 1
  MaxCrashes = 2
SYMMETRY TaskSymmetry
INVARIANTS TypeOK SnapshotIsSent RulesAsAnswered ReconcileHeals
  IngressAsAnswered CommandsAsAnswered BuildsAsAnswered
PROPERTIES KeptUnlessOverlooked
