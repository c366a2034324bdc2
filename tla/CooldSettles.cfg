SPECIFICATION SettleSpec
CONSTANTS
  ContainerIds = {c1, c2}
  Name <- Redeployed
  Lower <- LowerCase
  Namespaces = {"prod"}
  Attachments <- OneNetwork
  Reconcilers = {"trigger", "loop"}
  QueueCap = 1
  MaxContainerChanges = 5
  MaxFails = 1
  Skips = TRUE
  MaxRequests = 4
  MAX_ATTEMPTS = 2
  Codes = {0, 9}
  Killed = 9
  MaxCallFaults = 1
  \* b3 has an id that is refused, b2 asks for a ref of its own.
  Builds = {"b1", "b2", "b3"}
  BadIds = {"b3"}
  OtherRef = {"b2"}
  Capacity = 1
  MaxBuildFaults = 1
  MaxStops = 1
  MaxCrashes = 0
CHECK_DEADLOCK FALSE
INVARIANTS EndpointTypeOK
PROPERTIES AnswersSettle DnsHeals ExecAnswered EveryBuildAnswered
