SPECIFICATION CliSpec
CONSTANTS
  Width = 5
  MgmtPool <- MgmtNet
  ContainerPool <- ContainerNet
  ContainerPrefix = 4
  Hosts = {1, 2, 3}
  Stories <- AllStories
  RoundPool <- Low
INVARIANTS TypeOK  OneRunConverges FaultlessIsLive Disjoint ExhaustedMeansFull
PROPERTIES  StableAllocation
