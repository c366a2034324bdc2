SPECIFICATION FairSpec
CONSTANTS
  Containers = {k1}
  States = {"running"}
  Absent = "absent"
  Tasks = {loop}
  Conns = {c1, c2}
  InboxCap = 2
  OutCap = 1
  MaxChanges = 2
  MaxDrops = 1
PROPERTIES EveryContainerReported
