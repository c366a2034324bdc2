SPECIFICATION LinkSpec
CONSTANTS
  Me = Me  Other = Other  NoSub = NoSub
  Initial = 1  MaxBackoff = 3  Stable = 2  Permanent = 5  RestartSec = 1
  Leeway = 1  DispatchTimeout = 2  MaxLife = 4  Lives = {3, 5}
  Networks <- OnlyPlain
  MaxTime = 8  MaxMints = 2  MaxFaults = 1  MaxSilent = 0
  t0 = t0  t1 = t1  t2 = t2  t3 = t3  t4 = t4
  Tokens = {t0, t1, t2, t3, t4}  First = t0  Subject <- SubjectOf  Size <- SizeOf
  Requests = {r1, r2, r3}  Inodes = {i1, i2, i3, i4, i5}
  NoSubject = NoSub  NoInode = NoInode  NoContent = NoContent  AtOnce = 1  MaxFileFaults = 2
INVARIANTS TypeOK OutageBounded SeamlessRotation RevokedNeverLasts TokenFileSound
CHECK_DEADLOCK FALSE
