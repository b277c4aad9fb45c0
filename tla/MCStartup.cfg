\* The same instance; what startup finds while no process holds the lock.
CONSTANTS
  p1 = p1
  p2 = p2
  t1 = t1
  t2 = t2
  Processes = {p1, p2}
  Threads = {t1, t2}
  ProcessOf <- OneEach
  NoThread = NoThread
  NoProcess = NoProcess
  Runs = {r1}
  Versions = {v1, v2}
  Absent = Absent
  Operations <- Split
  MaxPartial = 2
  MaxFaults = 1
SPECIFICATION Spec
CHECK_DEADLOCK FALSE
INVARIANT InterruptedStateIsAccepted
