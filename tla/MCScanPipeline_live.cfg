SPECIFICATION FairSpec
CONSTANTS
  r1 = r1  t1 = t1  t2 = t2  m1 = m1  m2 = m2
  Runs = {r1}  Tasks = {t1}  RunOf <- SmallRun  Manual = {m1}  Recurring = {m1}
  Requests = {q1}  Deletable = {r1}  Cancellable = {t1}
  Runners = {h1}  Jobs = {j1, j2}  MaxFirings = 2
  Unrunnable = {}  BadCron = {}  Capture <- CaptureMix  OutputFile <- FilesMix
  FaultKinds = {"token"}  MaxFaults = 1
INVARIANTS ScheduleOutlivesTask OwnOutput
PROPERTIES TaskSettles
\* A runner whose first poll failed never polls again.
CHECK_DEADLOCK FALSE
