SPECIFICATION Spec
CONSTANTS
  r1 = r1  t1 = t1  t2 = t2  m1 = m1  m2 = m2
  Runs = {r1}  Tasks = {t1}  RunOf <- SmallRun  Manual = {m2}  Recurring = {m2}
  Requests = {q1}  Deletable = {}  Cancellable = {}
  Runners = {h1, h2}  Jobs = {j1, j2}  MaxFirings = 1
  Unrunnable = {}  BadCron = {m2}  Capture <- CaptureBad  OutputFile <- FilesBad
  FaultKinds = {"call", "abandon", "api", "crash", "token"}  MaxFaults = 2
INVARIANTS OncePerBoot SucceededHasOutput
CHECK_DEADLOCK FALSE
