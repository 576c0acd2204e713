SPECIFICATION Spec
CONSTANTS
  r1 = r1  t1 = t1  t2 = t2  m1 = m1  m2 = m2
  Runs = {r1}  Tasks = {t1, t2}  RunOf <- OneRun  Manual = {}  Recurring = {}
  Requests = {q1, q2}  Deletable = {r1}  Cancellable = {t2}
  Runners = {h1}  Jobs = {j1, j2}  MaxFirings = 1
  Unrunnable = {t2}  BadCron = {}  Capture <- CaptureTwo  OutputFile <- FilesTwo
  FaultKinds = {"call", "api", "token"}  MaxFaults = 2
INVARIANTS TypeOK TerminalRunIsDerived
PROPERTIES ImplementsLifecycle
\* A runner whose first poll failed never polls again.
CHECK_DEADLOCK FALSE
