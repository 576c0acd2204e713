SPECIFICATION Spec
CONSTANTS
  r1 = r1  t1 = t1  t2 = t2  m1 = m1  m2 = m2
  Runs = {r1}  Tasks = {t1, t2}  RunOf <- OneRun  Manual = {}  Recurring = {}
  Requests = {q1, q2}  Deletable = {}  Cancellable = {}
  Runners = {h1}  Jobs = {j1, j2}  MaxFirings = 1
  Unrunnable = {}  BadCron = {}  Capture <- CaptureTwo  OutputFile <- FilesTwo
  FaultKinds = {}  MaxFaults = 0
INVARIANTS RunStatusIsDerived
