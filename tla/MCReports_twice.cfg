SPECIFICATION Spec
CONSTANTS
  r1 = r1  r2 = r2  m1 = m1
  Reports = {r1}  BadTemplate = {}  Mails = {m1}  ReportOf <- OneMail
  Deletable = {r1}  Workers = {w1}
  FaultKinds = {"crash"}  MaxFaults = 1
INVARIANTS AlwaysSendable
\* When every request is served, nothing is left to do.
CHECK_DEADLOCK FALSE
