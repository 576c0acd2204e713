SPECIFICATION FairSpec
CONSTANTS
  r1 = r1  r2 = r2  m1 = m1
  Reports = {r1, r2}  BadTemplate = {r2}  Mails = {m1}  ReportOf <- OneMail
  Deletable = {r1}  Workers = {w1, w2}
  FaultKinds = {"create", "storage", "smtp", "publish", "crash", "lose"}  MaxFaults = 2
INVARIANTS TypeOK GeneratedIsSendable AttachmentsHaveFiles AnsweredTruly
PROPERTIES MailAnswered ReportGenerated
\* When every request is served, nothing is left to do.
CHECK_DEADLOCK FALSE
