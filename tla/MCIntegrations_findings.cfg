SPECIFICATION Spec
CONSTANTS
  tasks = tasks  webhooks = webhooks  jira = jira  azure = azure
  w1 = w1  w2 = w2  w3 = w3  p1 = p1  j1 = j1  a1 = a1  m1 = m1  m2 = m2  m3 = m3
  Messages = {m1, m2}  Consumers = {jira, azure}  QueueOf <- FindingQueue  Listens <- FindingListen
  Undecodable = {}  MaxRefusals = 0  MaxLosses = 0
  Enabled <- FindingEnabled  Unwanted = {}  Unreachable = {}
INVARIANTS SentEverywhere
\* When everything published is handled, nothing is left to do.
CHECK_DEADLOCK FALSE
