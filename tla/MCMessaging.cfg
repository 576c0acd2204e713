SPECIFICATION MessagingSpec
CONSTANTS
  tasks = tasks  webhooks = webhooks  jira = jira  azure = azure
  publisher = publisher
  w1 = w1  w2 = w2  w3 = w3  p1 = p1  j1 = j1  a1 = a1  m1 = m1  m2 = m2  m3 = m3
  Messages = {m1, m2, m3}  Consumers = {webhooks, tasks}
  Callers = {webhooks, tasks, publisher}  Services = {webhooks, tasks}  MaxFailures = 2
  QueueOf <- TwoQueues  Listens <- TwoListen
  Undecodable = {m3}  MaxRefusals = 2  MaxLosses = 2
  Enabled <- TwoEnabled  Unwanted <- OneEvent  Unreachable = {w2}
INVARIANTS TypeOK NothingLost RepeatsNeedLosses InOrder SentEverywhere
INVARIANTS OneConnection ChannelOnConnection
PROPERTIES Handled CallsEnd
\* When everything published is handled, nothing is left to do.
CHECK_DEADLOCK FALSE
