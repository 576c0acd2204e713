SPECIFICATION FairSpec
CONSTANTS
  j1 = j1  j2 = j2  h1 = h1  h2 = h2  s1 = s1
  Jobs = {j1, j2}  Tree <- ScanTrees  Findings <- ScanFindings
  Unparsable = {}  Unknown = {}  Anonymous = {}
  Workers = {w1, w2}  Assets = {h1, h2}  Summaries = {s1}
  MaxEdits = 1  Deletes = TRUE  MaxFaults = 1
INVARIANTS TypeOK OutputStored NoDuplicates AnnouncedOnce
PROPERTIES JobProcessed
\* When every job is acknowledged, nothing is left to do.
CHECK_DEADLOCK FALSE
