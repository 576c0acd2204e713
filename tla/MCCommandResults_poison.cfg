SPECIFICATION FairSpec
CONSTANTS
  j1 = j1  j2 = j2  h1 = h1  h2 = h2  s1 = s1
  Jobs = {j1, j2}  Tree <- TwoTrees  Findings <- TwoFindings
  Unparsable = {}  Unknown = {}  Anonymous = {j1}
  Workers = {w1}  Assets = {h1, h2}  Summaries = {s1}
  MaxEdits = 1  Deletes = FALSE  MaxFaults = 0
PROPERTIES OutputProcessed
\* When every job is acknowledged, nothing is left to do.
CHECK_DEADLOCK FALSE
