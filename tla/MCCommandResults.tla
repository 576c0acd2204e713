---------------------------- MODULE MCCommandResults ----------------------------
(* Values of CommandResults' constants for TLC.                            *)
EXTENDS CommandResults, TLC

CONSTANTS j1, j2, h1, h2, s1

F(a, s) == [asset |-> a, summary |-> s]

\* A scan of two hosts, and a later one that finds some of it again, twice: a
\* SARIF report has a result for each place a rule matches.
ScanTrees    == (j1 :> <<h1, h2>>) @@ (j2 :> <<>>)
ScanFindings ==
    (j1 :> <<F(None, s1)>>) @@ (j2 :> <<F(h1, s1), F(None, s1), F(None, s1)>>)

\* A scan that finds one of two findings again, before the other.
TwoTrees    == (j1 :> <<h1, h2>>) @@ (j2 :> <<h1>>)
TwoFindings ==
    (j1 :> <<F(h1, s1)>>) @@ (j2 :> <<F(h1, s1), F(h2, s1)>>)
===============================================================================
