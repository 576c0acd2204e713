---------------------------- MODULE MCIntegrations ----------------------------
(* Values of Integrations' constants for TLC.                              *)
EXTENDS Integrations, TLC

CONSTANTS tasks, webhooks, jira, azure, w1, w2, w3, p1, j1, a1, m1, m2, m3

\* Two events for three webhooks, of which one lists the second
\* event only, and one message of another queue.
TwoQueues  == (m1 :> "webhooks") @@ (m2 :> "webhooks") @@ (m3 :> "tasks")
TwoListen  == (webhooks :> "webhooks") @@ (tasks :> "tasks")
TwoEnabled == (webhooks :> {w1, w2, w3}) @@ (tasks :> {p1})
OneEvent   == {<<w3, m1>>}

\* Jira and Azure DevOps both listen on "findings".
FindingQueue   == (m1 :> "findings") @@ (m2 :> "findings")
FindingListen  == (jira :> "findings") @@ (azure :> "findings")
FindingEnabled == (jira :> {j1}) @@ (azure :> {a1})
===============================================================================
