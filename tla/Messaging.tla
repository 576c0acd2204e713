------------------------------- MODULE Messaging -------------------------------
(***************************************************************************)
(* The connection and what runs over it: a service subscribes, and a       *)
(* request publishes, once EnsureConnectionAsync has returned.             *)
(***************************************************************************)
EXTENDS Integrations, QueueConnection

messagingVars == <<vars, connectionVars>>

MessagingInit == Init /\ ConnectionInit

\* A service that could not connect takes the API down.  What one caller does
\* on the queues disturbs no other's connecting, so TLC need only consider the
\* orders in which no call is under way.
MessagingNext ==
    \/ Connect /\ UNCHANGED vars
    \/ /\ \A c \in Services : pc[c] = "ready"
       /\ \A c \in Callers : pc[c] \in {"ready", "failed"}
       /\ Next
       /\ log' # log => \E c \in Callers \ Services : pc[c] = "ready"
       /\ UNCHANGED connectionVars

MessagingSpec ==
    /\ MessagingInit /\ [][MessagingNext]_messagingVars
    /\ Fairness /\ ConnectionFairness
===============================================================================
