------------------------------ MODULE Integrations ------------------------------
(***************************************************************************)
(* The services that push findings and events to other systems             *)
(* (WebhookPublisher, JiraPublisher, AzureDevopsPublisher): each handles a *)
(* message by one push per enabled integration of its kind, and swallows   *)
(* what goes wrong with one.                                               *)
(***************************************************************************)
EXTENDS MessageQueue

CONSTANTS
    Enabled,     \* the enabled integrations of each service
    Unwanted,    \* <<integration, message>>: events a webhook does not list
    Unreachable  \* the integrations that answer with an error or not at all

VARIABLES
    pushed       \* <<integration, message>> for each push that succeeded

vars == <<queueVars, pushed>>

Targets == UNION {Enabled[c] : c \in Consumers}

\* The integrations of a service that a message is pushed to.
Wanted(c, m) == {i \in Enabled[c] : <<i, m>> \notin Unwanted}

\* One try each, whose errors are logged and swallowed.
Reached(c, m) == Wanted(c, m) \ Unreachable

\* Pushes name known integrations.
TypeOK == QueueTypeOK /\ pushed \subseteq Targets \X Messages

\* Mutant of Push: the first integration that fails ends the loop.
PushUntilFailure(c, m) ==
    IF Wanted(c, m) \cap Unreachable = {}
    THEN pushed' = pushed \cup (Wanted(c, m) \X {m}) ELSE UNCHANGED pushed

(* ProcessWebhookJob, ProcessFinding: the whole loop.                      *)
Push(c, m) == pushed' = pushed \cup (Reached(c, m) \X {m})

\* The loops a restart cuts off have pushed to some.
PushSome ==
    LET loops == {<<s[1], s[2]>> : s \in strays \cup Abandoned} IN
    \E sent \in SUBSET UNION {Reached(l[1], l[2]) \X {l[2]} : l \in loops} :
        pushed' = pushed \cup sent

Next ==
    \/ Complete /\ Push(current.consumer, unacked[current.consumer])
    \/ \E s \in strays : StrayEnds(s) /\ Push(s[1], s[2])
    \/ Lose /\ PushSome
    \/ Transport /\ UNCHANGED pushed

Init == QueueInit /\ pushed = {}

Spec == Init /\ [][Next]_vars

FairSpec == Spec /\ Fairness

-------------------------------------------------------------------------------
\* The services a message concerns.
Listeners(m) == {c \in Consumers : Listens[c] = QueueOf[m]}

\* The broker and the services are done with the message.
Settled(m) ==
    /\ m \in Published \ (Undecodable \cup ready)
    /\ \A c \in Consumers : unacked[c] # m
    /\ \A s \in strays : s[2] # m

\* integrations.md: "every time a new finding is created in Reconmap, it will
\* be automatically sent" to Jira, and likewise to Azure DevOps; webhooks get
\* every event they list.  Once a message is settled, every enabled
\* integration that is up has got it, whatever happened to the others.
SentEverywhere ==
    \A m \in Messages : Settled(m) =>
        \A c \in Listeners(m) : \A i \in Enabled[c] \ Unreachable :
            <<i, m>> \in pushed \cup Unwanted
===============================================================================
