------------------------------ MODULE MessageQueue ------------------------------
(***************************************************************************)
(* The queues between the API's controllers and its background services    *)
(* (Infrastructure/Messaging/RabbitMQMessageQueue.cs).  Every service of a *)
(* process shares one connection and one channel: a prefetch of one per    *)
(* consumer, and one dispatcher that runs their callbacks one at a time,   *)
(* in the order of the deliveries.  The broker is external; it keeps a     *)
(* message until it is acknowledged and puts a refused one back where it   *)
(* was.                                                                    *)
(***************************************************************************)
EXTENDS Naturals, Sequences, FiniteSets

CONSTANTS
    Messages,     \* what is published, each message once
    Consumers,    \* the background services
    QueueOf,      \* the queue each message is published to
    Listens,      \* the queue each service subscribes to
    Undecodable,  \* bodies that do not deserialize, or to null
    MaxRefusals,  \* bound: handlers that throw
    MaxLosses     \* bound: lost connections and restarts

None == "none"

ASSUME QueueAssumption ==
    /\ None \notin Messages \cup Consumers
    /\ IsFiniteSet(Consumers)
    /\ Undecodable \subseteq Messages
    /\ MaxRefusals \in Nat /\ MaxLosses \in Nat

VARIABLES
    log,       \* the messages published, in that order
    ready,     \* those the broker holds for delivery
    unacked,   \* the message each service holds
    work,      \* the deliveries the dispatcher has yet to run
    current,   \* the service whose callback runs, and how far it is
    strays,    \* <<service, message, loss>>: callbacks whose channel was lost
    times,     \* how often a handler ran to the end for each message
    refusals,
    losses

queueVars == <<log, ready, unacked, work, current, strays, times, refusals, losses>>

Idle == [consumer |-> None, stage |-> "idle"]

IsBefore(m, n) ==
    \E i, j \in DOMAIN log : i < j /\ log[i] = m /\ log[j] = n

Published == {log[i] : i \in DOMAIN log}

\* A message published again would queue up behind what came in between.
Ahead(m, n) ==
    \E j \in DOMAIN log : log[j] = n /\ \A i \in DOMAIN log : log[i] = m => i < j

\* The broker keeps queues in order of publication.
First(q) ==
    {m \in ready : /\ QueueOf[m] = q
                   /\ \A n \in ready : QueueOf[n] = q => ~Ahead(n, m)}

\* A queue only holds published messages, and a callback only runs for a
\* message its service holds.
QueueTypeOK ==
    /\ log \in Seq(Messages)
    /\ ready \subseteq Published
    /\ unacked \in [Consumers -> Published \cup {None}]
    /\ work \in Seq(Consumers)
    /\ current \in [consumer : Consumers, stage : {"running", "done"}] \cup {Idle}
    /\ current # Idle => unacked[current.consumer] # None
    /\ strays \subseteq Consumers \X Published \X (1..losses)
    /\ times \in [Messages -> Nat]
    /\ refusals \in 0..MaxRefusals /\ losses \in 0..MaxLosses

QueueInit ==
    /\ log = <<>>
    /\ ready = {}
    /\ unacked = [c \in Consumers |-> None]
    /\ work = <<>>
    /\ current = Idle
    /\ strays = {}
    /\ times = [m \in Messages |-> 0]
    /\ refusals = 0 /\ losses = 0

-------------------------------------------------------------------------------
(* PublishAsync, to a durable queue.                                       *)
Publish(m) ==
    /\ m \notin Published
    /\ log' = Append(log, m)
    /\ ready' = ready \cup {m}
    /\ UNCHANGED <<unacked, work, current, strays, times, refusals, losses>>

(* BasicConsume with a prefetch of one: the broker delivers the head of    *)
(* the queue to a service that holds nothing.                              *)
Deliver(c) ==
    /\ unacked[c] = None
    /\ \E m \in First(Listens[c]) :
          /\ ready' = ready \ {m}
          /\ unacked' = [unacked EXCEPT ![c] = m]
          /\ work' = Append(work, c)
    /\ UNCHANGED <<log, current, strays, times, refusals, losses>>

\* Mutant of Dispatch: the delivery is acknowledged before its handler runs.
DispatchAckingFirst ==
    /\ work # <<>>
    /\ current = Idle
    /\ current' = [consumer |-> Head(work), stage |-> "running"]
    /\ unacked' = [unacked EXCEPT ![Head(work)] = None]
    /\ work' = Tail(work)
    /\ UNCHANGED <<log, ready, strays, times, refusals, losses>>

(* The dispatcher runs the next callback.  One whose body does not decode  *)
(* ends without an acknowledgement, and its service holds on to it.        *)
Dispatch ==
    /\ work # <<>>
    /\ current = Idle
    /\ current' = IF unacked[Head(work)] \in Undecodable THEN Idle
                  ELSE [consumer |-> Head(work), stage |-> "running"]
    /\ work' = Tail(work)
    /\ UNCHANGED <<log, ready, unacked, strays, times, refusals, losses>>

(* The handler returns.                                                    *)
Complete ==
    LET m == unacked[current.consumer] IN
    /\ current.stage = "running"
    /\ current' = [current EXCEPT !.stage = "done"]
    /\ times' = [times EXCEPT ![m] = @ + 1]
    /\ UNCHANGED <<log, ready, unacked, work, strays, refusals, losses>>

\* Mutant of Ack: the message is given back instead of acknowledged.
AckRequeueing ==
    /\ current.stage = "done"
    /\ unacked' = [unacked EXCEPT ![current.consumer] = None]
    /\ ready' = ready \cup {unacked[current.consumer]}
    /\ current' = Idle
    /\ UNCHANGED <<log, work, strays, times, refusals, losses>>

\* Mutant of Ack: the acknowledgement never reaches the broker.
AckForgotten ==
    /\ current.stage = "done"
    /\ current' = Idle
    /\ UNCHANGED <<log, ready, unacked, work, strays, times, refusals, losses>>

(* BasicAck.                                                               *)
Ack ==
    /\ current.stage = "done"
    /\ unacked' = [unacked EXCEPT ![current.consumer] = None]
    /\ current' = Idle
    /\ UNCHANGED <<log, ready, work, strays, times, refusals, losses>>

\* Mutant of Refuse: BasicNack without requeue.
RefuseDropping ==
    /\ current.stage = "running"
    /\ refusals < MaxRefusals
    /\ refusals' = refusals + 1
    /\ unacked' = [unacked EXCEPT ![current.consumer] = None]
    /\ current' = Idle
    /\ UNCHANGED <<log, ready, work, strays, times, losses>>

\* Mutant of Refuse: the message is acknowledged and published again, for a
\* later try.
RefuseRepublishing ==
    LET m == unacked[current.consumer] IN
    /\ current.stage = "running"
    /\ refusals < MaxRefusals
    /\ refusals' = refusals + 1
    /\ unacked' = [unacked EXCEPT ![current.consumer] = None]
    /\ log' = Append(log, m)
    /\ ready' = ready \cup {m}
    /\ current' = Idle
    /\ UNCHANGED <<work, strays, times, losses>>

(* The handler throws: BasicNack with requeue.                             *)
Refuse ==
    /\ current.stage = "running"
    /\ refusals < MaxRefusals
    /\ refusals' = refusals + 1
    /\ unacked' = [unacked EXCEPT ![current.consumer] = None]
    /\ ready' = ready \cup {unacked[current.consumer]}
    /\ current' = Idle
    /\ UNCHANGED <<log, work, strays, times, losses>>

\* The callback whose channel goes away under it.
Abandoned ==
    IF current.stage # "running" THEN {}
    ELSE {<<current.consumer, unacked[current.consumer], losses + 1>>}

(* The connection is lost and recovered, or the process restarts: what was *)
(* not acknowledged is delivered again.  A callback that was running goes  *)
(* on beside the new channel unless the process died with it.              *)
Lose ==
    /\ losses < MaxLosses
    /\ losses' = losses + 1
    /\ ready' = ready \cup ({unacked[c] : c \in Consumers} \ {None})
    /\ unacked' = [c \in Consumers |-> None]
    /\ work' = <<>>
    /\ current' = Idle
    /\ \/ strays' = strays \cup Abandoned
       \/ strays' = {}
    /\ UNCHANGED <<log, times, refusals>>

(* Such a callback returns or throws; its delivery tag means nothing any   *)
(* more.                                                                   *)
StrayEnds(s) ==
    /\ s \in strays
    /\ strays' = strays \ {s}
    /\ times' = [times EXCEPT ![s[2]] = @ + 1]
    /\ UNCHANGED <<log, ready, unacked, work, current, refusals, losses>>

StrayThrows(s) ==
    /\ s \in strays
    /\ refusals < MaxRefusals
    /\ refusals' = refusals + 1
    /\ strays' = strays \ {s}
    /\ UNCHANGED <<log, ready, unacked, work, current, times, losses>>

-------------------------------------------------------------------------------
\* The steps in which no handler gets on with its work.
Transport ==
    \/ \E m \in Messages : Publish(m)
    \/ \E c \in Consumers : Deliver(c)
    \/ Dispatch \/ Ack \/ Refuse
    \/ \E s \in strays : StrayThrows(s)

\* The broker delivers, the dispatcher runs and handlers return.
Fairness ==
    /\ \A c \in Consumers : WF_queueVars(Deliver(c))
    /\ WF_queueVars(Dispatch) /\ WF_queueVars(Complete \/ Refuse) /\ WF_queueVars(Ack)

-------------------------------------------------------------------------------
\* At least once: what was published waits at the broker, is held by a
\* service, or was handled to the end, however handlers throw and connections
\* break (SubscribeAsync acknowledges after the handler, never before).
NothingLost ==
    \A m \in Published :
        \/ m \in ready
        \/ \E c \in Consumers : unacked[c] = m
        \/ times[m] > 0

\* A message is handled to the end once, and once more at most for each
\* connection lost: a handler that throws and is retried is no repetition.
RepeatsNeedLosses == \A m \in Messages : times[m] =< 1 + losses

\* A queue with one listener is handled in the order of publication, also
\* across requeues and lost connections.
InOrder ==
    \A m, n \in Published :
        /\ IsBefore(m, n)
        /\ QueueOf[m] = QueueOf[n]
        /\ Cardinality({c \in Consumers : Listens[c] = QueueOf[m]}) = 1
        /\ times[n] > 0
        => times[m] > 0

\* What is published is handled, as long as every body of its queue decodes.
Handled ==
    \A m \in Messages :
        (/\ m \in Published
         /\ \A n \in Undecodable : QueueOf[n] # QueueOf[m])
        ~> times[m] > 0

===============================================================================
