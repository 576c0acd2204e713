---------------------------- MODULE QueueConnection ----------------------------
(***************************************************************************)
(* RabbitMQMessageQueue.EnsureConnectionAsync: the background services and *)
(* the requests that publish race to open the one connection and channel   *)
(* they share, checking before and after they take the lock.  A service    *)
(* calls once, when the API starts; a publisher calls for every message.   *)
(***************************************************************************)
EXTENDS Naturals, FiniteSets

CONSTANTS
    Callers,     \* the tasks that call EnsureConnectionAsync
    Services,    \* the hosted services among them; the others publish
    MaxFailures  \* bound: attempts the broker refuses

ASSUME ConnectionAssumption == Services \subseteq Callers /\ MaxFailures \in Nat

VARIABLES
    pc,          \* where each caller is
    connection,  \* _connection: 0 for null, else the how-manieth opened
    channel,     \* _channel: 0 for null, else the connection it is on
    opened,      \* connections this process opened
    refused,     \* CreateConnection calls that failed, and all of earlier processes
    broken       \* CreateChannel calls of this process that failed

connectionVars == <<pc, connection, channel, opened, refused, broken>>

\* Waiting for the lock, and holding it: the second check, the connection and
\* the channel.
Stages == {"check", "wait", "recheck", "connect", "channel", "ready", "failed"}
Holding == {"recheck", "connect", "channel"}

\* The semaphore admits one caller.
ConnectionTypeOK ==
    /\ \A c, d \in Callers : pc[c] \in Holding /\ pc[d] \in Holding => c = d
    /\ pc \in [Callers -> Stages]
    /\ connection \in 0..opened
    /\ channel \in 0..opened
    /\ opened \in Nat
    /\ refused + broken \in 0..MaxFailures

ConnectionInit ==
    /\ pc = [c \in Callers |-> "check"]
    /\ connection = 0 /\ channel = 0
    /\ opened = 0 /\ refused = 0 /\ broken = 0

Open == connection # 0 /\ channel # 0
Become(c, stage) == pc' = [pc EXCEPT ![c] = stage]

\* Mutant of Check: a connection without a channel counts as ready.
CheckConnection(c) ==
    /\ pc[c] = "check"
    /\ Become(c, IF connection # 0 THEN "ready" ELSE "wait")
    /\ UNCHANGED <<connection, channel, opened, refused, broken>>

Check(c) ==
    /\ pc[c] = "check"
    /\ Become(c, IF Open THEN "ready" ELSE "wait")
    /\ UNCHANGED <<connection, channel, opened, refused, broken>>

Lock(c) ==
    /\ pc[c] = "wait"
    /\ \A d \in Callers : pc[d] \notin Holding
    /\ Become(c, "recheck")
    /\ UNCHANGED <<connection, channel, opened, refused, broken>>

\* Mutant of Recheck: the second check is missing.
RecheckNothing(c) ==
    /\ pc[c] = "recheck"
    /\ Become(c, "connect")
    /\ UNCHANGED <<connection, channel, opened, refused, broken>>

\* Mutant of Recheck: returning early leaves the lock held.
RecheckKeepingLock(c) ==
    /\ pc[c] = "recheck"
    /\ ~Open
    /\ Become(c, "connect")
    /\ UNCHANGED <<connection, channel, opened, refused, broken>>

Recheck(c) ==
    /\ pc[c] = "recheck"
    /\ Become(c, IF Open THEN "ready" ELSE "connect")
    /\ UNCHANGED <<connection, channel, opened, refused, broken>>

CreateConnection(c) ==
    /\ pc[c] = "connect"
    /\ \/ /\ opened' = opened + 1
          /\ connection' = opened + 1
          /\ Become(c, "channel")
          /\ UNCHANGED refused
       \/ /\ refused + broken < MaxFailures
          /\ refused' = refused + 1
          /\ Become(c, "failed")
          /\ UNCHANGED <<opened, connection>>
    /\ UNCHANGED <<channel, broken>>

CreateChannel(c) ==
    /\ pc[c] = "channel"
    /\ \/ /\ channel' = connection
          /\ Become(c, "ready")
          /\ UNCHANGED broken
       \/ /\ refused + broken < MaxFailures
          /\ broken' = broken + 1
          /\ Become(c, "failed")
          /\ UNCHANGED channel
    /\ UNCHANGED <<connection, opened, refused>>

(* A request could not publish; a later one may try again.                 *)
Return(c) ==
    /\ c \notin Services
    /\ pc[c] = "failed"
    /\ Become(c, "check")
    /\ UNCHANGED <<connection, channel, opened, refused, broken>>

(* The exception of a service's call ends its ExecuteAsync, and with it the *)
(* host.  Nothing starts the API again by itself; an operator may.         *)
Restart ==
    /\ \E c \in Services : pc[c] = "failed"
    /\ pc' = [c \in Callers |-> "check"]
    /\ connection' = 0 /\ channel' = 0 /\ opened' = 0
    /\ refused' = refused + broken /\ broken' = 0

CallStep(c) == Check(c) \/ Recheck(c) \/ CreateConnection(c) \/ CreateChannel(c)

Connect ==
    \/ \E c \in Callers : CallStep(c) \/ Lock(c) \/ Return(c)
    \/ Restart

\* A call goes on, and SemaphoreSlim hands the lock to a waiter sooner or
\* later.  Nobody need call again or restart.
ConnectionFairness ==
    \A c \in Callers :
        WF_connectionVars(CallStep(c)) /\ SF_connectionVars(Lock(c))

ConnectionSpec ==
    ConnectionInit /\ [][Connect]_connectionVars /\ ConnectionFairness

-------------------------------------------------------------------------------
\* However the callers race, one connection is opened, and one more only for
\* each channel that could not be created on the one before.
OneConnection == opened =< 1 + broken

\* Whoever may publish uses a channel on the connection that is kept, so that
\* DisposeAsync closes what is in use.
ChannelOnConnection ==
    (\E c \in Callers : pc[c] = "ready") => channel = connection /\ channel # 0

\* Every call of EnsureConnectionAsync ends, with the connection or with the
\* broker's refusal: nobody waits for ever for a lock that is not released.
CallsEnd == \A c \in Callers : []<>(pc[c] \in {"ready", "failed"})
===============================================================================
