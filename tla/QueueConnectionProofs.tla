------------------------- MODULE QueueConnectionProofs -------------------------
(***************************************************************************)
(* One connection is opened, however many callers race and however many    *)
(* attempts the broker refuses.                                            *)
(***************************************************************************)
EXTENDS QueueConnection, TLAPS

-------------------------------------------------------------------------------
(* The inductive invariant: every connection opened is accounted for, by a *)
(* channel that failed on it, by the channel in use or by the caller that  *)
(* is about to open a channel on it.                                       *)

Ready   == \E c \in Callers : pc[c] = "ready"
Opening == \E c \in Callers : pc[c] = "channel"

\* The connection kept is the last one, and the channel is on it.
LastKept == connection = opened /\ channel \in {0, connection}

\* While a channel exists nobody opens another, and nobody is ready before.
SingleChannel ==
    /\ \A c \in Callers : pc[c] \in {"connect", "channel"} => channel = 0
    /\ Ready => channel # 0
    /\ Opening => opened # 0

Accounted == opened = broken + (IF channel # 0 \/ Opening THEN 1 ELSE 0)

Inv ==
    /\ ConnectionTypeOK /\ refused \in Nat /\ broken \in Nat
    /\ LastKept /\ SingleChannel /\ Accounted

LEMMA InvInit == ConnectionInit => Inv
BY ConnectionAssumption
   DEF ConnectionInit, Inv, ConnectionTypeOK, LastKept, SingleChannel, Accounted, Ready, Opening, Stages, Holding

\* A step that only moves one caller, not to or from its channel.
LEMMA Moves ==
    ASSUME Inv, NEW c \in Callers, NEW stage \in Stages \ {"channel"}, Become(c, stage),
           pc[c] # "channel", UNCHANGED <<connection, channel, opened, broken>>,
           stage \in Holding =>
               pc[c] \in Holding \/ \A d \in Callers : pc[d] \notin Holding,
           stage = "connect" => channel = 0,
           stage = "ready" => channel # 0,
           refused' \in Nat, refused' + broken \in 0..MaxFailures
    PROVE  Inv'
<1>1. pc' = [pc EXCEPT ![c] = stage] /\ pc \in [Callers -> Stages]
  BY DEF Become, Inv, ConnectionTypeOK
<1>2. ConnectionTypeOK'
  BY <1>1 DEF Inv, ConnectionTypeOK
<1>3. Opening' <=> Opening
  BY <1>1 DEF Opening
<1>4. SingleChannel'
  BY <1>1, <1>3 DEF Inv, SingleChannel, Ready, Opening
<1> QED
  BY <1>2, <1>3, <1>4 DEF Inv, LastKept, Accounted, Opening

LEMMA InvStep == Inv /\ [Connect]_connectionVars => Inv'
<1> SUFFICES ASSUME Inv, [Connect]_connectionVars
             PROVE  Inv'
  OBVIOUS
<1>t. /\ pc \in [Callers -> Stages]
      /\ opened \in Nat /\ refused \in Nat /\ broken \in Nat
      /\ refused + broken \in 0..MaxFailures
      /\ \A c, d \in Callers : pc[c] \in Holding /\ pc[d] \in Holding => c = d
  BY DEF Inv, ConnectionTypeOK
<1>1. ASSUME NEW c \in Callers, Check(c) \/ Recheck(c)
      PROVE  Inv'
  <2>1. PICK stage \in {"ready", "wait", "connect"} :
          /\ Become(c, stage)
          /\ stage = "ready" => Open
          /\ stage = "connect" => ~Open /\ pc[c] = "recheck"
    BY <1>1 DEF Check, Recheck
  <2>2. Open <=> channel # 0
    BY <1>t DEF Open, Inv, LastKept, ConnectionTypeOK
  <2> QED
    BY <1>1, <1>t, <2>1, <2>2, Moves DEF Check, Recheck, Stages, Holding
<1>2. ASSUME NEW c \in Callers, Lock(c)
      PROVE  Inv'
  BY <1>2, <1>t, Moves DEF Lock, Stages, Holding
<1>3. ASSUME NEW c \in Callers, Return(c)
      PROVE  Inv'
  BY <1>3, <1>t, Moves DEF Return, Stages, Holding
<1>4. ASSUME NEW c \in Callers, CreateConnection(c)
      PROVE  Inv'
  <2>1. pc[c] = "connect" /\ UNCHANGED <<channel, broken>> /\ channel = 0
    BY <1>4 DEF CreateConnection, Inv, SingleChannel
  <2>2. ~Opening /\ ~Ready
    BY <1>t, <2>1 DEF Opening, Holding, Inv, SingleChannel
  <2>3. CASE Become(c, "failed") /\ UNCHANGED <<opened, connection>> /\ refused' = refused + 1
             /\ refused + broken < MaxFailures
    <3>1. refused' \in Nat /\ refused' + broken \in 0..MaxFailures
      BY <1>t, <2>3, ConnectionAssumption DEF Inv, ConnectionTypeOK
    <3> QED
      BY <2>1, <2>3, <3>1, Moves DEF Stages, Holding
  <2>4. CASE Become(c, "channel") /\ opened' = opened + 1 /\ connection' = opened + 1
             /\ UNCHANGED refused
    <3>1. pc' = [pc EXCEPT ![c] = "channel"]
      BY <2>4 DEF Become
    <3>2. ConnectionTypeOK'
      BY <1>t, <2>1, <2>4, <3>1 DEF ConnectionTypeOK, Stages, Holding
    <3>3. Opening' /\ ~Ready'
      BY <1>t, <2>2, <3>1 DEF Opening, Ready
    <3>4. SingleChannel' /\ LastKept'
      BY <1>t, <2>1, <2>4, <3>3 DEF SingleChannel, LastKept
    <3>5. Accounted'
      BY <1>t, <2>1, <2>2, <2>4, <3>3 DEF Inv, Accounted
    <3> QED
      BY <1>t, <2>1, <2>4, <3>2, <3>4, <3>5 DEF Inv
  <2> QED
    BY <1>4, <2>3, <2>4 DEF CreateConnection
<1>5. ASSUME NEW c \in Callers, CreateChannel(c)
      PROVE  Inv'
  <2>1. /\ pc[c] = "channel" /\ UNCHANGED <<connection, opened, refused>>
        /\ channel = 0 /\ Opening /\ connection = opened /\ opened # 0
    BY <1>5 DEF CreateChannel, Inv, SingleChannel, Opening, LastKept
  <2>2. PICK stage \in {"ready", "failed"} : pc' = [pc EXCEPT ![c] = stage]
    BY <1>5 DEF CreateChannel, Become
  <2>3. ~Opening'
    BY <1>t, <2>1, <2>2 DEF Opening, Holding
  <2>4. opened = broken + 1 /\ ~Ready
    BY <1>t, <2>1 DEF Inv, Accounted, SingleChannel
  <2>5. CASE channel' = connection /\ UNCHANGED broken
    <3>1. ConnectionTypeOK' /\ LastKept'
      BY <1>t, <2>1, <2>2, <2>5 DEF ConnectionTypeOK, LastKept, Stages, Holding
    <3>2. \A d \in Callers : pc'[d] \notin {"connect", "channel"}
      BY <1>t, <2>1, <2>2 DEF Holding
    <3>3. SingleChannel' /\ Accounted'
      BY <1>t, <2>1, <2>3, <2>4, <2>5, <3>2 DEF SingleChannel, Accounted
    <3> QED
      BY <1>t, <2>1, <2>5, <3>1, <3>3 DEF Inv
  <2>6. CASE broken' = broken + 1 /\ UNCHANGED channel /\ refused + broken < MaxFailures
             /\ Become(c, "failed")
    <3>1. refused' + broken' \in 0..MaxFailures
      BY <1>t, <2>1, <2>6, ConnectionAssumption DEF Inv, ConnectionTypeOK
    <3>2. ConnectionTypeOK' /\ LastKept'
      BY <1>t, <2>1, <2>2, <2>6, <3>1 DEF ConnectionTypeOK, LastKept, Stages, Holding
    <3>3. ~Ready'
      BY <1>t, <2>4, <2>6 DEF Ready, Become
    <3>4. SingleChannel' /\ Accounted'
      BY <1>t, <2>1, <2>3, <2>4, <2>6, <3>3 DEF SingleChannel, Accounted
    <3> QED
      BY <1>t, <2>1, <2>6, <3>2, <3>4 DEF Inv
  <2> QED
    BY <1>5, <2>5, <2>6 DEF CreateChannel
<1>6. CASE Restart
  <2>1. /\ pc' = [c \in Callers |-> "check"]
        /\ connection' = 0 /\ channel' = 0 /\ opened' = 0
        /\ refused' = refused + broken /\ broken' = 0
    BY <1>6 DEF Restart
  <2>2. ConnectionTypeOK'
    BY <1>t, <2>1 DEF ConnectionTypeOK, Stages, Holding
  <2>3. ~Ready' /\ ~Opening' /\ \A c \in Callers : pc'[c] \notin {"connect", "channel"}
    BY <2>1 DEF Ready, Opening
  <2> QED
    BY <1>t, <2>1, <2>2, <2>3 DEF Inv, LastKept, SingleChannel, Accounted
<1>7. CASE UNCHANGED connectionVars
  BY <1>7 DEF connectionVars, Inv, ConnectionTypeOK, LastKept, SingleChannel, Accounted,
              Ready, Opening
<1> QED
  BY <1>1, <1>2, <1>3, <1>4, <1>5, <1>6, <1>7 DEF Connect, CallStep

\* One connection is opened, and one more only for each channel that could not
\* be created: the second check under the lock is enough for any number of
\* callers.
THEOREM OpensOneConnection == ConnectionSpec => []OneConnection
<1>1. Inv => OneConnection
  BY DEF Inv, ConnectionTypeOK, Accounted, OneConnection
<1> QED
  BY <1>1, InvInit, InvStep, PTL DEF ConnectionSpec

\* Whoever may publish uses a channel on the connection that is kept.
THEOREM UsesKeptConnection == ConnectionSpec => []ChannelOnConnection
<1>1. Inv => ChannelOnConnection
  BY DEF Inv, LastKept, SingleChannel, Ready, ChannelOnConnection
<1> QED
  BY <1>1, InvInit, InvStep, PTL DEF ConnectionSpec
===============================================================================
