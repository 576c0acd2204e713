--------------------------- MODULE IntegrationsProofs ---------------------------
(***************************************************************************)
(* The queues lose nothing and repeat little, for any number of services,  *)
(* messages, refusals and lost connections; a service that has its queue   *)
(* for itself handles it in order and pushes everything to everyone that   *)
(* is up.                                                                  *)
(***************************************************************************)
EXTENDS Integrations, FiniteSetTheorems, TLAPS

-------------------------------------------------------------------------------
(* The inductive invariant.  That nothing is lost rests on a handler being *)
(* counted before it acknowledges; the bound on repetitions is an account  *)
(* per message: what was handled, what strays may still handle and what    *)
(* the broker still owes never exceed one and the connections lost.        *)

\* The dispatcher has each delivery once, and not the one whose callback runs.
Dispatchable ==
    /\ \A i \in DOMAIN work : unacked[work[i]] # None
    /\ \A i, j \in DOMAIN work : work[i] = work[j] => i = j
    /\ \A i \in DOMAIN work : current # Idle => work[i] # current.consumer

\* A message is at the broker or with one service.
Exclusive ==
    \A c \in Consumers : unacked[c] # None =>
        /\ unacked[c] \notin ready
        /\ \A d \in Consumers : unacked[d] = unacked[c] => c = d

\* A handler that has returned is counted, and nothing else is.
Counted ==
    /\ current.stage = "done" => times[unacked[current.consumer]] > 0
    /\ \A m \in Messages \ Published : times[m] = 0

Ended(c) == current = [consumer |-> c, stage |-> "done"]

\* A handler is yet to run for the message.
Outstanding(m) ==
    \/ m \in ready
    \/ \E c \in Consumers : unacked[c] = m /\ ~Ended(c)

StraysOf(m) == {s \in strays : s[2] = m}

Owed(m) == IF Outstanding(m) THEN 1 ELSE 0

Account(m) == times[m] + Cardinality(StraysOf(m)) + Owed(m)

Balanced ==
    /\ IsFiniteSet(strays)
    /\ \A m \in Messages : Account(m) =< 1 + losses

\* Services hold, and their strays handle, messages of their own queue.
Routed ==
    /\ \A c \in Consumers : unacked[c] # None => QueueOf[unacked[c]] = Listens[c]
    /\ \A s \in strays : QueueOf[s[2]] = Listens[s[1]]

\* What was handled was pushed by the services that listen, if each queue has
\* one.
Pushed ==
    \A m \in Messages : \A c \in Listeners(m) :
        times[m] > 0 => Reached(c, m) \X {m} \subseteq pushed

QueueInv ==
    TypeOK /\ Dispatchable /\ Exclusive /\ Counted /\ Balanced /\ NothingLost

\* What a step does to the queues.
QueueStep ==
    \/ \E m \in Messages : Publish(m)
    \/ \E c \in Consumers : Deliver(c)
    \/ Dispatch \/ Ack \/ Refuse \/ Complete \/ Lose
    \/ \E s \in strays : StrayEnds(s) \/ StrayThrows(s)

LEMMA StepOfQueues == [Next]_vars => QueueStep \/ UNCHANGED queueVars
BY DEF Next, QueueStep, Transport, vars

-------------------------------------------------------------------------------
(* Types.                                                                  *)

LEMMA LogGrows ==
    ASSUME NEW m \in Messages, log \in Seq(Messages), Publish(m)
    PROVE  Published' = Published \cup {m} /\ log' \in Seq(Messages)
<1>1. /\ log' = Append(log, m)
      /\ DOMAIN log' = 1..(Len(log) + 1)
      /\ DOMAIN log = 1..Len(log)
      /\ \A i \in DOMAIN log : log'[i] = log[i]
      /\ log'[Len(log) + 1] = m
      /\ Len(log) \in Nat
  BY DEF Publish
<1>2. Published' \subseteq Published \cup {m}
  BY <1>1 DEF Published
<1>3. Published \subseteq Published' /\ m \in Published'
  BY <1>1 DEF Published
<1> QED
  BY <1>1, <1>2, <1>3

LEMMA PublishedMessages ==
    ASSUME log \in Seq(Messages)
    PROVE  Published \subseteq Messages
BY DEF Published

\* The callback that runs is of a service that holds its message.
LEMMA CurrentHolds ==
    ASSUME QueueTypeOK, current # Idle
    PROVE  /\ current.consumer \in Consumers
           /\ unacked[current.consumer] \in Published
           /\ unacked[current.consumer] \in Messages
           /\ current.stage \in {"running", "done"}
           /\ current = [consumer |-> current.consumer, stage |-> current.stage]
<1>1. current \in [consumer : Consumers, stage : {"running", "done"}]
  BY DEF QueueTypeOK
<1>2. unacked[current.consumer] \in Published
  BY <1>1 DEF QueueTypeOK
<1> QED
  BY <1>1, <1>2, PublishedMessages DEF QueueTypeOK

LEMMA StageBusy == current.stage \in {"running", "done"} => current # Idle
BY DEF Idle

LEMMA QueueTypeStep ==
    ASSUME QueueTypeOK, Dispatchable, QueueStep
    PROVE  QueueTypeOK'
<1> USE QueueAssumption
<1>1. ASSUME NEW m \in Messages, Publish(m)
      PROVE  QueueTypeOK'
  BY <1>1, LogGrows DEF QueueTypeOK, Publish, Idle
<1>2. ASSUME NEW c \in Consumers, Deliver(c)
      PROVE  QueueTypeOK'
  <2>1. PICK m \in ready : /\ ready' = ready \ {m}
                           /\ unacked' = [unacked EXCEPT ![c] = m]
    BY <1>2 DEF Deliver, First
  <2>2. unacked[c] = None /\ work' = Append(work, c) /\ Published' = Published
    BY <1>2 DEF Deliver, Published
  <2>3. current # Idle => unacked'[current.consumer] # None
    BY <2>1, <2>2 DEF QueueTypeOK
  <2> QED
    BY <1>2, <2>1, <2>2, <2>3 DEF QueueTypeOK, Deliver, Idle
<1>3. CASE Dispatch
  <2>1. /\ Head(work) \in Consumers /\ Head(work) = work[1] /\ 1 \in DOMAIN work
        /\ Tail(work) \in Seq(Consumers)
    BY <1>3 DEF Dispatch, QueueTypeOK
  <2>2. unacked[Head(work)] # None
    BY <2>1 DEF Dispatchable
  <2>3. Published' = Published
    BY <1>3 DEF Dispatch, Published
  <2> QED
    BY <1>3, <2>1, <2>2, <2>3 DEF Dispatch, QueueTypeOK, Idle
<1>4. CASE Ack
  BY <1>4 DEF Ack, QueueTypeOK, Published, Idle
<1>5. CASE Refuse
  <2>1. current.consumer \in Consumers /\ unacked[current.consumer] \in Published
    BY <1>5, StageBusy, CurrentHolds DEF Refuse
  <2>2. Published' = Published
    BY <1>5 DEF Refuse, Published
  <2> QED
    BY <1>5, <2>1, <2>2 DEF Refuse, QueueTypeOK, Idle
<1>6. CASE Complete
  <2> DEFINE m == unacked[current.consumer]
  <2>1. /\ current.consumer \in Consumers /\ m \in Messages /\ m # None
        /\ current = [consumer |-> current.consumer, stage |-> "running"]
    BY <1>6, StageBusy, CurrentHolds DEF Complete
  <2>2. current' = [consumer |-> current.consumer, stage |-> "done"]
    BY <1>6, <2>1 DEF Complete
  <2>3. times' \in [Messages -> Nat]
    BY <1>6, <2>1 DEF Complete, QueueTypeOK
  <2>4. Published' = Published
    BY <1>6 DEF Complete, Published
  <2> QED
    BY <1>6, <2>1, <2>2, <2>3, <2>4 DEF Complete, QueueTypeOK, Idle
<1>7. CASE Lose
  <2>1. Published' = Published
    BY <1>7 DEF Lose, Published
  <2>2. Abandoned \subseteq Consumers \X Published \X (1..(losses + 1))
    BY StageBusy, CurrentHolds DEF Abandoned, QueueTypeOK
  <2>3. strays \subseteq Consumers \X Published \X (1..(losses + 1))
    BY DEF QueueTypeOK
  <2>4. strays' \subseteq Consumers \X Published \X (1..(losses + 1))
    BY <1>7, <2>2, <2>3 DEF Lose
  <2> QED
    BY <1>7, <2>1, <2>4 DEF Lose, QueueTypeOK, Idle
<1>8. ASSUME NEW s \in strays, StrayEnds(s) \/ StrayThrows(s)
      PROVE  QueueTypeOK'
  <2>1. times' \in [Messages -> Nat]
    BY <1>8, PublishedMessages DEF StrayEnds, StrayThrows, QueueTypeOK
  <2>2. refusals' \in 0..MaxRefusals
    BY <1>8 DEF StrayEnds, StrayThrows, QueueTypeOK
  <2>3. /\ UNCHANGED <<log, ready, unacked, work, current, losses>>
        /\ strays' \subseteq strays
    BY <1>8 DEF StrayEnds, StrayThrows
  <2>4. Published' = Published
    BY <2>3 DEF Published
  <2>5. current' # Idle => unacked'[current'.consumer] # None
    BY <2>3 DEF QueueTypeOK
  <2>6. strays' \subseteq Consumers \X Published' \X (1..losses')
    BY <2>3, <2>4 DEF QueueTypeOK
  <2> QED
    BY <2>1, <2>2, <2>3, <2>4, <2>5, <2>6 DEF QueueTypeOK, Idle
<1> QED
  BY <1>1, <1>2, <1>3, <1>4, <1>5, <1>6, <1>7, <1>8 DEF QueueStep


-------------------------------------------------------------------------------
(* The dispatcher and who holds what.                                      *)

LEMMA DispatchableStep ==
    ASSUME QueueTypeOK, Dispatchable, QueueStep
    PROVE  Dispatchable'
<1> USE QueueAssumption
<1>t. /\ work \in Seq(Consumers) /\ unacked \in [Consumers -> Published \cup {None}]
      /\ ready \subseteq Messages
  BY PublishedMessages DEF QueueTypeOK
<1>1. ASSUME NEW m \in Messages, Publish(m)
      PROVE  Dispatchable'
  BY <1>1 DEF Dispatchable, Publish, Idle
<1>2. ASSUME NEW c \in Consumers, Deliver(c)
      PROVE  Dispatchable'
  <2>1. PICK m \in ready : unacked' = [unacked EXCEPT ![c] = m]
    BY <1>2 DEF Deliver, First
  <2>2. m # None /\ unacked[c] = None /\ current' = current
    BY <1>2, <1>t DEF Deliver
  <2>3. /\ DOMAIN work' = 1..(Len(work) + 1) /\ DOMAIN work = 1..Len(work)
        /\ \A i \in DOMAIN work : work'[i] = work[i] /\ work[i] \in Consumers
        /\ work'[Len(work) + 1] = c /\ Len(work) \in Nat
    BY <1>2, <1>t DEF Deliver
  <2>4. \A i \in DOMAIN work : work[i] # c
    BY <2>2 DEF Dispatchable
  <2>5. current # Idle => current.consumer # c
    BY <2>2, CurrentHolds, <1>t, PublishedMessages DEF QueueTypeOK
  <2>6. \A i \in DOMAIN work' : unacked'[work'[i]] # None
    BY <2>1, <2>2, <2>3, <1>t DEF Dispatchable
  <2>7. \A i, j \in DOMAIN work' : work'[i] = work'[j] => i = j
    BY <2>3, <2>4 DEF Dispatchable
  <2>8. \A i \in DOMAIN work' : current' # Idle => work'[i] # current'.consumer
    BY <2>2, <2>3, <2>5 DEF Dispatchable
  <2> QED
    BY <2>6, <2>7, <2>8 DEF Dispatchable, Idle
<1>3. CASE Dispatch
  <2>1. /\ work' = Tail(work) /\ work # <<>> /\ unacked' = unacked
        /\ current' # Idle => current'.consumer = Head(work)
    BY <1>3 DEF Dispatch
  <2>2. /\ Head(work) = work[1] /\ 1 \in DOMAIN work
        /\ \A i \in DOMAIN work' : i \in Nat /\ i + 1 \in DOMAIN work /\ i + 1 # 1
                                   /\ work'[i] = work[i + 1]
    BY <2>1, <1>t
  <2>3. \A i, j \in DOMAIN work' : work'[i] = work'[j] => i = j
    <3> SUFFICES ASSUME NEW i \in DOMAIN work', NEW j \in DOMAIN work', work'[i] = work'[j]
                 PROVE  i = j
      OBVIOUS
    <3>1. i + 1 = j + 1
      BY <2>2 DEF Dispatchable
    <3> QED
      BY <3>1, <2>2
  <2>4. \A i \in DOMAIN work' : work'[i] # work[1]
    BY <2>2 DEF Dispatchable
  <2>5. \A i \in DOMAIN work' : unacked'[work'[i]] # None
    BY <2>1, <2>2 DEF Dispatchable
  <2> QED
    BY <2>1, <2>2, <2>3, <2>4, <2>5 DEF Dispatchable, Idle
<1>4. CASE Ack \/ Refuse
  <2>1. /\ current # Idle /\ current' = Idle /\ work' = work
        /\ unacked' = [unacked EXCEPT ![current.consumer] = None]
    BY <1>4, StageBusy DEF Ack, Refuse
  <2>2. \A i \in DOMAIN work : unacked'[work[i]] = unacked[work[i]]
    BY <2>1, <1>t DEF Dispatchable
  <2> QED
    BY <2>1, <2>2 DEF Dispatchable, Idle
<1>5. CASE Complete
  <2>1. current # Idle /\ work' = work /\ unacked' = unacked
        /\ current' = [consumer |-> current.consumer, stage |-> "done"]
    BY <1>5, StageBusy, CurrentHolds DEF Complete
  <2> QED
    BY <2>1 DEF Dispatchable, Idle
<1>6. CASE Lose
  BY <1>6 DEF Lose, Dispatchable
<1>7. ASSUME NEW s \in strays, StrayEnds(s) \/ StrayThrows(s)
      PROVE  Dispatchable'
  BY <1>7 DEF StrayEnds, StrayThrows, Dispatchable, Idle
<1> QED
  BY <1>1, <1>2, <1>3, <1>4, <1>5, <1>6, <1>7 DEF QueueStep

LEMMA ExclusiveStep ==
    ASSUME QueueTypeOK, Exclusive, QueueStep
    PROVE  Exclusive'
<1> USE QueueAssumption
<1>t. unacked \in [Consumers -> Published \cup {None}] /\ ready \subseteq Messages
  BY PublishedMessages DEF QueueTypeOK
<1>1. ASSUME NEW m \in Messages, Publish(m)
      PROVE  Exclusive'
  <2>1. \A c \in Consumers : unacked[c] # m
    BY <1>1, <1>t DEF Publish
  <2> QED
    BY <1>1, <2>1 DEF Exclusive, Publish
<1>2. ASSUME NEW c \in Consumers, Deliver(c)
      PROVE  Exclusive'
  <2>1. PICK m \in ready : /\ ready' = ready \ {m}
                           /\ unacked' = [unacked EXCEPT ![c] = m]
    BY <1>2 DEF Deliver, First
  <2>2. \A d \in Consumers : unacked[d] # m
    BY <2>1, <1>t DEF Exclusive
  <2> QED
    BY <2>1, <2>2, <1>t DEF Exclusive
<1>3. CASE Dispatch \/ Complete
  BY <1>3 DEF Exclusive, Dispatch, Complete
<1>4. CASE Ack
  BY <1>4, <1>t DEF Exclusive, Ack
<1>5. CASE Refuse
  <2>1. current.consumer \in Consumers
    BY <1>5, StageBusy, CurrentHolds DEF Refuse
  <2> QED
    BY <1>5, <2>1, <1>t DEF Exclusive, Refuse
<1>6. CASE Lose
  BY <1>6 DEF Lose, Exclusive
<1>7. ASSUME NEW s \in strays, StrayEnds(s) \/ StrayThrows(s)
      PROVE  Exclusive'
  BY <1>7 DEF StrayEnds, StrayThrows, Exclusive
<1> QED
  BY <1>1, <1>2, <1>3, <1>4, <1>5, <1>6, <1>7 DEF QueueStep

LEMMA CountedStep ==
    ASSUME QueueTypeOK, Counted, QueueStep
    PROVE  Counted'
<1> USE QueueAssumption
<1>t. /\ times \in [Messages -> Nat] /\ Published \subseteq Messages
      /\ unacked \in [Consumers -> Published \cup {None}]
  BY PublishedMessages DEF QueueTypeOK
<1>1. ASSUME NEW m \in Messages, Publish(m)
      PROVE  Counted'
  <2>1. Published' = Published \cup {m}
    BY <1>1, LogGrows DEF QueueTypeOK
  <2> QED
    BY <1>1, <2>1 DEF Counted, Publish
<1>2. ASSUME NEW c \in Consumers, Deliver(c)
      PROVE  Counted'
  <2>1. Published' = Published /\ current' = current /\ times' = times
    BY <1>2 DEF Deliver, Published
  <2>2. current # Idle => unacked'[current.consumer] = unacked[current.consumer]
    BY <1>2, <1>t, CurrentHolds DEF Deliver, First
  <2> QED
    BY <2>1, <2>2, StageBusy DEF Counted
<1>3. CASE Dispatch \/ Ack \/ Refuse \/ Lose
  <2>1. Published' = Published /\ times' = times
    BY <1>3 DEF Dispatch, Ack, Refuse, Lose, Published
  <2>2. current'.stage # "done"
    BY <1>3 DEF Dispatch, Ack, Refuse, Lose, Idle
  <2> QED
    BY <2>1, <2>2 DEF Counted
<1>4. CASE Complete
  <2> DEFINE m == unacked[current.consumer]
  <2>1. m \in Messages /\ m \in Published
        /\ current' = [consumer |-> current.consumer, stage |-> "done"]
    BY <1>4, StageBusy, CurrentHolds DEF Complete
  <2>2. times' = [times EXCEPT ![m] = @ + 1] /\ unacked' = unacked /\ Published' = Published
    BY <1>4 DEF Complete, Published
  <2>3. times'[m] > 0 /\ \A n \in Messages \ Published : times'[n] = times[n]
    BY <2>1, <2>2, <1>t
  <2> QED
    BY <2>1, <2>2, <2>3 DEF Counted
<1>5. ASSUME NEW s \in strays, StrayEnds(s) \/ StrayThrows(s)
      PROVE  Counted'
  <2>1. s[2] \in Published /\ Published' = Published
    BY <1>5 DEF StrayEnds, StrayThrows, QueueTypeOK, Published
  <2>2. \A n \in Messages : /\ n # s[2] => times'[n] = times[n]
                            /\ times'[n] >= times[n] /\ times'[n] \in Nat
    BY <1>5, <2>1, <1>t DEF StrayEnds, StrayThrows
  <2>3. current'.stage = "done" => times'[unacked'[current'.consumer]] > 0
    <3> SUFFICES ASSUME current.stage = "done"
                 PROVE  times'[unacked[current.consumer]] > 0
      BY <1>5 DEF StrayEnds, StrayThrows
    <3>1. unacked[current.consumer] \in Messages
      BY StageBusy, CurrentHolds
    <3> QED
      BY <3>1, <2>2, <1>t DEF Counted
  <2> QED
    BY <2>1, <2>2, <2>3 DEF Counted
<1> QED
  BY <1>1, <1>2, <1>3, <1>4, <1>5 DEF QueueStep

-------------------------------------------------------------------------------
(* Nothing is lost, and the account of each message.                       *)

LEMMA NothingLostStep ==
    ASSUME QueueTypeOK, Counted, NothingLost, QueueStep
    PROVE  NothingLost'
<1> USE QueueAssumption
<1>t. /\ times \in [Messages -> Nat] /\ Published \subseteq Messages /\ None \notin Messages
      /\ unacked \in [Consumers -> Published \cup {None}]
  BY PublishedMessages DEF QueueTypeOK
<1>1. ASSUME NEW m \in Messages, Publish(m)
      PROVE  NothingLost'
  <2>1. Published' = Published \cup {m}
    BY <1>1, LogGrows DEF QueueTypeOK
  <2> QED
    BY <1>1, <2>1 DEF NothingLost, Publish
<1>2. ASSUME NEW c \in Consumers, Deliver(c)
      PROVE  NothingLost'
  <2>1. PICK m \in ready : /\ ready' = ready \ {m}
                           /\ unacked' = [unacked EXCEPT ![c] = m]
    BY <1>2 DEF Deliver, First
  <2>2. Published' = Published /\ times' = times /\ unacked[c] = None
    BY <1>2 DEF Deliver, Published
  <2> QED
    BY <2>1, <2>2, <1>t DEF NothingLost
<1>3. CASE Dispatch
  BY <1>3 DEF NothingLost, Dispatch, Published
<1>4. CASE Ack
  <2>1. times[unacked[current.consumer]] > 0
    BY <1>4 DEF Ack, Counted
  <2>2. Published' = Published
    BY <1>4 DEF Ack, Published
  <2> QED
    BY <1>4, <2>1, <2>2, <1>t DEF NothingLost, Ack
<1>5. CASE Refuse \/ Lose
  <2>1. Published' = Published /\ times' = times
    BY <1>5 DEF Refuse, Lose, Published
  <2>2. \A m \in ready : m \in ready'
    BY <1>5 DEF Refuse, Lose
  <2>3. \A c \in Consumers : unacked[c] # None => unacked[c] \in ready' \/ unacked'[c] = unacked[c]
    BY <1>5, <1>t DEF Refuse, Lose
  <2> QED
    BY <2>1, <2>2, <2>3, <1>t DEF NothingLost
<1>6. CASE Complete
  <2>1. unacked[current.consumer] \in Messages
    BY <1>6, StageBusy, CurrentHolds DEF Complete
  <2>2. \A n \in Messages : times'[n] >= times[n]
    BY <1>6, <2>1, <1>t DEF Complete
  <2>3. Published' = Published /\ ready' = ready /\ unacked' = unacked
    BY <1>6 DEF Complete, Published
  <2>4. \A n \in Messages : times[n] > 0 => times'[n] > 0
    BY <1>6, <2>1, <1>t DEF Complete
  <2> QED
    BY <2>3, <2>4, <1>t DEF NothingLost
<1>7. ASSUME NEW s \in strays, StrayEnds(s) \/ StrayThrows(s)
      PROVE  NothingLost'
  <2>1. \A n \in Messages : times[n] > 0 => times'[n] > 0
    BY <1>7, <1>t DEF StrayEnds, StrayThrows
  <2>2. Published' = Published /\ ready' = ready /\ unacked' = unacked
    BY <1>7 DEF StrayEnds, StrayThrows, Published
  <2> QED
    BY <2>1, <2>2, <1>t DEF NothingLost
<1> QED
  BY <1>1, <1>2, <1>3, <1>4, <1>5, <1>6, <1>7 DEF QueueStep

LEMMA AddOne ==
    ASSUME NEW S, NEW x, IsFiniteSet(S)
    PROVE  Cardinality(S \cup {x}) =< Cardinality(S) + 1
<1>1. Cardinality(S) \in Nat
  BY FS_CardinalityType
<1>2. CASE x \in S
  <2>1. S \cup {x} = S
    BY <1>2
  <2> QED
    BY <1>1, <2>1
<1>3. CASE x \notin S
  <2>1. Cardinality(S \cup {x}) = IF x \in S THEN Cardinality(S) ELSE Cardinality(S) + 1
    BY ONLY IsFiniteSet(S), FS_AddElement, Zenon
  <2> QED
    BY <1>1, <1>3, <2>1
<1> QED
  BY <1>2, <1>3

LEMMA OwedTypes ==
    ASSUME NEW n \in Messages
    PROVE  /\ Owed(n) \in {0, 1} /\ Owed(n)' \in {0, 1}
           /\ Outstanding(n) => Owed(n) = 1
           /\ ~Outstanding(n)' => Owed(n)' = 0
           /\ (Outstanding(n)' => Outstanding(n)) => Owed(n)' =< Owed(n)
BY DEF Owed

LEMMA AccountTypes ==
    ASSUME QueueTypeOK, Balanced, NEW n \in Messages
    PROVE  /\ times[n] \in Nat /\ losses \in Nat
           /\ IsFiniteSet(StraysOf(n)) /\ Cardinality(StraysOf(n)) \in Nat
           /\ times[n] + Cardinality(StraysOf(n)) + Owed(n) =< 1 + losses
<1>1. IsFiniteSet(StraysOf(n))
  BY FS_Subset DEF StraysOf, Balanced
<1> QED
  BY <1>1, FS_CardinalityType DEF Balanced, Account, QueueTypeOK

\* A step that makes no handler outstanding and ends none keeps the account.
LEMMA BalancedUnchanged ==
    ASSUME QueueTypeOK, Balanced, UNCHANGED <<times, strays, losses>>,
           \A n \in Messages : Outstanding(n)' => Outstanding(n)
    PROVE  Balanced'
<1> SUFFICES ASSUME NEW n \in Messages
             PROVE  (Account(n) =< 1 + losses)'
  BY DEF Balanced
<1>1. StraysOf(n)' = StraysOf(n)
  BY DEF StraysOf
<1>2. times[n] + Cardinality(StraysOf(n)) + Owed(n)' =< 1 + losses
  BY AccountTypes, OwedTypes
<1> QED
  BY <1>1, <1>2 DEF Account

LEMMA BalancedStep ==
    ASSUME QueueTypeOK, Exclusive, Counted, Balanced, QueueStep
    PROVE  Balanced'
<1> USE QueueAssumption
<1>t. /\ times \in [Messages -> Nat] /\ Published \subseteq Messages /\ None \notin Messages
      /\ unacked \in [Consumers -> Published \cup {None}] /\ losses \in Nat
      /\ ready \subseteq Published /\ strays \subseteq Consumers \X Published \X (1..losses)
  BY PublishedMessages DEF QueueTypeOK
<1>f. IsFiniteSet(strays)
  BY DEF Balanced
<1>1. ASSUME NEW m \in Messages, Publish(m)
      PROVE  Balanced'
  <2>1. StraysOf(m) = {} /\ times[m] = 0 /\ Cardinality(StraysOf(m)) = 0
    BY <1>1, <1>t, FS_EmptySet DEF Publish, StraysOf, Counted
  <2>2. UNCHANGED <<times, losses, strays, unacked, current>> /\ ready' = ready \cup {m}
    BY <1>1 DEF Publish
  <2>3. ASSUME NEW n \in Messages
        PROVE  (Account(n) =< 1 + losses)'
    <3>1. n # m => (Outstanding(n)' => Outstanding(n))
      BY <2>2 DEF Outstanding, Ended
    <3>4. n = m => times[n] + Cardinality(StraysOf(n)) = 0
      BY <2>1
    <3>2. times[n] + Cardinality(StraysOf(n)) + Owed(n)' =< 1 + losses
      <4>1. CASE n = m
        BY <4>1, <3>4, <1>t, OwedTypes
      <4>2. CASE n # m
        BY <4>2, <3>1, AccountTypes, OwedTypes
      <4> QED
        BY <4>1, <4>2
    <3>3. StraysOf(n)' = StraysOf(n)
      BY <2>2 DEF StraysOf
    <3> QED
      BY <2>2, <3>2, <3>3 DEF Account
  <2> QED
    BY <2>2, <2>3, <1>f DEF Balanced
<1>2. ASSUME NEW c \in Consumers, Deliver(c)
      PROVE  Balanced'
  <2>1. PICK m \in ready : /\ ready' = ready \ {m}
                           /\ unacked' = [unacked EXCEPT ![c] = m]
    BY <1>2 DEF Deliver, First
  <2>2. UNCHANGED <<times, strays, losses, current>>
    BY <1>2 DEF Deliver
  <2>3. \A n \in Messages : Outstanding(n)' => Outstanding(n)
    BY <2>1, <2>2, <1>t DEF Outstanding, Ended
  <2> QED
    BY <2>2, <2>3, BalancedUnchanged
<1>3. CASE Dispatch
  <2>1. UNCHANGED <<times, strays, losses, ready, unacked>> /\ current = Idle
    BY <1>3 DEF Dispatch
  <2>2. \A n \in Messages : Outstanding(n)' => Outstanding(n)
    BY <2>1 DEF Outstanding, Ended, Idle
  <2> QED
    BY <2>1, <2>2, BalancedUnchanged
<1>4. CASE Ack
  <2>1. UNCHANGED <<times, strays, losses, ready>>
        /\ unacked' = [unacked EXCEPT ![current.consumer] = None]
    BY <1>4 DEF Ack
  <2>2. ASSUME NEW n \in Messages, NEW d \in Consumers, unacked'[d] = n
        PROVE  unacked[d] = n /\ ~Ended(d)
    BY <2>1, <2>2, <1>t DEF Ended
  <2>3. \A n \in Messages : Outstanding(n)' => Outstanding(n)
    BY <2>1, <2>2 DEF Outstanding
  <2> QED
    BY <2>1, <2>3, BalancedUnchanged
<1>5. CASE Refuse
  <2>1. /\ UNCHANGED <<times, strays, losses>>
        /\ unacked' = [unacked EXCEPT ![current.consumer] = None]
        /\ ready' = ready \cup {unacked[current.consumer]}
        /\ current.stage = "running" /\ current.consumer \in Consumers
    BY <1>5, StageBusy, CurrentHolds DEF Refuse
  <2>2. \A n \in Messages : Outstanding(n)' => Outstanding(n)
    BY <2>1, <1>t DEF Outstanding, Ended
  <2> QED
    BY <2>1, <2>2, BalancedUnchanged
<1>6. CASE Complete
  <2>1. PICK m \in Messages, c \in Consumers :
          /\ m = unacked[c] /\ c = current.consumer /\ current.stage = "running"
          /\ current' = [consumer |-> c, stage |-> "done"]
    BY <1>6, StageBusy, CurrentHolds DEF Complete
  <2>2. /\ UNCHANGED <<ready, unacked, strays, losses>>
        /\ times' = [times EXCEPT ![m] = @ + 1]
    BY <1>6, <2>1 DEF Complete
  <2>3. Outstanding(m)
    BY <2>1 DEF Outstanding, Ended
  <2>4. ~Outstanding(m)'
    <3>1. m \notin ready /\ \A d \in Consumers : unacked[d] = m => d = c
      BY <2>1, <1>t DEF Exclusive
    <3>2. Ended(c)'
      BY <2>1 DEF Ended
    <3> QED
      BY <2>2, <3>1, <3>2 DEF Outstanding
  <2>5. ASSUME NEW n \in Messages
        PROVE  (Account(n) =< 1 + losses)'
    <3>1. n # m => (Outstanding(n)' => Outstanding(n))
      <4>1. \A d \in Consumers : ~Ended(d)
        BY <2>1 DEF Ended
      <4> QED
        BY <2>2, <4>1 DEF Outstanding
    <3>2. times'[n] = IF n = m THEN times[n] + 1 ELSE times[n]
      BY <2>2, <1>t
    <3>3. times'[n] + Cardinality(StraysOf(n)) + Owed(n)' =< 1 + losses
      BY <2>3, <2>4, <3>1, <3>2, AccountTypes, OwedTypes
    <3>4. StraysOf(n)' = StraysOf(n)
      BY <2>2 DEF StraysOf
    <3> QED
      BY <2>2, <3>3, <3>4 DEF Account
  <2> QED
    BY <2>2, <2>5, <1>f DEF Balanced
<1>7. ASSUME Lose, ~(Abandoned # {} /\ strays' = strays \cup Abandoned)
      PROVE  Balanced'
  <2>1. times' = times /\ losses' = losses + 1 /\ strays' \subseteq strays
    BY <1>7 DEF Lose
  <2>2. ASSUME NEW n \in Messages
        PROVE  (Account(n) =< 1 + losses)'
    <3>1. StraysOf(n)' \subseteq StraysOf(n)
      BY <2>1 DEF StraysOf
    <3>2. Cardinality(StraysOf(n)') =< Cardinality(StraysOf(n)) /\ Cardinality(StraysOf(n)') \in Nat
      BY <3>1, AccountTypes, FS_Subset, FS_CardinalityType
    <3>3. times[n] + Cardinality(StraysOf(n)') + Owed(n)' =< 1 + (losses + 1)
      BY <3>2, AccountTypes, OwedTypes
    <3> QED
      BY <2>1, <3>3 DEF Account
  <2> QED
    BY <2>1, <2>2, <1>f, FS_Subset DEF Balanced
<1>8. ASSUME Lose, Abandoned # {}, strays' = strays \cup Abandoned
      PROVE  Balanced'
  <2>1. PICK m \in Messages, c \in Consumers :
          /\ m = unacked[c] /\ c = current.consumer /\ current.stage = "running"
          /\ strays' = strays \cup {<<c, m, losses + 1>>}
    BY <1>8, StageBusy, CurrentHolds DEF Abandoned
  <2>2. times' = times /\ losses' = losses + 1
    BY <1>8 DEF Lose
  <2>3. Outstanding(m)
    BY <2>1 DEF Outstanding, Ended
  <2>4. ASSUME NEW n \in Messages
        PROVE  (Account(n) =< 1 + losses)'
    <3>1. IF n = m THEN StraysOf(n)' = StraysOf(n) \cup {<<c, m, losses + 1>>}
          ELSE StraysOf(n)' = StraysOf(n)
      BY <2>1 DEF StraysOf
    <3>2. Cardinality(StraysOf(n)')
            =< IF n = m THEN Cardinality(StraysOf(n)) + 1 ELSE Cardinality(StraysOf(n))
      <4>1. CASE n = m
        <5>1. Cardinality(StraysOf(n) \cup {<<c, m, losses + 1>>})
                =< Cardinality(StraysOf(n)) + 1
          BY AccountTypes, AddOne
        <5> QED
          BY <3>1, <4>1, <5>1
      <4>2. CASE n # m
        BY <3>1, <4>2, AccountTypes
      <4> QED
        BY <4>1, <4>2
    <3>3. Cardinality(StraysOf(n)') \in Nat
      BY <3>1, AccountTypes, FS_AddElement, FS_CardinalityType
    <3>4. times[n] + Cardinality(StraysOf(n)') + Owed(n)' =< 1 + (losses + 1)
      BY <2>3, <3>2, <3>3, AccountTypes, OwedTypes
    <3> QED
      BY <2>2, <3>4 DEF Account
  <2> QED
    BY <2>1, <2>4, <1>f, FS_AddElement DEF Balanced
<1>9. ASSUME NEW s \in strays, StrayEnds(s) \/ StrayThrows(s)
      PROVE  Balanced'
  <2>1. /\ UNCHANGED <<ready, unacked, current, losses>> /\ strays' = strays \ {s}
        /\ times' = times \/ times' = [times EXCEPT ![s[2]] = @ + 1]
    BY <1>9 DEF StrayEnds, StrayThrows
  <2>2. ASSUME NEW n \in Messages
        PROVE  (Account(n) =< 1 + losses)'
    <3>1. Outstanding(n)' => Outstanding(n)
      BY <2>1 DEF Outstanding, Ended
    <3>2. IF n = s[2] THEN StraysOf(n)' = StraysOf(n) \ {s} /\ s \in StraysOf(n)
          ELSE StraysOf(n)' = StraysOf(n)
      BY <2>1 DEF StraysOf
    <3>3. Cardinality(StraysOf(n)')
            = IF n = s[2] THEN Cardinality(StraysOf(n)) - 1 ELSE Cardinality(StraysOf(n))
      BY <3>2, AccountTypes, FS_RemoveElement
    <3>4. \/ times'[n] = times[n]
          \/ n = s[2] /\ times'[n] = times[n] + 1
      BY <2>1, <1>t
    <3>5. times'[n] + Cardinality(StraysOf(n)') + Owed(n)' =< 1 + losses
      BY <3>1, <3>3, <3>4, AccountTypes, OwedTypes
    <3> QED
      BY <2>1, <3>5 DEF Account
  <2> QED
    BY <2>1, <2>2, <1>f, FS_Subset DEF Balanced
<1> QED
  BY <1>1, <1>2, <1>3, <1>4, <1>5, <1>6, <1>7, <1>8, <1>9 DEF QueueStep

-------------------------------------------------------------------------------
(* The pushes.                                                             *)

LEMMA RoutedStep ==
    ASSUME QueueTypeOK, Routed, QueueStep
    PROVE  Routed'
<1> USE QueueAssumption
<1>t. /\ unacked \in [Consumers -> Published \cup {None}]
      /\ strays \subseteq Consumers \X Published \X (1..losses)
  BY DEF QueueTypeOK
<1>1. ASSUME NEW c \in Consumers, Deliver(c)
      PROVE  Routed'
  <2>1. PICK m \in ready : /\ QueueOf[m] = Listens[c]
                           /\ unacked' = [unacked EXCEPT ![c] = m]
    BY <1>1 DEF Deliver, First
  <2> QED
    BY <1>1, <2>1, <1>t DEF Routed, Deliver
<1>2. CASE Dispatch \/ Complete \/ \E m \in Messages : Publish(m)
  BY <1>2 DEF Routed, Dispatch, Complete, Publish
<1>3. CASE Ack \/ Refuse
  BY <1>3, <1>t DEF Routed, Ack, Refuse
<1>4. CASE Lose
  <2>1. \A s \in Abandoned : QueueOf[s[2]] = Listens[s[1]]
    BY StageBusy, CurrentHolds DEF Abandoned, Routed
  <2> QED
    BY <1>4, <2>1 DEF Routed, Lose
<1>5. ASSUME NEW s \in strays, StrayEnds(s) \/ StrayThrows(s)
      PROVE  Routed'
  BY <1>5 DEF Routed, StrayEnds, StrayThrows
<1> QED
  BY <1>1, <1>2, <1>3, <1>4, <1>5 DEF QueueStep

\* A step that counts a handler is the end of one, with all its pushes.
LEMMA CountingPushes ==
    ASSUME QueueTypeOK, Routed, Next, NEW m \in Messages, times'[m] # times[m]
    PROVE  \E c \in Listeners(m) : Push(c, m)
<1> USE QueueAssumption
<1>t. times \in [Messages -> Nat] /\ strays \subseteq Consumers \X Published \X (1..losses)
  BY DEF QueueTypeOK
<1>1. CASE Complete /\ Push(current.consumer, unacked[current.consumer])
  <2>1. current.consumer \in Consumers /\ unacked[current.consumer] \in Messages
        /\ unacked[current.consumer] # None
    BY <1>1, StageBusy, CurrentHolds DEF Complete
  <2>2. m = unacked[current.consumer]
    BY <1>1, <2>1, <1>t DEF Complete
  <2> QED
    BY <1>1, <2>1, <2>2 DEF Routed, Listeners
<1>2. ASSUME NEW s \in strays, StrayEnds(s), Push(s[1], s[2])
      PROVE  \E d \in Listeners(m) : Push(d, m)
  <2>1. m = s[2]
    BY <1>2, <1>t DEF StrayEnds
  <2> QED
    BY <1>2, <2>1, <1>t DEF Routed, Listeners
<1>3. CASE Lose \/ Transport
  BY <1>3 DEF Lose, Transport, Publish, Deliver, Dispatch, Ack, Refuse, StrayThrows
<1> QED
  BY <1>1, <1>2, <1>3 DEF Next

LEMMA PushesStay == Next => pushed \subseteq pushed'
BY DEF Next, Push, PushSome

LEMMA PushedTypeStep ==
    ASSUME TypeOK, Next
    PROVE  pushed' \subseteq Targets \X Messages
<1> USE QueueAssumption
<1>1. ASSUME NEW c \in Consumers, NEW m \in Messages
      PROVE  Reached(c, m) \X {m} \subseteq Targets \X Messages
  BY <1>1 DEF Reached, Wanted, Targets
<1>2. current # Idle => current.consumer \in Consumers /\ unacked[current.consumer] \in Messages
  BY CurrentHolds DEF TypeOK
<1>3. CASE Complete /\ Push(current.consumer, unacked[current.consumer])
  BY <1>1, <1>2, <1>3, StageBusy DEF Complete, Push, TypeOK
<1>4. ASSUME NEW s \in strays, Push(s[1], s[2])
      PROVE  pushed' \subseteq Targets \X Messages
  BY <1>1, <1>4, PublishedMessages DEF Push, TypeOK, QueueTypeOK
<1>5. CASE PushSome
  <2>1. \A s \in strays \cup Abandoned : s[1] \in Consumers /\ s[2] \in Messages
    BY <1>2, StageBusy, PublishedMessages DEF Abandoned, TypeOK, QueueTypeOK
  <2> DEFINE loops == {<<s[1], s[2]>> : s \in strays \cup Abandoned}
  <2>2. PICK sent \in SUBSET UNION {Reached(l[1], l[2]) \X {l[2]} : l \in loops} :
          pushed' = pushed \cup sent
    BY <1>5 DEF PushSome
  <2>3. \A l \in loops : Reached(l[1], l[2]) \X {l[2]} \subseteq Targets \X Messages
    BY <1>1, <2>1
  <2>4. sent \subseteq Targets \X Messages
    BY <2>2, <2>3
  <2> QED
    BY <2>2, <2>4 DEF TypeOK
<1> QED
  BY <1>3, <1>4, <1>5 DEF Next, TypeOK

-------------------------------------------------------------------------------
(* The invariant, and what follows from it.                                *)

LEMMA InvInit == Init => QueueInv /\ Routed /\ Pushed
<1> SUFFICES ASSUME Init
             PROVE  QueueInv /\ Routed /\ Pushed
  OBVIOUS
<1> USE QueueAssumption DEF Init, QueueInit
<1>1. Published = {}
  BY DEF Published
<1>2. TypeOK
  BY <1>1 DEF TypeOK, QueueTypeOK, Idle
<1>3. Dispatchable /\ Exclusive /\ Counted /\ NothingLost /\ Routed /\ Pushed
  BY <1>1 DEF Dispatchable, Exclusive, Counted, NothingLost, Routed, Pushed, Idle
<1>4. ASSUME NEW m \in Messages
      PROVE  Account(m) =< 1 + losses
  <2>1. StraysOf(m) = {} /\ Cardinality(StraysOf(m)) = 0
    BY FS_EmptySet DEF StraysOf
  <2>2. Owed(m) = 0
    BY <1>4 DEF Owed, Outstanding
  <2> QED
    BY <2>1, <2>2 DEF Account
<1> QED
  BY <1>2, <1>3, <1>4, FS_EmptySet DEF QueueInv, Balanced

LEMMA InvStep == QueueInv /\ Routed /\ [Next]_vars => QueueInv' /\ Routed'
<1> SUFFICES ASSUME QueueInv, Routed, [Next]_vars
             PROVE  QueueInv' /\ Routed'
  OBVIOUS
<1>1. CASE Next
  <2>1. QueueStep
    BY <1>1 DEF Next, QueueStep, Transport
  <2>2. TypeOK'
    BY <1>1, <2>1, QueueTypeStep, PushedTypeStep DEF QueueInv, TypeOK
  <2>3. Dispatchable' /\ Exclusive' /\ Counted'
    BY <2>1, DispatchableStep, ExclusiveStep, CountedStep DEF QueueInv, TypeOK
  <2>4. Balanced' /\ NothingLost' /\ Routed'
    BY <2>1, BalancedStep, NothingLostStep, RoutedStep DEF QueueInv, TypeOK
  <2> QED
    BY <2>2, <2>3, <2>4 DEF QueueInv
<1>2. CASE UNCHANGED vars
  <2> USE <1>2 DEF vars, queueVars
  <2>1. TypeOK' /\ Dispatchable' /\ Exclusive' /\ Counted' /\ NothingLost' /\ Routed'
    BY DEF QueueInv, TypeOK, QueueTypeOK, Dispatchable, Exclusive, Counted, NothingLost,
           Routed, Published, Idle
  <2>2. Balanced'
    BY BalancedUnchanged DEF QueueInv, TypeOK, Outstanding, Ended
  <2> QED
    BY <2>1, <2>2 DEF QueueInv
<1> QED
  BY <1>1, <1>2

\* The state of the queues and of the pushes is always well formed.
THEOREM TypeCorrect == Spec => []TypeOK
<1>1. QueueInv /\ Routed => TypeOK
  BY DEF QueueInv
<1> QED
  BY <1>1, InvInit, InvStep, PTL DEF Spec

\* A published message is at the broker, with a service, or handled: a handler
\* that throws, a lost connection or a restart never loses one.
THEOREM NothingIsLost == Spec => []NothingLost
<1>1. QueueInv /\ Routed => NothingLost
  BY DEF QueueInv
<1> QED
  BY <1>1, InvInit, InvStep, PTL DEF Spec

\* The handlers of a message run to the end at most once more than connections
\* are lost: a refusal alone repeats nothing that was done.
THEOREM RepeatsAreBounded == Spec => []RepeatsNeedLosses
<1>1. QueueInv => RepeatsNeedLosses
  <2> SUFFICES ASSUME QueueInv, NEW m \in Messages
               PROVE  times[m] =< 1 + losses
    BY DEF RepeatsNeedLosses
  <2> QED
    BY AccountTypes, OwedTypes DEF QueueInv, TypeOK
<1> QED
  BY <1>1, InvInit, InvStep, PTL DEF Spec

\* If every service has its queue for itself, a message that is done with was
\* pushed to every integration that wants it and answers.
THEOREM OneListenerSendsEverywhere ==
    ASSUME \A c, d \in Consumers : Listens[c] = Listens[d] => c = d
    PROVE  Spec => []SentEverywhere
<1>1. QueueInv /\ Routed /\ Pushed /\ [Next]_vars => Pushed'
  <2> SUFFICES ASSUME QueueInv, Routed, Pushed, [Next]_vars,
                      NEW m \in Messages, NEW c \in Listeners(m), times'[m] > 0
               PROVE  Reached(c, m) \X {m} \subseteq pushed'
    BY DEF Pushed, Listeners, Reached, Wanted
  <2>1. CASE times'[m] = times[m]
    BY <2>1, PushesStay DEF Pushed, vars
  <2>2. CASE times'[m] # times[m]
    <3>1. PICK d \in Listeners(m) : Push(d, m)
      BY <2>2, CountingPushes DEF QueueInv, TypeOK, vars, queueVars
    <3>2. d = c
      BY DEF Listeners
    <3> QED
      BY <3>1, <3>2 DEF Push
  <2> QED
    BY <2>1, <2>2
<1>2. QueueInv /\ Routed /\ Pushed => SentEverywhere
  <2> SUFFICES ASSUME QueueInv, Pushed, NEW m \in Messages, Settled(m),
                      NEW c \in Listeners(m), NEW i \in Enabled[c] \ Unreachable
               PROVE  <<i, m>> \in pushed \cup Unwanted
    BY DEF SentEverywhere
  <2>1. times[m] > 0
    BY DEF QueueInv, NothingLost, Settled
  <2> QED
    BY <2>1 DEF Pushed, Reached, Wanted
<1> QED
  BY <1>1, <1>2, InvInit, InvStep, PTL DEF Spec

-------------------------------------------------------------------------------
(* Order.  What holds of the messages that were handled must hold of those *)
(* on their way to a handler too.                                          *)

Touched(n) ==
    \/ times[n] > 0
    \/ \E c \in Consumers : unacked[c] = n
    \/ \E s \in strays : s[2] = n

OneListener(q) == Cardinality({c \in Consumers : Listens[c] = q}) = 1

\* Nothing gets to a handler before what was published earlier to the same
\* queue has been handled.
Ordered ==
    \A m, n \in Published :
        IsBefore(m, n) /\ QueueOf[m] = QueueOf[n] /\ OneListener(QueueOf[m]) /\ Touched(n)
        => times[m] > 0

LEMMA OneListenerIsAlone ==
    ASSUME NEW q, OneListener(q), NEW c \in Consumers, NEW d \in Consumers,
           Listens[c] = q, Listens[d] = q
    PROVE  c = d
<1> DEFINE S == {e \in Consumers : Listens[e] = q}
<1>1. IsFiniteSet(S)
  BY QueueAssumption, FS_Subset
<1>2. Cardinality(S) = 1
  BY DEF OneListener
<1> HIDE DEF S
<1>3. PICK x : S = {x}
  BY <1>1, <1>2, FS_Singleton
<1> QED
  BY <1>3 DEF S

\* A step that only takes messages further keeps their order.
LEMMA OrderedStays ==
    ASSUME Ordered, QueueTypeOK, UNCHANGED log,
           \A n \in Messages : Touched(n)' => Touched(n),
           \A n \in Messages : times[n] > 0 => times'[n] > 0
    PROVE  Ordered'
<1>1. Published' = Published /\ Published \subseteq Messages
  BY PublishedMessages DEF Published, QueueTypeOK
<1>2. \A m, n : IsBefore(m, n)' => IsBefore(m, n)
  BY DEF IsBefore
<1> QED
  BY <1>1, <1>2 DEF Ordered, OneListener

\* Requeueing is no publication.
PublishedOnce == \A i, j \in DOMAIN log : log[i] = log[j] => i = j

LEMMA PublishedOnceStep ==
    ASSUME QueueTypeOK, PublishedOnce, QueueStep
    PROVE  PublishedOnce'
<1>1. ASSUME NEW k \in Messages, Publish(k) PROVE PublishedOnce'
  <2>1. /\ DOMAIN log' = 1..(Len(log) + 1) /\ DOMAIN log = 1..Len(log) /\ Len(log) \in Nat
        /\ \A i \in DOMAIN log : log'[i] = log[i]
        /\ log'[Len(log) + 1] = k
    BY <1>1 DEF Publish, QueueTypeOK
  <2>2. \A i \in DOMAIN log : log[i] # k
    BY <1>1 DEF Publish, Published
  <2> QED
    BY <2>1, <2>2 DEF PublishedOnce
<1>2. CASE UNCHANGED log
  BY <1>2 DEF PublishedOnce
<1>3. (\E k \in Messages : Publish(k)) \/ UNCHANGED log
  BY DEF QueueStep, Deliver, Dispatch, Ack, Refuse, Complete, Lose, StrayEnds, StrayThrows
<1> QED
  BY <1>1, <1>2, <1>3

\* What was published once is ahead of all that was published after it.
LEMMA BeforeIsAhead ==
    ASSUME PublishedOnce, NEW m, NEW n, IsBefore(m, n)
    PROVE  Ahead(m, n)
<1>1. PICK i \in DOMAIN log, j \in DOMAIN log : i < j /\ log[i] = m /\ log[j] = n
  BY DEF IsBefore
<1>2. \A k \in DOMAIN log : log[k] = m => k = i
  BY <1>1 DEF PublishedOnce
<1> QED
  BY <1>1, <1>2 DEF Ahead

LEMMA OrderedStep ==
    ASSUME QueueTypeOK, Counted, NothingLost, Routed, PublishedOnce, Ordered, QueueStep
    PROVE  Ordered'
<1> USE QueueAssumption
<1>t. /\ times \in [Messages -> Nat] /\ Published \subseteq Messages
      /\ unacked \in [Consumers -> Published \cup {None}] /\ ready \subseteq Published
      /\ strays \subseteq Consumers \X Published \X (1..losses) /\ log \in Seq(Messages)
  BY PublishedMessages DEF QueueTypeOK
<1>1. ASSUME NEW k \in Messages, Publish(k) PROVE Ordered'
  <2>1. Published' = Published \cup {k} /\ k \notin Published
    BY <1>1, LogGrows DEF QueueTypeOK, Publish
  <2>2. UNCHANGED <<times, unacked, strays>>
    BY <1>1 DEF Publish
  <2>3. ~Touched(k)'
    BY <2>1, <2>2, <1>t DEF Touched, Counted
  <2>4. ASSUME NEW m, NEW n \in Published, IsBefore(m, n)'
        PROVE  IsBefore(m, n) /\ m \in Published
    <3>1. /\ DOMAIN log' = 1..(Len(log) + 1) /\ DOMAIN log = 1..Len(log) /\ Len(log) \in Nat
          /\ \A i \in DOMAIN log : log'[i] = log[i]
          /\ log'[Len(log) + 1] = k
      BY <1>1, <1>t DEF Publish
    <3>2. PICK i \in DOMAIN log', j \in DOMAIN log' : i < j /\ log'[i] = m /\ log'[j] = n
      BY <2>4 DEF IsBefore
    <3>3. j # Len(log) + 1
      BY <2>1, <3>1, <3>2
    <3>4. i \in DOMAIN log /\ j \in DOMAIN log
      BY <3>1, <3>2, <3>3
    <3> QED
      BY <3>1, <3>2, <3>4 DEF IsBefore, Published
  <2>5. \A n \in Published : Touched(n)' => Touched(n)
    BY <2>2 DEF Touched
  <2> QED
    BY <2>1, <2>2, <2>3, <2>4, <2>5 DEF Ordered, OneListener
<1>2. ASSUME NEW c \in Consumers, Deliver(c) PROVE Ordered'
  <2>1. PICK k \in First(Listens[c]) : unacked' = [unacked EXCEPT ![c] = k]
    BY <1>2 DEF Deliver
  <2>2. /\ k \in ready /\ QueueOf[k] = Listens[c] /\ unacked[c] = None
        /\ \A n \in ready : QueueOf[n] = Listens[c] => ~Ahead(n, k)
        /\ UNCHANGED <<times, strays, log>>
    BY <1>2, <2>1 DEF First, Deliver
  <2>3. Published' = Published /\ \A m, n : IsBefore(m, n)' => IsBefore(m, n)
    BY <2>2 DEF Published, IsBefore
  <2>4. ASSUME NEW m \in Published, IsBefore(m, k), QueueOf[m] = QueueOf[k],
               OneListener(QueueOf[m])
        PROVE  times[m] > 0
    <3>1. m \notin ready
      BY <2>2, <2>4, BeforeIsAhead
    <3>2. ASSUME NEW d \in Consumers, unacked[d] = m PROVE FALSE
      <4>1. Listens[d] = QueueOf[m] /\ Listens[c] = QueueOf[m]
        BY <2>2, <2>4, <3>2, <1>t DEF Routed
      <4>2. d = c
        BY <2>4, <4>1, OneListenerIsAlone
      <4> QED
        BY <2>2, <3>2, <4>2, <1>t
    <3> QED
      BY <3>1, <3>2 DEF NothingLost
  <2>5. \A n \in Published : Touched(n)' => n = k \/ Touched(n)
    BY <2>1, <2>2, <1>t DEF Touched
  <2> QED
    BY <2>2, <2>3, <2>4, <2>5 DEF Ordered, OneListener
<1>3. CASE Dispatch
  BY <1>3, OrderedStays DEF Dispatch, Touched
<1>4. CASE Ack \/ Refuse
  <2>1. /\ UNCHANGED <<log, times, strays>>
        /\ \A c \in Consumers : unacked'[c] = unacked[c] \/ unacked'[c] = None
    BY <1>4, <1>t DEF Ack, Refuse
  <2>2. \A n \in Messages : Touched(n)' => Touched(n)
    BY <2>1 DEF Touched
  <2> QED
    BY <2>1, <2>2, OrderedStays
<1>5. CASE Complete
  <2>1. PICK k \in Messages, c \in Consumers : k = unacked[c] /\ c = current.consumer
    BY <1>5, StageBusy, CurrentHolds DEF Complete
  <2>2. UNCHANGED <<log, unacked, strays>> /\ times' = [times EXCEPT ![k] = @ + 1]
    BY <1>5, <2>1 DEF Complete
  <2>3. \A n \in Messages : /\ times[n] > 0 => times'[n] > 0
                            /\ times'[n] > 0 => times[n] > 0 \/ n = k
    BY <2>2, <1>t
  <2>4. \A n \in Messages : Touched(n)' => Touched(n)
    BY <2>1, <2>2, <2>3 DEF Touched
  <2> QED
    BY <2>2, <2>3, <2>4, OrderedStays
<1>6. CASE Lose
  <2>1. UNCHANGED <<log, times>> /\ unacked' = [c \in Consumers |-> None]
        /\ strays' \subseteq strays \cup Abandoned
    BY <1>6 DEF Lose
  <2>2. \A s \in Abandoned : \E c \in Consumers : unacked[c] = s[2]
    BY StageBusy, CurrentHolds DEF Abandoned
  <2>3. \A n \in Messages : Touched(n)' => Touched(n)
    BY <2>1, <2>2, <1>t DEF Touched
  <2> QED
    BY <2>1, <2>3, OrderedStays
<1>7. ASSUME NEW s \in strays, StrayEnds(s) \/ StrayThrows(s) PROVE Ordered'
  <2>1. /\ UNCHANGED <<log, unacked>> /\ strays' \subseteq strays
        /\ times' = times \/ times' = [times EXCEPT ![s[2]] = @ + 1]
    BY <1>7 DEF StrayEnds, StrayThrows
  <2>2. \A n \in Messages : /\ times[n] > 0 => times'[n] > 0
                            /\ times'[n] > 0 => times[n] > 0 \/ n = s[2]
    BY <2>1, <1>t
  <2>3. \A n \in Messages : Touched(n)' => Touched(n)
    BY <2>1, <2>2 DEF Touched
  <2> QED
    BY <2>1, <2>2, <2>3, OrderedStays
<1> QED
  BY <1>1, <1>2, <1>3, <1>4, <1>5, <1>6, <1>7 DEF QueueStep

\* A queue that one service listens to is handled in the order of publication,
\* however handlers throw, bodies do not decode and connections break.
THEOREM HandledInOrder == Spec => []InOrder
<1>1. Init => PublishedOnce /\ Ordered
  <2> SUFFICES ASSUME Init PROVE log = <<>> /\ Published = {}
    BY DEF Ordered, PublishedOnce
  <2> QED
    BY DEF Init, QueueInit, Published
<1>2. QueueInv /\ Routed /\ PublishedOnce /\ Ordered /\ [Next]_vars
      => PublishedOnce' /\ Ordered'
  <2> SUFFICES ASSUME QueueInv, Routed, PublishedOnce, Ordered, [Next]_vars
               PROVE  PublishedOnce' /\ Ordered'
    OBVIOUS
  <2>1. CASE QueueStep
    BY <2>1, PublishedOnceStep, OrderedStep DEF QueueInv, TypeOK
  <2>2. CASE UNCHANGED queueVars
    <3>1. PublishedOnce'
      BY <2>2 DEF PublishedOnce, queueVars
    <3> QED
      BY <2>2, <3>1, OrderedStays DEF QueueInv, TypeOK, queueVars, Touched
  <2> QED
    BY <2>1, <2>2, StepOfQueues DEF vars
<1>3. Ordered => InOrder
  BY DEF Ordered, InOrder, Touched, OneListener
<1> QED
  BY <1>1, <1>2, <1>3, InvInit, InvStep, PTL DEF Spec
===============================================================================
