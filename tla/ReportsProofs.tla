----------------------------- MODULE ReportsProofs -----------------------------
(***************************************************************************)
(* Reports, for every number of reports, mails, handlers and faults:       *)
(* attachments that are listed can be fetched, users are told the truth    *)
(* about their mails, and what was generated undisturbed can be sent.      *)
(***************************************************************************)
EXTENDS Reports, FiniteSetTheorems, TLAPS

-------------------------------------------------------------------------------
(* The types: what a handler at each stage works on.                       *)

Generating == {"load", "upload", "attach", "announce"}
Mailing == {"find", "fetch", "send", "delivered", "signal", "failed", "signalFailure"}

Handling ==
    [stage : Stages, queue : Queues, job : Reports \cup Mails, file : 0..written]

\* A generation only passes through the stages of a generation.
Fits(l) ==
    /\ l.stage \in Generating => l.queue = "generation"
    /\ l.stage \in Mailing => l.queue = "emails"
    /\ l.stage = "attach" => l.file > 0
    /\ l.job \in (IF l.queue = "emails" THEN Mails ELSE Reports)

RowsTyped ==
    /\ creating \subseteq Reports /\ reports \subseteq Reports
    /\ gone \subseteq Reports /\ asked \subseteq Reports \cup Mails
    /\ written \in Nat
    /\ attachments \subseteq [report : Reports, file : 1..written]
    /\ files \subseteq 1..written
    /\ deleting \subseteq [report : Reports, files : SUBSET (1..written)]

QueuesTyped ==
    /\ queue \in [Queues -> Seq(Reports \cup Mails)]
    /\ queue["generation"] \in Seq(Reports)
    /\ queue["emails"] \in Seq(Mails)

WorkTyped ==
    /\ work \in [Workers -> Handling \cup {Resting}]
    /\ \A w \in Workers : work[w] # Resting => Fits(work[w])

\* The broker's delivery is the head of a queue, and its handler works on it.
HeadHeld ==
    /\ holder \in Workers \cup {None}
    /\ holder # None => /\ work[holder] # Resting
                        /\ queue[work[holder].queue] # <<>>
                        /\ Head(queue[work[holder].queue]) = work[holder].job

HistoryTyped ==
    /\ sent \in [Mails -> Nat]
    /\ told \in [Reports \cup Mails -> [Topics -> Nat]]
    /\ faults \in 0..MaxFaults

TypeInv ==
    /\ RowsTyped /\ QueuesTyped /\ WorkTyped /\ HeadHeld /\ HistoryTyped
    /\ interrupted \in BOOLEAN

LEMMA InitTyped == Init => TypeInv
<1> SUFFICES ASSUME Init PROVE TypeInv
  OBVIOUS
<1>1. RowsTyped /\ WorkTyped /\ HeadHeld
  BY DEF Init, RowsTyped, WorkTyped, HeadHeld
<1>2. QueuesTyped
  BY DEF Init, QueuesTyped, Queues
<1>3. HistoryTyped
  <2>1. told \in [Reports \cup Mails -> [Topics -> Nat]] /\ sent \in [Mails -> Nat]
    BY DEF Init
  <2>2. faults \in 0..MaxFaults
    BY ReportsAssumption DEF Init
  <2> QED
    BY <2>1, <2>2 DEF HistoryTyped
<1> QED
  BY <1>1, <1>2, <1>3 DEF TypeInv, Init

\* A handler that is at a stage is at work.
LEMMA Working ==
    ASSUME WorkTyped, NEW w \in Workers
    PROVE  /\ work[w] = Resting <=> work[w].stage = "idle"
           /\ work[w] # Resting =>
                /\ work[w] \in Handling /\ Fits(work[w])
                /\ work[w].stage \in Stages /\ work[w].queue \in Queues
                /\ work[w].file \in 0..written
                /\ work[w].queue = "generation" => work[w].job \in Reports
                /\ work[w].queue = "emails" => work[w].job \in Mails
BY DEF WorkTyped, Handling, Resting, Stages, Fits, Queues

LEMMA TypesHold == TypeInv => TypeOK
<1> SUFFICES ASSUME TypeInv PROVE TypeOK
  OBVIOUS
<1>1. \A w \in Workers : work[w] # Resting =>
          /\ work[w].stage \in Stages
          /\ work[w].job \in (IF work[w].queue = "emails" THEN Mails ELSE Reports)
          /\ work[w].file \in 0..written
  BY Working DEF TypeInv, Fits
<1> QED
  BY <1>1 DEF TypeInv, RowsTyped, QueuesTyped, HeadHeld, HistoryTyped, TypeOK

\* A handler that gets on with its message.
LEMMA GoesOn ==
    ASSUME TypeInv, NEW w \in Workers, work[w] # Resting, NEW l,
           written' \in Nat, written =< written',
           l \in Handling', Fits(l), work' = [work EXCEPT ![w] = l],
           l.queue = work[w].queue, l.job = work[w].job, UNCHANGED queueVars
    PROVE  WorkTyped' /\ HeadHeld' /\ QueuesTyped'
<1>1. Handling \subseteq Handling'
  BY DEF Handling, TypeInv, RowsTyped
<1>2. l # Resting
  BY DEF Handling, Resting, Stages
<1>3. WorkTyped'
  BY <1>1, <1>2 DEF TypeInv, WorkTyped
<1> QED
  BY <1>2, <1>3 DEF TypeInv, WorkTyped, HeadHeld, QueuesTyped, queueVars

LEMMA MovesOn ==
    ASSUME TypeInv, NEW w \in Workers, NEW stage \in Stages, work[w] # Resting,
           Fits([work[w] EXCEPT !.stage = stage]), GoTo(w, stage),
           UNCHANGED <<written, queueVars>>
    PROVE  WorkTyped' /\ HeadHeld' /\ QueuesTyped'
<1> DEFINE l == [work[w] EXCEPT !.stage = stage]
<1>1. l \in Handling /\ l.queue = work[w].queue /\ l.job = work[w].job
  BY Working DEF TypeInv, Handling
<1>2. l \in Handling' /\ written' \in Nat /\ written =< written'
  BY <1>1 DEF Handling, TypeInv, RowsTyped
<1>3. work' = [work EXCEPT ![w] = l]
  BY DEF GoTo
<1> HIDE DEF l
<1> QED
  BY <1>1, <1>2, <1>3, GoesOn DEF l

\* A handler that ends; the queues keep what it held.
LEMMA Ends ==
    ASSUME TypeInv, NEW w \in Workers, work[w] # Resting,
           work' = [work EXCEPT ![w] = Resting], Free(w), UNCHANGED <<written, queue>>
    PROVE  WorkTyped' /\ HeadHeld' /\ QueuesTyped'
<1>1. WorkTyped' /\ QueuesTyped'
  BY DEF TypeInv, WorkTyped, QueuesTyped, Handling, Fits
<1>2. HeadHeld'
  BY DEF TypeInv, WorkTyped, HeadHeld, Free
<1> QED
  BY <1>1, <1>2

LEMMA Told ==
    ASSUME HistoryTyped, NEW x \in Reports \cup Mails, NEW topic \in Topics, Tell(x, topic)
    PROVE  /\ told' \in [Reports \cup Mails -> [Topics -> Nat]]
           /\ told'[x][topic] = told[x][topic] + 1
           /\ \A y \in Reports \cup Mails, t \in Topics :
                 <<y, t>> # <<x, topic>> => told'[y][t] = told[y][t]
BY DEF HistoryTyped, Tell

LEMMA FaultTyped ==
    ASSUME HistoryTyped, NEW kind, Fault(kind)
    PROVE  faults' \in 0..MaxFaults
BY ReportsAssumption DEF HistoryTyped, Fault

LEMMA Appended ==
    ASSUME NEW S, NEW s \in Seq(S), NEW x \in S
    PROVE  /\ Append(s, x) \in Seq(S) /\ Append(s, x) # <<>>
           /\ s # <<>> => Head(Append(s, x)) = Head(s)
           /\ DOMAIN Append(s, x) = 1..Len(s) + 1 /\ DOMAIN s = 1..Len(s)
           /\ Len(s) \in Nat /\ Append(s, x)[Len(s) + 1] = x
           /\ \A n \in DOMAIN s : Append(s, x)[n] = s[n]
<1>1. /\ Append(s, x) \in Seq(S) /\ Len(Append(s, x)) = Len(s) + 1
      /\ Append(s, x)[Len(s) + 1] = x
      /\ \A n \in 1..Len(s) : Append(s, x)[n] = s[n]
      /\ Len(s) \in Nat /\ DOMAIN s = 1..Len(s)
  OBVIOUS
<1>2. DOMAIN Append(s, x) = 1..Len(s) + 1 /\ Append(s, x) # <<>>
  BY <1>1
<1>3. ASSUME s # <<>> PROVE Head(Append(s, x)) = Head(s)
  BY <1>1, <1>2, <1>3
<1> QED
  BY <1>1, <1>2, <1>3

\* A message goes to the end of a queue.
LEMMA QueueGrows ==
    ASSUME TypeInv, NEW q \in Queues, NEW x,
           x \in (IF q = "emails" THEN Mails ELSE Reports),
           queue' = [queue EXCEPT ![q] = Append(@, x)],
           UNCHANGED <<holder, work, written>>
    PROVE  QueuesTyped' /\ HeadHeld' /\ WorkTyped'
<1>1. /\ queue[q] \in Seq(Reports \cup Mails)
      /\ queue[q] \in Seq(IF q = "emails" THEN Mails ELSE Reports)
      /\ x \in Reports \cup Mails
  BY DEF TypeInv, QueuesTyped, Queues
<1>2. /\ Append(queue[q], x) \in Seq(Reports \cup Mails)
      /\ Append(queue[q], x) \in Seq(IF q = "emails" THEN Mails ELSE Reports)
      /\ Append(queue[q], x) # <<>>
      /\ queue[q] # <<>> => Head(Append(queue[q], x)) = Head(queue[q])
  <2> DEFINE S == IF q = "emails" THEN Mails ELSE Reports
  <2>1. x \in S /\ queue[q] \in Seq(S)
    BY <1>1
  <2> HIDE DEF S
  <2>2. Append(queue[q], x) \in Seq(S)
    BY <2>1, Appended
  <2> QED
    BY <1>1, <2>2, Appended DEF S
<1>3. QueuesTyped'
  BY <1>2 DEF TypeInv, QueuesTyped, Queues
<1>4. WorkTyped'
  BY DEF TypeInv, WorkTyped, Handling
<1>5. HeadHeld'
  <2>1. queue' = [queue EXCEPT ![q] = Append(queue[q], x)]
    OBVIOUS
  <2>2. \A p \in Queues : queue[p] # <<>> =>
            queue'[p] # <<>> /\ Head(queue'[p]) = Head(queue[p])
    BY <1>2, <2>1 DEF TypeInv, QueuesTyped
  <2>3. holder # None => work[holder].queue \in Queues
    BY Working DEF TypeInv, HeadHeld
  <2> QED
    BY <2>2, <2>3 DEF TypeInv, HeadHeld
<1> QED
  BY <1>3, <1>4, <1>5

LEMMA DeliverTyped ==
    ASSUME TypeInv, NEW w \in Workers, NEW q \in Queues, Deliver(w, q)
    PROVE  TypeInv'
<1> DEFINE l == [stage |-> IF q = "emails" THEN "find" ELSE "load",
                 queue |-> q, job |-> Head(queue[q]), file |-> 0]
<1>1. work' = [work EXCEPT ![w] = l] /\ holder' = w /\ queue[q] # <<>> /\ queue' = queue
  BY DEF Deliver
<1>2. /\ Head(queue[q]) \in Reports \cup Mails
      /\ Head(queue[q]) \in (IF q = "emails" THEN Mails ELSE Reports)
  BY <1>1 DEF TypeInv, QueuesTyped, Queues
<1>3. l \in Handling /\ Fits(l)
  BY <1>2 DEF Handling, Stages, Fits, Queues, Generating, Mailing, TypeInv, RowsTyped
<1>4. l.queue = q /\ l.job = Head(queue[q]) /\ l # Resting
  BY <1>3 DEF Resting, Handling, Stages
<1> HIDE DEF l
<1>5. WorkTyped'
  BY <1>1, <1>3 DEF TypeInv, WorkTyped, Handling, Deliver, rowVars
<1>6. HeadHeld'
  BY <1>1, <1>4 DEF TypeInv, WorkTyped, HeadHeld
<1>7. RowsTyped' /\ QueuesTyped'
  BY DEF TypeInv, RowsTyped, QueuesTyped, Deliver, rowVars
<1>8. HistoryTyped'
  BY DEF TypeInv, HistoryTyped, Deliver
<1> QED
  BY <1>5, <1>6, <1>7, <1>8 DEF TypeInv, Deliver

LEMMA AckTyped ==
    ASSUME TypeInv, NEW w \in Workers, Ack(w)
    PROVE  TypeInv'
<1>1. /\ work[w] # Resting /\ work[w].queue \in Queues
      /\ queue[work[w].queue] \in Seq(Reports \cup Mails)
  BY Working DEF TypeInv, QueuesTyped, Ack, At, Resting
<1>2. RowsTyped' /\ HistoryTyped' /\ interrupted' \in BOOLEAN
  BY DEF TypeInv, RowsTyped, HistoryTyped, Ack, rowVars
<1>3. CASE holder = w
  <2>1. /\ queue' = [queue EXCEPT ![work[w].queue] = Tail(@)] /\ holder' = None
        /\ queue[work[w].queue] # <<>>
    BY <1>3, ReportsAssumption DEF Ack, Free, TypeInv, HeadHeld
  <2>2. QueuesTyped'
    BY <1>1, <2>1 DEF TypeInv, QueuesTyped, Queues
  <2>3. WorkTyped' /\ HeadHeld'
    BY <2>1 DEF TypeInv, WorkTyped, HeadHeld, Ack, Handling, rowVars
  <2> QED
    BY <1>2, <2>2, <2>3 DEF TypeInv
<1>4. CASE holder # w
  BY <1>1, <1>2, <1>4, Ends DEF TypeInv, Ack, Free, rowVars
<1> QED
  BY <1>3, <1>4

\* The stages a handler may go to from where it is.
Successors(l) ==
    CASE l.stage = "load" -> {"upload", "ack"}
      [] l.stage = "announce" -> {"ack"}
      [] l.stage = "fetch" -> {"send", "failed"}
      [] l.stage = "find" -> {"failed"}
      [] l.stage = "send" -> {"delivered", "failed"}
      [] l.stage = "delivered" -> {"signal"}
      [] l.stage = "signal" -> {"ack", "failed"}
      [] l.stage = "failed" -> {"signalFailure"}
      [] l.stage = "signalFailure" -> {"ack"}
      [] OTHER -> {}

LEMMA MoveTyped ==
    ASSUME TypeInv, NEW w \in Workers, work[w] # Resting,
           NEW stage \in Successors(work[w]) \cup {"ack"}, GoTo(w, stage),
           UNCHANGED <<rowVars, queueVars>>
    PROVE  RowsTyped' /\ WorkTyped' /\ HeadHeld' /\ QueuesTyped'
<1>1. work[w] \in Handling /\ Fits(work[w])
  BY Working DEF TypeInv
<1>2. stage \in Stages
  BY DEF Successors, Stages
<1>3. [work[w] EXCEPT !.stage = stage].stage = stage
      /\ [work[w] EXCEPT !.stage = stage].queue = work[w].queue
      /\ [work[w] EXCEPT !.stage = stage].job = work[w].job
  BY <1>1 DEF Handling
<1>4. Fits([work[w] EXCEPT !.stage = stage])
  BY <1>1, <1>3 DEF Fits, Successors, Generating, Mailing
<1>5. RowsTyped'
  BY DEF TypeInv, RowsTyped, rowVars
<1> QED
  BY <1>2, <1>4, <1>5, MovesOn DEF rowVars

LEMMA FindTyped ==
    ASSUME TypeInv, NEW w \in Workers, FindAttachment(w)
    PROVE  TypeInv'
<1>1. work[w] # Resting
  BY DEF FindAttachment, At, Resting
<1>2. RowsTyped' /\ HistoryTyped' /\ interrupted' \in BOOLEAN
  BY DEF TypeInv, RowsTyped, HistoryTyped, FindAttachment, rowVars
<1>3. CASE GoTo(w, "failed")
  <2>1. "failed" \in Successors(work[w])
    BY DEF FindAttachment, At, Successors
  <2> QED
    BY <1>1, <1>2, <1>3, <2>1, MoveTyped DEF TypeInv, FindAttachment
<1>4. CASE ~GoTo(w, "failed")
  <2> DEFINE found == AttachmentsOf(ReportOf[work[w].job])
             a == CHOOSE x \in found : TRUE
             l == [work[w] EXCEPT !.stage = "fetch", !.file = a.file]
  <2>1. Cardinality(found) = 1 /\ work' = [work EXCEPT ![w] = l]
    BY <1>4 DEF FindAttachment
  <2>2. found # {}
    BY <2>1, FS_EmptySet
  <2>3. a \in attachments
    BY <2>2 DEF AttachmentsOf
  <2>4. a.file \in 0..written
    BY <2>3 DEF TypeInv, RowsTyped
  <2>5. work[w] \in Handling /\ Fits(work[w]) /\ work[w].stage = "find"
    BY <1>1, Working DEF TypeInv, FindAttachment, At
  <2> HIDE DEF a
  <2>6. l \in Handling /\ Fits(l) /\ l.queue = work[w].queue /\ l.job = work[w].job
    BY <2>4, <2>5 DEF Handling, Stages, Fits, Generating, Mailing
  <2> HIDE DEF l
  <2>7. l \in Handling' /\ written' \in Nat /\ written =< written'
    BY <2>6 DEF Handling, FindAttachment, rowVars, TypeInv, RowsTyped
  <2> QED
    BY <1>1, <1>2, <2>1, <2>6, <2>7, GoesOn DEF TypeInv, FindAttachment
<1> QED
  BY <1>3, <1>4

LEMMA SaveFileTyped ==
    ASSUME TypeInv, NEW w \in Workers, SaveFile(w)
    PROVE  TypeInv'
<1>1. work[w] # Resting /\ work[w].stage = "upload"
  BY DEF SaveFile, At, Resting
<1>2. CASE Fault("storage") /\ GoTo(w, "ack") /\ UNCHANGED <<written, files>>
  <2>1. RowsTyped' /\ WorkTyped' /\ HeadHeld' /\ QueuesTyped'
    BY <1>1, <1>2, MoveTyped DEF SaveFile, rowVars
  <2> QED
    BY <1>2, <2>1, FaultTyped DEF TypeInv, HistoryTyped, SaveFile
<1>3. CASE ~(Fault("storage") /\ GoTo(w, "ack") /\ UNCHANGED <<written, files>>)
  <2> DEFINE l == [work[w] EXCEPT !.stage = "attach", !.file = written + 1]
  <2>1. /\ written' = written + 1 /\ files' = files \cup {written + 1}
        /\ work' = [work EXCEPT ![w] = l] /\ UNCHANGED faults
    BY <1>3 DEF SaveFile
  <2>2. written \in Nat
    BY DEF TypeInv, RowsTyped
  <2>3. work[w] \in Handling /\ Fits(work[w])
    BY <1>1, Working DEF TypeInv
  <2>4. l \in Handling' /\ Fits(l) /\ l.queue = work[w].queue /\ l.job = work[w].job
    <3>1. written + 1 \in 0..written' /\ written + 1 > 0
      BY <2>1, <2>2
    <3> QED
      BY <1>1, <2>3, <3>1 DEF Handling, Stages, Fits, Generating, Mailing
  <2> HIDE DEF l
  <2>5. WorkTyped' /\ HeadHeld' /\ QueuesTyped'
    <3>1. written' \in Nat /\ written =< written'
      BY <2>1, <2>2
    <3> QED
      BY <1>1, <2>1, <2>4, <3>1, GoesOn DEF SaveFile
  <2>6. 1..written \subseteq 1..written' /\ written + 1 \in 1..written' /\ written' \in Nat
    BY <2>1, <2>2
  <2>7. RowsTyped'
    <3>1. files' \subseteq 1..written'
      BY <2>1, <2>6 DEF TypeInv, RowsTyped
    <3>2. attachments' \subseteq [report : Reports, file : 1..written']
      BY <2>6 DEF TypeInv, RowsTyped, SaveFile
    <3>3. deleting' \subseteq [report : Reports, files : SUBSET (1..written')]
      <4>1. deleting' = deleting /\ SUBSET (1..written) \subseteq SUBSET (1..written')
        BY <2>6 DEF SaveFile
      <4> QED
        BY <4>1 DEF TypeInv, RowsTyped
    <3> QED
      BY <2>6, <3>1, <3>2, <3>3 DEF TypeInv, RowsTyped, SaveFile
  <2> QED
    BY <2>1, <2>5, <2>7 DEF TypeInv, HistoryTyped, SaveFile
<1> QED
  BY <1>2, <1>3

LEMMA SaveRowTyped ==
    ASSUME TypeInv, NEW w \in Workers, SaveRow(w)
    PROVE  TypeInv'
<1>1. /\ work[w] # Resting /\ work[w] \in Handling /\ Fits(work[w])
      /\ work[w].stage = "attach"
  BY Working DEF SaveRow, At, Resting, TypeInv
<1>2. work[w].job \in Reports /\ work[w].file \in 1..written
  BY <1>1 DEF Fits, Handling, Generating, TypeInv, RowsTyped
<1>3. RowsTyped'
  BY <1>2 DEF TypeInv, RowsTyped, SaveRow
<1>4. HistoryTyped'
  BY <1>2, Told DEF TypeInv, HistoryTyped, SaveRow, Topics
<1>5. Fits([work[w] EXCEPT !.stage = "announce"])
  BY <1>1 DEF Handling, Fits, Generating, Mailing
<1>6. WorkTyped' /\ HeadHeld' /\ QueuesTyped'
  BY <1>1, <1>5, MovesOn DEF SaveRow, Stages
<1> QED
  BY <1>3, <1>4, <1>6 DEF TypeInv, SaveRow

\* The steps of a handler that touch neither a row nor a file.
LEMMA HandlerTyped ==
    ASSUME TypeInv, NEW w \in Workers,
           \/ Load(w) \/ AnnounceReport(w) \/ FetchFile(w) \/ SendMail(w)
           \/ TellDelivered(w) \/ SignalDelivered(w) \/ TellFailed(w) \/ SignalFailed(w)
    PROVE  TypeInv'
<1>1. /\ work[w] # Resting /\ work[w] \in Handling /\ Fits(work[w])
      /\ UNCHANGED <<rowVars, queue, interrupted>>
  BY Working DEF Load, AnnounceReport, FetchFile, SendMail, TellDelivered, SignalDelivered,
     TellFailed, SignalFailed, At, Resting, TypeInv, queueVars
<1>2. \/ /\ \E stage \in Successors(work[w]) \cup {"ack"} : GoTo(w, stage)
         /\ UNCHANGED queueVars
      \/ work' = [work EXCEPT ![w] = Resting] /\ Free(w) /\ UNCHANGED queue
  <2>1. CASE Load(w) \/ AnnounceReport(w) \/ FetchFile(w) \/ SendMail(w)
    BY <2>1 DEF Load, AnnounceReport, FetchFile, SendMail, At, Successors
  <2>2. CASE TellDelivered(w) \/ SignalDelivered(w) \/ TellFailed(w) \/ SignalFailed(w)
    BY <2>2 DEF TellDelivered, SignalDelivered, TellFailed, SignalFailed, At, Successors,
       queueVars
  <2> QED
    BY <2>1, <2>2
<1>3. RowsTyped' /\ WorkTyped' /\ HeadHeld' /\ QueuesTyped'
  <2>1. RowsTyped'
    BY <1>1 DEF TypeInv, RowsTyped, rowVars
  <2> QED
    BY <1>1, <1>2, <2>1, MoveTyped, Ends DEF rowVars
<1>4. HistoryTyped'
  <2>1. faults' \in 0..MaxFaults
    BY FaultTyped DEF TypeInv, HistoryTyped, Load, AnnounceReport, FetchFile, SendMail,
       TellDelivered, SignalDelivered, TellFailed, SignalFailed
  <2>2. sent' \in [Mails -> Nat]
    <3>1. CASE SendMail(w)
      <4>1. work[w].job \in Mails
        BY <1>1, <3>1 DEF Fits, Mailing, SendMail, At
      <4> QED
        BY <3>1, <4>1 DEF SendMail, TypeInv, HistoryTyped
    <3>2. CASE ~SendMail(w)
      BY <3>2 DEF Load, AnnounceReport, FetchFile, TellDelivered, SignalDelivered,
         TellFailed, SignalFailed, TypeInv, HistoryTyped
    <3> QED
      BY <3>1, <3>2
  <2>3. told' \in [Reports \cup Mails -> [Topics -> Nat]]
    <3>1. CASE TellDelivered(w) \/ TellFailed(w)
      <4>1. work[w].job \in Reports \cup Mails
        BY <1>1 DEF Handling
      <4> QED
        BY <3>1, <4>1, Told DEF TellDelivered, TellFailed, TypeInv, Topics
    <3>2. CASE ~(TellDelivered(w) \/ TellFailed(w))
      BY <3>2 DEF Load, AnnounceReport, FetchFile, SendMail, SignalDelivered, SignalFailed,
         TypeInv, HistoryTyped
    <3> QED
      BY <3>1, <3>2
  <2> QED
    BY <2>1, <2>2, <2>3 DEF HistoryTyped
<1> QED
  BY <1>1, <1>3, <1>4 DEF TypeInv

\* The controller's steps leave the handlers alone, and the faults stop them.
LEMMA ControllerTyped ==
    ASSUME TypeInv,
           \/ \E r \in Reports : SaveReport(r) \/ QueueReport(r) \/ DeleteFiles(r)
           \/ \E m \in Mails : Send(m)
           \/ DeleteRows
    PROVE  TypeInv'
<1>1. ASSUME NEW r \in Reports, SaveReport(r)
      PROVE  TypeInv'
  <2>1. RowsTyped' /\ HistoryTyped'
    BY <1>1 DEF TypeInv, RowsTyped, HistoryTyped, SaveReport
  <2> QED
    BY <1>1, <2>1 DEF TypeInv, QueuesTyped, WorkTyped, HeadHeld, Handling, SaveReport, queueVars
<1>2. ASSUME NEW r \in Reports, QueueReport(r)
      PROVE  TypeInv'
  <2>1. RowsTyped' /\ HistoryTyped' /\ interrupted' \in BOOLEAN
    BY <1>2, FaultTyped DEF TypeInv, RowsTyped, HistoryTyped, QueueReport
  <2>2. CASE UNCHANGED queue
    BY <1>2, <2>1, <2>2 DEF TypeInv, QueuesTyped, WorkTyped, HeadHeld, Handling, QueueReport
  <2>3. CASE queue' = [queue EXCEPT !["generation"] = Append(@, r)]
    BY <1>2, <2>1, <2>3, QueueGrows DEF TypeInv, Queues, QueueReport
  <2> QED
    BY <1>2, <2>2, <2>3 DEF QueueReport
<1>3. ASSUME NEW r \in Reports, DeleteFiles(r)
      PROVE  TypeInv'
  <2>1. {a.file : a \in AttachmentsOf(r)} \subseteq 1..written
    BY DEF TypeInv, RowsTyped, AttachmentsOf
  <2>2. [report |-> r, files |-> {a.file : a \in AttachmentsOf(r)}]
           \in [report : Reports, files : SUBSET (1..written)]
    BY <2>1
  <2>3. RowsTyped'
    BY <1>3, <2>2 DEF TypeInv, RowsTyped, DeleteFiles
  <2> QED
    BY <1>3, <2>3 DEF TypeInv, HistoryTyped, QueuesTyped, WorkTyped, HeadHeld, Handling,
       DeleteFiles, queueVars
<1>4. ASSUME NEW m \in Mails, Send(m)
      PROVE  TypeInv'
  <2>1. RowsTyped' /\ HistoryTyped' /\ interrupted' \in BOOLEAN
    BY <1>4 DEF TypeInv, RowsTyped, HistoryTyped, Send
  <2> QED
    BY <1>4, <2>1, QueueGrows DEF TypeInv, Queues, Send
<1>5. CASE DeleteRows
  <2>1. RowsTyped'
    BY <1>5 DEF TypeInv, RowsTyped, DeleteRows
  <2> QED
    BY <1>5, <2>1 DEF TypeInv, HistoryTyped, QueuesTyped, WorkTyped, HeadHeld, Handling,
       DeleteRows, queueVars
<1> QED
  BY <1>1, <1>2, <1>3, <1>4, <1>5

LEMMA FaultsTyped ==
    ASSUME TypeInv, Crash \/ Lose
    PROVE  TypeInv'
<1>1. RowsTyped' /\ QueuesTyped' /\ interrupted'
  BY DEF TypeInv, RowsTyped, QueuesTyped, Crash, Lose, rowVars
<1>2. HistoryTyped'
  BY FaultTyped DEF TypeInv, HistoryTyped, Crash, Lose
<1>3. WorkTyped'
  BY DEF TypeInv, WorkTyped, Handling, Crash, Lose, rowVars
<1>4. HeadHeld'
  BY DEF HeadHeld, Crash, Lose
<1> QED
  BY <1>1, <1>2, <1>3, <1>4 DEF TypeInv

LEMMA TypeStep == TypeInv /\ [Next]_vars => TypeInv'
<1> SUFFICES ASSUME TypeInv, [Next]_vars PROVE TypeInv'
  OBVIOUS
<1>1. CASE UNCHANGED vars
  BY <1>1 DEF vars, rowVars, queueVars, TypeInv, RowsTyped, QueuesTyped, WorkTyped, HeadHeld,
     HistoryTyped, Handling
<1>2. CASE Next
  BY <1>2, ControllerTyped, FaultsTyped, DeliverTyped, HandlerTyped, FindTyped, SaveFileTyped,
     SaveRowTyped, AckTyped DEF Next, Handle
<1> QED
  BY <1>1, <1>2

\* The type invariant, whatever fails and however many handlers run.
THEOREM TypeCorrect == Spec => []TypeOK
BY InitTyped, TypeStep, TypesHold, PTL DEF Spec

-------------------------------------------------------------------------------
(* AttachmentsHaveFiles.  A file is in the storage from the upload on, and *)
(* nobody removes it while only its handler knows it: deletions go by the  *)
(* rows they find, and no two rows name one file.                          *)

Holds(w, f) == work[w].stage = "attach" /\ work[w].file = f

\* A file that has yet to be attached is there, and is nobody else's.
UploadsKept ==
    \A w \in Workers : \A f \in 1..written : Holds(w, f) =>
        /\ f \in files
        /\ \A a \in attachments : a.file # f
        /\ \A d \in deleting : f \notin d.files
        /\ \A v \in Workers : Holds(v, f) => v = w

OneRowPerFile == \A a, b \in attachments : a.file = b.file => a = b

\* A deletion that has begun is about the files of its own report.
DeletesItsOwn ==
    \A d \in deleting :
        /\ d.report \in gone
        /\ \A a \in attachments : a.file \in d.files => a.report = d.report

FilesInv == UploadsKept /\ OneRowPerFile /\ DeletesItsOwn /\ AttachmentsHaveFiles

LEMMA InitFiles == Init => FilesInv
<1> SUFFICES ASSUME Init PROVE FilesInv
  OBVIOUS
<1>1. attachments = {} /\ deleting = {} /\ \A w \in Workers : work[w].stage = "idle"
  BY DEF Init, Resting
<1> QED
  BY <1>1 DEF FilesInv, UploadsKept, OneRowPerFile, DeletesItsOwn, AttachmentsHaveFiles, Holds

\* Steps after which nobody holds a file he did not hold before.
LEMMA FilesLeftAlone ==
    ASSUME FilesInv, UNCHANGED <<attachments, files, written, gone>>, deleting' \subseteq deleting,
           \A w \in Workers : \A f \in 1..written : Holds(w, f)' => Holds(w, f)
    PROVE  FilesInv'
<1>1. UploadsKept'
  BY DEF FilesInv, UploadsKept
<1>2. OneRowPerFile' /\ DeletesItsOwn' /\ AttachmentsHaveFiles'
  BY DEF FilesInv, OneRowPerFile, DeletesItsOwn, AttachmentsHaveFiles
<1> QED
  BY <1>1, <1>2 DEF FilesInv

\* All steps but those that write or remove a file or its row are of this kind.
LEMMA OtherFiles ==
    ASSUME TypeInv, FilesInv,
           \/ \E r \in Reports : SaveReport(r) \/ QueueReport(r)
           \/ \E m \in Mails : Send(m)
           \/ \E w \in Workers : \/ Load(w) \/ AnnounceReport(w) \/ FindAttachment(w)
                                 \/ FetchFile(w) \/ SendMail(w) \/ TellDelivered(w)
                                 \/ SignalDelivered(w) \/ TellFailed(w) \/ SignalFailed(w)
                                 \/ Ack(w) \/ \E q \in Queues : Deliver(w, q)
           \/ Crash \/ Lose \/ UNCHANGED vars
    PROVE  FilesInv'
<1>1. UNCHANGED <<attachments, files, written, gone>> /\ deleting' \subseteq deleting
  BY DEF SaveReport, QueueReport, Send, Load, AnnounceReport, FindAttachment, FetchFile,
     SendMail, TellDelivered, SignalDelivered, TellFailed, SignalFailed, Ack, Deliver, Crash,
     Lose, vars, rowVars
<1>2. \A v \in Workers : work'[v].stage = "attach" => work'[v] = work[v]
  <2>1. ASSUME NEW w \in Workers, NEW l, work' = [work EXCEPT ![w] = l], l.stage # "attach"
        PROVE  \A v \in Workers : work'[v].stage = "attach" => work'[v] = work[v]
    BY <2>1 DEF TypeInv, WorkTyped
  <2>2. ASSUME NEW w \in Workers, NEW stage \in Stages \ {"attach"}, GoTo(w, stage),
               work[w] # Resting
        PROVE  \A v \in Workers : work'[v].stage = "attach" => work'[v] = work[v]
    <3>1. [work[w] EXCEPT !.stage = stage].stage = stage
      BY <2>2, Working DEF TypeInv, Handling
    <3> QED
      BY <2>1, <2>2, <3>1 DEF GoTo
  <2>3. ASSUME NEW w \in Workers,
               \/ Load(w) \/ AnnounceReport(w) \/ FetchFile(w) \/ SendMail(w)
               \/ TellDelivered(w) \/ SignalDelivered(w) \/ TellFailed(w)
        PROVE  \A v \in Workers : work'[v].stage = "attach" => work'[v] = work[v]
    <3>1. work[w] # Resting
      BY <2>3 DEF Load, AnnounceReport, FetchFile, SendMail, TellDelivered, SignalDelivered,
         TellFailed, At, Resting
    <3>2. \E stage \in Stages \ {"attach"} : GoTo(w, stage)
      BY <2>3 DEF Load, AnnounceReport, FetchFile, SendMail, TellDelivered, SignalDelivered,
         TellFailed, Stages
    <3> QED
      BY <2>2, <3>1, <3>2
  <2>4. ASSUME NEW w \in Workers, SignalFailed(w) \/ Ack(w)
        PROVE  \A v \in Workers : work'[v].stage = "attach" => work'[v] = work[v]
    <3>1. CASE SignalFailed(w) /\ GoTo(w, "ack")
      BY <2>2, <3>1 DEF SignalFailed, At, Resting, Stages
    <3>2. CASE ~(SignalFailed(w) /\ GoTo(w, "ack"))
      <4>1. work' = [work EXCEPT ![w] = Resting]
        BY <2>4, <3>2 DEF SignalFailed, Ack
      <4>2. Resting.stage # "attach"
        BY DEF Resting
      <4> QED
        BY <2>1, <4>1, <4>2
    <3> QED
      BY <3>1, <3>2
  <2>5. ASSUME NEW w \in Workers, FindAttachment(w)
        PROVE  \A v \in Workers : work'[v].stage = "attach" => work'[v] = work[v]
    <3>1. work[w] # Resting /\ work[w] \in Handling
      BY <2>5, Working DEF FindAttachment, At, Resting, TypeInv
    <3> DEFINE a == CHOOSE a \in AttachmentsOf(ReportOf[work[w].job]) : TRUE
               l == [work[w] EXCEPT !.stage = "fetch", !.file = a.file]
    <3>2. l.stage = "fetch"
      BY <3>1 DEF Handling
    <3>3. work' = [work EXCEPT ![w] = l] \/ GoTo(w, "failed")
      BY <2>5 DEF FindAttachment
    <3> HIDE DEF l
    <3> QED
      BY <2>1, <2>2, <3>1, <3>2, <3>3 DEF Stages
  <2>6. ASSUME NEW w \in Workers, NEW q \in Queues, Deliver(w, q)
        PROVE  \A v \in Workers : work'[v].stage = "attach" => work'[v] = work[v]
    <3> DEFINE l == [stage |-> IF q = "emails" THEN "find" ELSE "load",
                     queue |-> q, job |-> Head(queue[q]), file |-> 0]
    <3>1. l.stage # "attach" /\ work' = [work EXCEPT ![w] = l]
      BY <2>6 DEF Deliver
    <3> HIDE DEF l
    <3> QED
      BY <2>1, <3>1
  <2>7. CASE \/ \E r \in Reports : SaveReport(r) \/ QueueReport(r)
             \/ \E m \in Mails : Send(m)
             \/ Lose \/ UNCHANGED vars
    BY <2>7 DEF SaveReport, QueueReport, Send, Lose, vars
  <2>8. CASE Crash
    BY <2>8 DEF Crash, Resting
  <2> QED
    BY <2>3, <2>4, <2>5, <2>6, <2>7, <2>8
<1> QED
  BY <1>1, <1>2, FilesLeftAlone DEF Holds

LEMMA SaveFileFiles ==
    ASSUME TypeInv, FilesInv, NEW w \in Workers, SaveFile(w)
    PROVE  FilesInv'
<1>1. /\ work[w] # Resting /\ work[w] \in Handling
      /\ UNCHANGED <<attachments, deleting, gone>>
  BY Working DEF SaveFile, At, Resting, TypeInv
<1>2. CASE GoTo(w, "ack") /\ UNCHANGED <<written, files>>
  <2>1. \A v \in Workers : work'[v].stage = "attach" => work'[v] = work[v]
    BY <1>1, <1>2 DEF GoTo, TypeInv, WorkTyped, Handling
  <2> QED
    BY <1>1, <1>2, <2>1, FilesLeftAlone DEF Holds
<1>3. CASE ~(GoTo(w, "ack") /\ UNCHANGED <<written, files>>)
  <2>1. /\ written \in Nat /\ written' = written + 1 /\ files' = files \cup {written + 1}
        /\ work' = [work EXCEPT ![w].stage = "attach", ![w].file = written + 1]
    BY <1>3 DEF SaveFile, TypeInv, RowsTyped
  <2>2. \A f \in 1..written : f # written + 1
    BY <2>1
  <2>3. /\ \A a \in attachments : a.file \in 1..written
        /\ \A d \in deleting : d.files \subseteq 1..written
        /\ \A v \in Workers : work[v].stage = "attach" => work[v].file \in 1..written
    BY Working DEF TypeInv, RowsTyped, Fits, Resting
  <2>4. /\ \A f : Holds(w, f)' <=> f = written + 1
        /\ \A v \in Workers \ {w} : \A f : Holds(v, f)' <=> Holds(v, f)
    BY <1>1, <2>1 DEF Holds, TypeInv, WorkTyped, Handling
  <2>5. UploadsKept'
    <3> SUFFICES ASSUME NEW v \in Workers, NEW f \in 1..written', Holds(v, f)'
                 PROVE  /\ f \in files'
                        /\ \A a \in attachments' : a.file # f
                        /\ \A d \in deleting' : f \notin d.files
                        /\ \A u \in Workers : Holds(u, f)' => u = v
      BY DEF UploadsKept
    <3>1. CASE v = w
      <4>1. f = written + 1
        BY <2>4, <3>1
      <4>2. \A u \in Workers : ~Holds(u, f)
        BY <2>2, <2>3, <4>1 DEF Holds
      <4> QED
        BY <1>1, <2>1, <2>2, <2>3, <2>4, <3>1, <4>1, <4>2
    <3>2. CASE v # w
      <4>1. Holds(v, f) /\ f \in 1..written /\ f # written + 1
        BY <2>2, <2>3, <2>4, <3>2 DEF Holds
      <4> QED
        BY <1>1, <2>1, <2>4, <3>2, <4>1 DEF FilesInv, UploadsKept
    <3> QED
      BY <3>1, <3>2
  <2>6. OneRowPerFile' /\ DeletesItsOwn' /\ AttachmentsHaveFiles'
    BY <1>1, <2>1 DEF FilesInv, OneRowPerFile, DeletesItsOwn, AttachmentsHaveFiles
  <2> QED
    BY <2>5, <2>6 DEF FilesInv
<1> QED
  BY <1>2, <1>3

LEMMA SaveRowFiles ==
    ASSUME TypeInv, FilesInv, NEW w \in Workers, SaveRow(w)
    PROVE  FilesInv'
<1> DEFINE f == work[w].file
           row == [report |-> work[w].job, file |-> f]
<1>1. /\ work[w] # Resting /\ work[w] \in Handling /\ work[w].stage = "attach"
      /\ f \in 1..written
  BY Working DEF SaveRow, At, Resting, TypeInv, Fits
<1>2. Holds(w, f)
  BY <1>1 DEF Holds
<1>3. /\ f \in files
      /\ \A a \in attachments : a.file # f
      /\ \A d \in deleting : f \notin d.files
      /\ \A v \in Workers : Holds(v, f) => v = w
  BY <1>1, <1>2 DEF FilesInv, UploadsKept
<1>4. /\ attachments' = attachments \cup {row} /\ row.file = f
      /\ UNCHANGED <<files, deleting, gone, written>>
  BY DEF SaveRow
<1>5. \A v \in Workers : \A g : Holds(v, g)' => Holds(v, g) /\ v # w
  BY <1>1 DEF SaveRow, GoTo, Holds, TypeInv, WorkTyped, Handling
<1> HIDE DEF f, row
<1>6. UploadsKept'
  BY <1>2, <1>3, <1>4, <1>5 DEF FilesInv, UploadsKept
<1>7. OneRowPerFile' /\ AttachmentsHaveFiles'
  BY <1>3, <1>4 DEF FilesInv, OneRowPerFile, AttachmentsHaveFiles
<1>8. DeletesItsOwn'
  BY <1>3, <1>4 DEF FilesInv, DeletesItsOwn
<1> QED
  BY <1>6, <1>7, <1>8 DEF FilesInv

LEMMA DeleteFilesFiles ==
    ASSUME TypeInv, FilesInv, NEW r \in Reports, DeleteFiles(r)
    PROVE  FilesInv'
<1> DEFINE own == {a.file : a \in AttachmentsOf(r)}
           d0 == [report |-> r, files |-> own]
<1>1. /\ deleting' = deleting \cup {d0} /\ d0.report = r /\ d0.files = own
      /\ files' = files \ own /\ gone' = gone \cup {r}
      /\ UNCHANGED <<attachments, written, work>>
  BY DEF DeleteFiles
<1>2. \A a \in attachments : a.file \in own => a.report = r
  BY DEF AttachmentsOf, FilesInv, OneRowPerFile
<1>3. \A a \in attachments : a.report = r => a.file \in own
  BY DEF AttachmentsOf
<1>4. \A f \in own : \E a \in attachments : a.file = f
  BY DEF AttachmentsOf
<1> HIDE DEF own, d0
<1>5. UploadsKept'
  BY <1>1, <1>4 DEF FilesInv, UploadsKept, Holds
<1>6. OneRowPerFile' /\ DeletesItsOwn' /\ AttachmentsHaveFiles'
  BY <1>1, <1>2 DEF FilesInv, OneRowPerFile, DeletesItsOwn, AttachmentsHaveFiles
<1> QED
  BY <1>5, <1>6 DEF FilesInv

LEMMA DeleteRowsFiles ==
    ASSUME FilesInv, DeleteRows
    PROVE  FilesInv'
<1>1. /\ attachments' \subseteq attachments /\ deleting' \subseteq deleting
      /\ UNCHANGED <<files, written, gone, work>>
  BY DEF DeleteRows
<1> QED
  BY <1>1 DEF FilesInv, UploadsKept, OneRowPerFile, DeletesItsOwn, AttachmentsHaveFiles, Holds

LEMMA FilesStep == TypeInv /\ FilesInv /\ [Next]_vars => FilesInv'
BY OtherFiles, SaveFileFiles, SaveRowFiles, DeleteFilesFiles, DeleteRowsFiles DEF Next, Handle

\* A row is never without its file: uploads come before rows, deletions take
\* the file only of rows whose report they are about, and an interruption at
\* any point leaves files without rows, never the reverse.
THEOREM FilesAreThere == Spec => []AttachmentsHaveFiles
<1>1. FilesInv => AttachmentsHaveFiles
  BY DEF FilesInv
<1> QED
  BY <1>1, InitTyped, TypeStep, InitFiles, FilesStep, PTL DEF Spec

-------------------------------------------------------------------------------
(* AnsweredTruly.                                                          *)

Answered(m) == told[m]["delivered"] + told[m]["failed"] > 0

\* What a mail's handler has behind it at each stage.
Honest ==
    \A w \in Workers : work[w] # Resting =>
        /\ work[w].stage = "delivered" => sent[work[w].job] > 0
        /\ work[w].stage \in {"signal", "signalFailure", "ack"}
               /\ work[w].queue = "emails" => Answered(work[w].job)

AnswersInv == Honest /\ AnsweredTruly

\* Accepted, and no longer in the queue.
Off(m) == m \in asked /\ \A n \in DOMAIN queue["emails"] : queue["emails"][n] # m

\* What a handler that is at l must have behind it.
HonestAt(l) ==
    /\ l.stage = "delivered" => sent[l.job] > 0
    /\ l.stage \in {"signal", "signalFailure", "ack"} /\ l.queue = "emails" => Answered(l.job)

LEMMA InitAnswers == Init => AnswersInv
<1> SUFFICES ASSUME Init PROVE AnswersInv
  OBVIOUS
<1>1. \A m \in Mails : told[m]["delivered"] = 0 /\ m \notin asked
  BY DEF Init, Topics
<1>2. \A w \in Workers : work[w] = Resting
  BY DEF Init
<1> QED
  BY <1>1, <1>2 DEF AnswersInv, Honest, AnsweredTruly

\* Nothing is taken back: counts only grow, a mail that is told delivered was
\* sent before, one that leaves the queue was answered, and the handlers that
\* moved can vouch for where they are.
LEMMA StillAnswered ==
    ASSUME TypeInv, AnswersInv, HistoryTyped',
           \A m \in Mails : /\ sent'[m] >= sent[m]
                            /\ told'[m]["delivered"] >= told[m]["delivered"]
                            /\ told'[m]["failed"] >= told[m]["failed"]
                            /\ told'[m]["delivered"] > told[m]["delivered"] => sent[m] > 0
                            /\ Off(m)' => Off(m) \/ Answered(m),
           \A v \in Workers : work'[v] \in {work[v], Resting} \/ HonestAt(work[v])'
    PROVE  AnswersInv'
<1>1. \A m \in Mails :
          /\ sent[m] \in Nat /\ told[m]["delivered"] \in Nat /\ told[m]["failed"] \in Nat
          /\ sent'[m] \in Nat /\ told'[m]["delivered"] \in Nat /\ told'[m]["failed"] \in Nat
  BY DEF TypeInv, HistoryTyped, Topics
<1>2. \A m \in Mails : /\ sent[m] > 0 => sent'[m] > 0
                       /\ Answered(m) => Answered(m)'
  BY <1>1 DEF Answered
<1>3. AnsweredTruly'
  <2> SUFFICES ASSUME NEW m \in Mails
               PROVE  /\ told'[m]["delivered"] > 0 => sent'[m] > 0
                      /\ Off(m)' => Answered(m)'
    BY DEF AnsweredTruly, Off, Answered
  <2>1. told'[m]["delivered"] > 0 => sent'[m] > 0
    BY <1>1, <1>2 DEF AnswersInv, AnsweredTruly
  <2>2. Off(m) => Answered(m)
    BY DEF AnswersInv, AnsweredTruly, Off, Answered
  <2> QED
    BY <1>2, <2>1, <2>2
<1>4. Honest'
  <2> SUFFICES ASSUME NEW v \in Workers, work'[v] # Resting
               PROVE  HonestAt(work[v])'
    BY DEF Honest, HonestAt
  <2>1. CASE work'[v] = work[v]
    <3>1. HonestAt(work[v])
      BY <2>1 DEF AnswersInv, Honest, HonestAt
    <3>2. \/ work[v].stage \in {"delivered", "signal", "signalFailure"}
          \/ work[v].queue = "emails"
          => work[v].job \in Mails
      BY <2>1, Working DEF TypeInv, Fits, Mailing
    <3> QED
      BY <1>2, <2>1, <3>1, <3>2 DEF HonestAt
  <2> QED
    BY <2>1
<1> QED
  BY <1>3, <1>4 DEF AnswersInv

\* Steps that are not about mails.
LEMMA AnswersLeftAlone ==
    ASSUME TypeInv, AnswersInv, HistoryTyped', UNCHANGED sent,
           \A m \in Mails : told'[m] = told[m],
           asked' \subseteq asked \cup Reports, queue'["emails"] = queue["emails"],
           \A v \in Workers : work'[v] \in {work[v], Resting} \/ HonestAt(work[v])'
    PROVE  AnswersInv'
<1>1. \A m \in Mails : Off(m)' => Off(m)
  BY ReportsAssumption DEF Off
<1>2. \A m \in Mails :
          /\ sent[m] \in Nat /\ told[m]["delivered"] \in Nat /\ told[m]["failed"] \in Nat
  BY DEF TypeInv, HistoryTyped, Topics
<1>3. \A m \in Mails : /\ sent'[m] >= sent[m]
                       /\ told'[m]["delivered"] >= told[m]["delivered"]
                       /\ told'[m]["failed"] >= told[m]["failed"]
                       /\ told'[m]["delivered"] > told[m]["delivered"] => sent[m] > 0
  BY <1>2
<1> QED
  BY <1>1, <1>3, StillAnswered

\* The handler that moves on, and the others.
LEMMA Moved ==
    ASSUME TypeInv, NEW w \in Workers, NEW stage, work[w] # Resting, GoTo(w, stage)
    PROVE  /\ work'[w].stage = stage /\ work'[w].queue = work[w].queue
           /\ work'[w].job = work[w].job /\ work'[w].file = work[w].file
           /\ \A v \in Workers : v # w => work'[v] = work[v]
BY Working DEF TypeInv, GoTo, WorkTyped, Handling

\* A handler that is not at work is not at a stage.
LEMMA AtWork ==
    ASSUME NEW w \in Workers, NEW stage \in Stages, At(w, stage)
    PROVE  work[w] # Resting /\ work[w].stage = stage
BY DEF At, Resting, Stages

LEMMA RequestAnswers ==
    ASSUME TypeInv, AnswersInv, HistoryTyped',
           \/ \E r \in Reports : SaveReport(r) \/ QueueReport(r) \/ DeleteFiles(r)
           \/ DeleteRows \/ Crash \/ Lose \/ UNCHANGED vars
    PROVE  AnswersInv'
<1>1. /\ UNCHANGED <<sent, told>> /\ asked' \subseteq asked \cup Reports
      /\ \A v \in Workers : work'[v] \in {work[v], Resting}
  BY DEF SaveReport, QueueReport, DeleteFiles, DeleteRows, Crash, Lose, vars, rowVars
<1>2. queue'["emails"] = queue["emails"]
  BY DEF SaveReport, QueueReport, DeleteFiles, DeleteRows, Crash, Lose, vars, queueVars,
     TypeInv, QueuesTyped, Queues
<1> QED
  BY <1>1, <1>2, AnswersLeftAlone

LEMMA SendAnswers ==
    ASSUME TypeInv, AnswersInv, HistoryTyped', NEW m \in Mails, Send(m)
    PROVE  AnswersInv'
<1>1. /\ UNCHANGED <<sent, told, work>> /\ asked' = asked \cup {m}
      /\ queue'["emails"] = Append(queue["emails"], m)
      /\ queue["emails"] \in Seq(Mails)
  BY DEF Send, TypeInv, QueuesTyped, Queues
<1>2. \A x \in Mails : Off(x)' => Off(x)
  <2> SUFFICES ASSUME NEW x \in Mails, Off(x)' PROVE Off(x)
    OBVIOUS
  <2> DEFINE s == queue["emails"]
  <2>1. /\ DOMAIN Append(s, m) = 1..Len(s) + 1 /\ DOMAIN s = 1..Len(s) /\ Len(s) \in Nat
        /\ Append(s, m)[Len(s) + 1] = m
        /\ \A n \in DOMAIN s : Append(s, m)[n] = s[n]
    BY <1>1, Appended
  <2>2. /\ x \in asked \cup {m}
        /\ \A n \in DOMAIN Append(s, m) : Append(s, m)[n] # x
    BY <1>1 DEF Off
  <2>3. x # m
    BY <2>1, <2>2
  <2>4. \A n \in DOMAIN s : s[n] # x
    BY <2>1, <2>2
  <2> QED
    BY <2>2, <2>3, <2>4 DEF Off
<1>3. \A x \in Mails :
          /\ sent[x] \in Nat /\ told[x]["delivered"] \in Nat /\ told[x]["failed"] \in Nat
  BY DEF TypeInv, HistoryTyped, Topics
<1>4. \A x \in Mails : /\ sent'[x] >= sent[x]
                       /\ told'[x]["delivered"] >= told[x]["delivered"]
                       /\ told'[x]["failed"] >= told[x]["failed"]
                       /\ told'[x]["delivered"] > told[x]["delivered"] => sent[x] > 0
  BY <1>1, <1>3
<1> QED
  BY <1>1, <1>2, <1>4, StillAnswered

LEMMA GenerationAnswers ==
    ASSUME TypeInv, AnswersInv, HistoryTyped', NEW w \in Workers,
           \/ Load(w) \/ SaveFile(w) \/ SaveRow(w) \/ AnnounceReport(w)
           \/ \E q \in Queues : Deliver(w, q)
    PROVE  AnswersInv'
<1>1. UNCHANGED <<sent, asked, queue>>
  BY DEF Load, SaveFile, SaveRow, AnnounceReport, Deliver, rowVars, queueVars
<1>2. \A m \in Mails : told'[m] = told[m]
  <2>1. CASE SaveRow(w)
    <3>1. work[w].job \in Reports
      BY <2>1, AtWork, Working DEF SaveRow, TypeInv, Fits, Generating, Stages
    <3> QED
      BY <2>1, <3>1, ReportsAssumption DEF SaveRow, Tell, TypeInv, HistoryTyped
  <2>2. CASE ~SaveRow(w)
    BY <2>2 DEF Load, SaveFile, AnnounceReport, Deliver
  <2> QED
    BY <2>1, <2>2
<1>3. \A v \in Workers : work'[v] = work[v] \/ HonestAt(work[v])'
  <2>1. CASE \E q \in Queues : Deliver(w, q)
    <3>1. PICK q \in Queues : Deliver(w, q)
      BY <2>1
    <3> DEFINE l == [stage |-> IF q = "emails" THEN "find" ELSE "load",
                     queue |-> q, job |-> Head(queue[q]), file |-> 0]
    <3>2. l.stage \in {"find", "load"} /\ work' = [work EXCEPT ![w] = l]
      BY <3>1 DEF Deliver
    <3> HIDE DEF l
    <3> QED
      BY <3>2 DEF HonestAt, TypeInv, WorkTyped
  <2>2. CASE Load(w) \/ SaveFile(w) \/ SaveRow(w) \/ AnnounceReport(w)
    <3>1. work[w] # Resting /\ work[w] \in Handling /\ work[w].queue = "generation"
      BY <2>2, AtWork, Working DEF Load, SaveFile, SaveRow, AnnounceReport, TypeInv, Fits,
         Generating, Stages
    <3>2. /\ work'[w].queue = "generation"
          /\ work'[w].stage \in {"upload", "attach", "announce", "ack"}
          /\ \A v \in Workers : v # w => work'[v] = work[v]
      BY <2>2, <3>1 DEF Load, SaveFile, SaveRow, AnnounceReport, GoTo, TypeInv, WorkTyped,
         Handling
    <3> QED
      BY <3>2 DEF HonestAt
  <2> QED
    BY <2>1, <2>2
<1> QED
  BY <1>1, <1>2, <1>3, AnswersLeftAlone

LEMMA MailAnswers ==
    ASSUME TypeInv, AnswersInv, HistoryTyped', NEW w \in Workers,
           \/ FindAttachment(w) \/ FetchFile(w) \/ SendMail(w) \/ TellDelivered(w)
           \/ SignalDelivered(w) \/ TellFailed(w) \/ SignalFailed(w)
    PROVE  AnswersInv'
<1> DEFINE m == work[w].job
<1>1. /\ work[w] # Resting /\ work[w] \in Handling /\ Fits(work[w])
      /\ work[w].stage \in Mailing /\ work[w].queue = "emails" /\ m \in Mails
  BY AtWork, Working DEF FindAttachment, FetchFile, SendMail, TellDelivered, SignalDelivered,
     TellFailed, SignalFailed, TypeInv, Fits, Mailing, Stages
<1>2. UNCHANGED <<asked, queue>>
  BY DEF FindAttachment, FetchFile, SendMail, TellDelivered, SignalDelivered, TellFailed,
     SignalFailed, rowVars, queueVars
<1>3. HonestAt(work[w])
  BY <1>1 DEF AnswersInv, Honest, HonestAt
<1>4. /\ \A x \in Mails :
            /\ sent[x] \in Nat /\ told[x]["delivered"] \in Nat /\ told[x]["failed"] \in Nat
      /\ told' \in [Reports \cup Mails -> [Topics -> Nat]] /\ sent' \in [Mails -> Nat]
  BY DEF TypeInv, HistoryTyped, Topics
<1>5. CASE FindAttachment(w) \/ FetchFile(w)
  <2>1. /\ work'[w].stage \in {"fetch", "send", "failed"}
        /\ \A v \in Workers : v # w => work'[v] = work[v]
    BY <1>1, <1>5 DEF FindAttachment, FetchFile, GoTo, TypeInv, WorkTyped, Handling
  <2>2. UNCHANGED <<sent, told>>
    BY <1>5 DEF FindAttachment, FetchFile
  <2> QED
    BY <1>2, <2>1, <2>2, AnswersLeftAlone DEF HonestAt
<1>6. CASE SendMail(w)
  <2>1. CASE GoTo(w, "failed") /\ UNCHANGED sent
    <3>1. UNCHANGED told
      BY <1>6 DEF SendMail
    <3> QED
      BY <1>1, <1>2, <2>1, <3>1, Moved, AnswersLeftAlone DEF HonestAt
  <2>2. CASE sent' = [sent EXCEPT ![m] = @ + 1] /\ GoTo(w, "delivered")
    <3>1. /\ \A x \in Mails : sent'[x] >= sent[x]
          /\ sent'[m] > 0 /\ UNCHANGED told
      BY <1>1, <1>4, <1>6, <2>2 DEF SendMail, TypeInv, HistoryTyped
    <3>2. HonestAt(work[w])' /\ \A v \in Workers : v # w => work'[v] = work[v]
      BY <1>1, <2>2, <3>1, Moved DEF HonestAt
    <3>3. \A x \in Mails : Off(x)' => Off(x)
      BY <1>2 DEF Off
    <3>4. \A x \in Mails : /\ told'[x]["delivered"] >= told[x]["delivered"]
                           /\ told'[x]["failed"] >= told[x]["failed"]
                           /\ ~(told'[x]["delivered"] > told[x]["delivered"])
      BY <1>4, <3>1
    <3> QED
      BY <3>1, <3>2, <3>3, <3>4, StillAnswered
  <2> QED
    BY <1>6, <2>1, <2>2 DEF SendMail
<1>7. CASE TellDelivered(w) \/ TellFailed(w)
  <2>1. PICK topic \in {"delivered", "failed"} :
            /\ Tell(m, topic) /\ (topic = "delivered" => sent[m] > 0)
            /\ GoTo(w, IF topic = "delivered" THEN "signal" ELSE "signalFailure")
    BY <1>3, <1>7 DEF TellDelivered, TellFailed, At, HonestAt
  <2>2. /\ told'[m][topic] = told[m][topic] + 1
        /\ \A y \in Reports \cup Mails, t \in Topics :
              <<y, t>> # <<m, topic>> => told'[y][t] = told[y][t]
    BY <1>1, <2>1, Told DEF TypeInv, Topics
  <2>3. \A x \in Mails : /\ told'[x]["delivered"] >= told[x]["delivered"]
                         /\ told'[x]["failed"] >= told[x]["failed"]
                         /\ told'[x]["delivered"] > told[x]["delivered"] => sent[x] > 0
    <3> TAKE x \in Mails
    <3>1. \A t \in {"delivered", "failed"} :
              /\ told[x][t] \in Nat
              /\ \/ told'[x][t] = told[x][t]
                 \/ told'[x][t] = told[x][t] + 1 /\ x = m /\ t = topic
      BY <1>4, <2>2 DEF Topics
    <3> QED
      BY <2>1, <3>1
  <2>4. told'[m]["delivered"] + told'[m]["failed"] > 0
    <3>1. /\ told'[m][topic] = told[m][topic] + 1
          /\ \A t \in {"delivered", "failed"} : told'[m][t] \in Nat /\ told[m][t] \in Nat
      BY <1>1, <1>4, <2>2 DEF Topics
    <3>2. CASE topic = "delivered"
      BY <3>1, <3>2
    <3>3. CASE topic = "failed"
      BY <3>1, <3>3
    <3> QED
      BY <3>2, <3>3
  <2>5. HonestAt(work[w])' /\ \A v \in Workers : v # w => work'[v] = work[v]
    BY <1>1, <2>1, <2>4, Moved DEF HonestAt, Answered
  <2>6. /\ \A x \in Mails : Off(x)' => Off(x)
        /\ \A x \in Mails : sent'[x] >= sent[x]
    BY <1>2, <1>4, <1>7 DEF Off, TellDelivered, TellFailed
  <2> QED
    BY <2>3, <2>5, <2>6, StillAnswered
<1>8. CASE SignalDelivered(w) \/ SignalFailed(w)
  <2>1. UNCHANGED <<sent, told>> /\ Answered(m)
    BY <1>1, <1>3, <1>8 DEF SignalDelivered, SignalFailed, At, HonestAt
  <2>2. CASE GoTo(w, "ack") \/ GoTo(w, "failed")
    <3>1. HonestAt(work[w])' /\ \A v \in Workers : v # w => work'[v] = work[v]
      BY <1>1, <2>1, <2>2, Moved DEF HonestAt, Answered
    <3> QED
      BY <1>2, <2>1, <3>1, AnswersLeftAlone
  <2>3. CASE work' = [work EXCEPT ![w] = Resting]
    BY <1>2, <2>1, <2>3, AnswersLeftAlone DEF TypeInv, WorkTyped
  <2> QED
    BY <1>8, <2>2, <2>3 DEF SignalDelivered, SignalFailed
<1> QED
  BY <1>5, <1>6, <1>7, <1>8

\* The mail that is taken off its queue is the one its handler has answered.
LEMMA AckAnswers ==
    ASSUME TypeInv, AnswersInv, HistoryTyped', NEW w \in Workers, Ack(w)
    PROVE  AnswersInv'
<1>1. /\ work[w] # Resting /\ work[w].stage = "ack" /\ work[w].queue \in Queues
      /\ UNCHANGED <<sent, told, asked>>
      /\ \A v \in Workers : work'[v] \in {work[v], Resting}
  BY AtWork, Working DEF Ack, rowVars, TypeInv, WorkTyped, Stages
<1>2. CASE holder = w /\ work[w].queue = "emails"
  <2>1. /\ Answered(work[w].job) /\ Head(queue["emails"]) = work[w].job
        /\ queue["emails"] # <<>> /\ queue["emails"] \in Seq(Mails)
        /\ queue'["emails"] = Tail(queue["emails"])
    BY <1>1, <1>2, ReportsAssumption
       DEF AnswersInv, Honest, TypeInv, HeadHeld, QueuesTyped, Queues, Ack
  <2>2. \A m \in Mails : Off(m)' => Off(m) \/ Answered(m)
    <3> SUFFICES ASSUME NEW m \in Mails, Off(m)', m # work[w].job PROVE Off(m)
      BY <2>1
    <3> DEFINE s == queue["emails"]
    <3>1. /\ \A n \in DOMAIN Tail(s) : Tail(s)[n] # m
          /\ m \in asked
      BY <1>1, <2>1 DEF Off
    <3>2. ASSUME NEW n \in DOMAIN s
          PROVE  s[n] # m
      <4>1. n \in 1..Len(s) /\ Len(s) \in Nat /\ Len(s) > 0
        BY <2>1, <3>2
      <4>2. CASE n = 1
        BY <2>1, <4>2
      <4>3. CASE n # 1
        <5>1. n - 1 \in DOMAIN Tail(s) /\ Tail(s)[n - 1] = s[n]
          BY <2>1, <4>1, <4>3
        <5> QED
          BY <3>1, <5>1
      <4> QED
        BY <4>2, <4>3
    <3> QED
      BY <3>1, <3>2 DEF Off
  <2>3. \A m \in Mails :
            /\ sent[m] \in Nat /\ told[m]["delivered"] \in Nat /\ told[m]["failed"] \in Nat
    BY DEF TypeInv, HistoryTyped, Topics
  <2>4. \A m \in Mails : /\ sent'[m] >= sent[m]
                         /\ told'[m]["delivered"] >= told[m]["delivered"]
                         /\ told'[m]["failed"] >= told[m]["failed"]
                         /\ told'[m]["delivered"] > told[m]["delivered"] => sent[m] > 0
    BY <1>1, <2>3
  <2> QED
    BY <1>1, <2>2, <2>4, StillAnswered
<1>3. CASE ~(holder = w /\ work[w].queue = "emails")
  <2>1. queue'["emails"] = queue["emails"]
    BY <1>1, <1>3 DEF Ack, TypeInv, QueuesTyped, Queues
  <2> QED
    BY <1>1, <2>1, AnswersLeftAlone
<1> QED
  BY <1>2, <1>3

LEMMA AnswersStep == TypeInv /\ TypeInv' /\ AnswersInv /\ [Next]_vars => AnswersInv'
BY RequestAnswers, SendAnswers, GenerationAnswers, MailAnswers, AckAnswers
   DEF Next, Handle, TypeInv

\* Nobody is told that a mail was delivered that was never sent, and no mail
\* leaves its queue unanswered, through restarts, lost connections, handlers
\* the broker has given up and every error of the processor.
THEOREM AnswersAreTrue == Spec => []AnsweredTruly
<1>1. AnswersInv => AnsweredTruly
  BY DEF AnswersInv
<1> QED
  BY <1>1, InitTyped, TypeStep, InitAnswers, AnswersStep, PTL DEF Spec

-------------------------------------------------------------------------------
(* GeneratedIsSendable.  Undisturbed, a report goes one way from the       *)
(* request over the queue to its single attachment.                        *)

Waiting == {queue["generation"][n] : n \in DOMAIN queue["generation"]}

\* Only the handler the broker waits for is at work.
NoStrays == \A w \in Workers : work[w] # Resting => holder = w

\* The handler of the report has attached a file.
Attached(r) ==
    \E w \in Workers : /\ work[w].stage \in {"announce", "ack"}
                       /\ work[w].queue = "generation" /\ work[w].job = r

\* A report is asked for once and queued once.
QueuedOnce ==
    /\ creating \subseteq asked
    /\ Waiting \subseteq asked \ creating
    /\ \A n, k \in DOMAIN queue["generation"] :
          queue["generation"][n] = queue["generation"][k] => n = k

\* Before that there is no attachment ...
NoneYet ==
    \A r \in Reports :
        r \notin asked \/ r \in creating \/ (r \in Waiting /\ ~Attached(r))
            => AttachmentsOf(r) = {}

\* ... and after it there is one.
OneEach ==
    \A r \in Reports \ gone :
        /\ \A a, b \in AttachmentsOf(r) : a = b
        /\ told[r]["generated"] > 0 => AttachmentsOf(r) # {}

Undisturbed == NoStrays /\ QueuedOnce /\ NoneYet /\ OneEach

SendableInv == ~interrupted => Undisturbed

LEMMA InitSendable == Init => SendableInv
<1> SUFFICES ASSUME Init PROVE SendableInv
  OBVIOUS
<1>1. /\ creating = {} /\ attachments = {} /\ queue["generation"] = <<>>
      /\ \A w \in Workers : work[w] = Resting
      /\ \A r \in Reports : told[r]["generated"] = 0
  BY DEF Init, Queues, Topics
<1>2. Waiting = {} /\ \A r \in Reports : AttachmentsOf(r) = {}
  BY <1>1 DEF Waiting, AttachmentsOf
<1>3. QueuedOnce
  BY <1>1, <1>2 DEF QueuedOnce
<1>4. NoStrays /\ NoneYet /\ OneEach
  BY <1>1, <1>2 DEF NoStrays, NoneYet, OneEach
<1> QED
  BY <1>3, <1>4 DEF SendableInv, Undisturbed

\* Steps that leave the generations' queue and the rows alone.
LEMMA SendableLeftAlone ==
    ASSUME Undisturbed, UNCHANGED <<attachments, creating>>, gone \subseteq gone',
           asked' \cap Reports = asked \cap Reports, asked \subseteq asked',
           queue'["generation"] = queue["generation"],
           \A r \in Reports : /\ told'[r]["generated"] = told[r]["generated"]
                              /\ Attached(r) => Attached(r)',
           NoStrays'
    PROVE  Undisturbed'
<1>1. Waiting' = Waiting /\ \A r : AttachmentsOf(r)' = AttachmentsOf(r)
  BY DEF Waiting, AttachmentsOf
<1>2. QueuedOnce'
  BY <1>1 DEF Undisturbed, QueuedOnce
<1>3. NoneYet'
  BY <1>1 DEF Undisturbed, NoneYet
<1>4. OneEach'
  BY <1>1 DEF Undisturbed, OneEach
<1> QED
  BY <1>2, <1>3, <1>4 DEF Undisturbed

\* The handlers' steps, but for the two that matter.
LEMMA HandlerSendable ==
    ASSUME TypeInv, Undisturbed, NEW w \in Workers,
           \/ Load(w) \/ SaveFile(w) \/ AnnounceReport(w) \/ FindAttachment(w) \/ FetchFile(w)
           \/ SendMail(w) \/ TellDelivered(w) \/ SignalDelivered(w) \/ TellFailed(w)
           \/ SignalFailed(w)
    PROVE  Undisturbed'
<1>1. /\ work[w] # Resting /\ work[w] \in Handling /\ Fits(work[w]) /\ holder = w
      /\ UNCHANGED <<attachments, creating, gone, asked, queue>>
  BY AtWork, Working DEF Load, SaveFile, AnnounceReport, FindAttachment, FetchFile, SendMail,
     TellDelivered, SignalDelivered, TellFailed, SignalFailed, Stages, TypeInv, Undisturbed,
     NoStrays, rowVars, queueVars
<1>2. \A r \in Reports : told'[r]["generated"] = told[r]["generated"]
  <2>1. CASE TellDelivered(w) \/ TellFailed(w)
    <3>1. PICK topic \in {"delivered", "failed"} : Tell(work[w].job, topic)
      BY <2>1 DEF TellDelivered, TellFailed
    <3>2. work[w].job \in Reports \cup Mails
      BY <1>1 DEF Handling
    <3>3. \A r \in Reports : <<r, "generated">> # <<work[w].job, topic>>
      OBVIOUS
    <3> QED
      BY <3>1, <3>2, <3>3, Told DEF TypeInv, Topics
  <2>2. CASE ~(TellDelivered(w) \/ TellFailed(w))
    BY <2>2 DEF Load, SaveFile, AnnounceReport, FindAttachment, FetchFile, SendMail,
       SignalDelivered, SignalFailed
  <2> QED
    BY <2>1, <2>2
<1>3. \A v \in Workers : v # w => work'[v] = work[v]
  BY <1>1 DEF Load, SaveFile, AnnounceReport, FindAttachment, FetchFile, SendMail,
     TellDelivered, SignalDelivered, TellFailed, SignalFailed, GoTo, TypeInv, WorkTyped
<1>4. \A r \in Reports : Attached(r) => Attached(r)'
  <2>1. CASE AnnounceReport(w)
    <3>1. work'[w].stage = "ack" /\ work'[w].queue = work[w].queue /\ work'[w].job = work[w].job
      BY <1>1, <2>1, Moved DEF AnnounceReport
    <3> QED
      BY <1>3, <3>1 DEF Attached
  <2>2. CASE ~AnnounceReport(w)
    <3>1. work[w].stage \notin {"announce", "ack"}
      BY <2>2 DEF Load, SaveFile, FindAttachment, FetchFile, SendMail, TellDelivered,
         SignalDelivered, TellFailed, SignalFailed, At
    <3> QED
      BY <1>3, <3>1 DEF Attached
  <2> QED
    BY <2>1, <2>2
<1>5. NoStrays'
  <2>1. CASE holder' = holder
    BY <1>1, <1>3, <2>1 DEF Undisturbed, NoStrays
  <2>2. CASE holder' # holder
    <3>1. work'[w] = Resting
      BY <1>1, <2>2 DEF Load, SaveFile, AnnounceReport, FindAttachment, FetchFile, SendMail,
         TellDelivered, SignalDelivered, TellFailed, SignalFailed, queueVars, TypeInv, WorkTyped
    <3> QED
      BY <1>1, <1>3, <3>1 DEF Undisturbed, NoStrays
  <2> QED
    BY <2>1, <2>2
<1> QED
  BY <1>1, <1>2, <1>4, <1>5, SendableLeftAlone

\* A delivery finds every handler at rest.
LEMMA DeliverSendable ==
    ASSUME TypeInv, Undisturbed, NEW w \in Workers, NEW q \in Queues, Deliver(w, q)
    PROVE  Undisturbed'
<1>1. \A v \in Workers : work[v] = Resting
  BY ReportsAssumption DEF Deliver, Undisturbed, NoStrays
<1>2. \A r \in Reports : ~Attached(r)
  BY <1>1 DEF Attached, Resting
<1>3. NoStrays'
  BY <1>1 DEF Deliver, NoStrays, TypeInv, WorkTyped
<1> QED
  BY <1>2, <1>3, SendableLeftAlone DEF Deliver, rowVars

LEMMA SaveReportSendable ==
    ASSUME TypeInv, Undisturbed, NEW r \in Reports, SaveReport(r)
    PROVE  Undisturbed'
<1>1. /\ r \notin asked /\ asked' = asked \cup {r} /\ creating' = creating \cup {r}
      /\ UNCHANGED <<attachments, gone, queue, work, told, holder>>
  BY DEF SaveReport, queueVars
<1>2. /\ Waiting' = Waiting
      /\ \A x : AttachmentsOf(x)' = AttachmentsOf(x) /\ (Attached(x)' <=> Attached(x))
  BY <1>1 DEF Waiting, AttachmentsOf, Attached
<1>3. QueuedOnce'
  BY <1>1, <1>2 DEF Undisturbed, QueuedOnce
<1>4. NoneYet'
  BY <1>1, <1>2 DEF Undisturbed, NoneYet
<1>5. OneEach' /\ NoStrays'
  BY <1>1, <1>2 DEF Undisturbed, OneEach, NoStrays
<1> QED
  BY <1>3, <1>4, <1>5 DEF Undisturbed

LEMMA QueueReportSendable ==
    ASSUME TypeInv, Undisturbed, NEW r \in Reports, QueueReport(r)
    PROVE  Undisturbed'
<1>1. /\ r \in creating /\ creating' = creating \ {r} /\ r \in asked /\ r \notin Waiting
      /\ UNCHANGED <<asked, attachments, gone, work, told, holder>>
  BY DEF QueueReport, Undisturbed, QueuedOnce
<1>2. \A x : AttachmentsOf(x)' = AttachmentsOf(x) /\ (Attached(x)' <=> Attached(x))
  BY <1>1 DEF AttachmentsOf, Attached
<1>3. /\ Waiting' \subseteq Waiting \cup {r}
      /\ \A n, k \in DOMAIN queue'["generation"] :
            queue'["generation"][n] = queue'["generation"][k] => n = k
  <2>1. CASE UNCHANGED queue
    BY <2>1 DEF Waiting, Undisturbed, QueuedOnce
  <2>2. CASE queue' = [queue EXCEPT !["generation"] = Append(@, r)]
    <3> DEFINE s == queue["generation"]
    <3>1. queue'["generation"] = Append(s, r) /\ s \in Seq(Reports)
      BY <2>2 DEF TypeInv, QueuesTyped, Queues
    <3>2. /\ DOMAIN Append(s, r) = 1..Len(s) + 1 /\ DOMAIN s = 1..Len(s) /\ Len(s) \in Nat
          /\ Append(s, r)[Len(s) + 1] = r
          /\ \A n \in DOMAIN s : Append(s, r)[n] = s[n]
      BY <3>1, Appended
    <3>3. \A n \in DOMAIN s : s[n] # r
      BY <1>1 DEF Waiting
    <3>4. \A n, k \in DOMAIN s : s[n] = s[k] => n = k
      BY DEF Undisturbed, QueuedOnce
    <3>5. \A n \in DOMAIN Append(s, r) : n \in DOMAIN s \/ n = Len(s) + 1
      BY <3>2
    <3>6. Waiting' \subseteq Waiting \cup {r}
      BY <3>1, <3>2, <3>5 DEF Waiting
    <3> HIDE DEF s
    <3> QED
      BY <3>1, <3>2, <3>3, <3>4, <3>5, <3>6
  <2> QED
    BY <2>1, <2>2 DEF QueueReport
<1>4. QueuedOnce'
  BY <1>1, <1>3 DEF Undisturbed, QueuedOnce
<1>5. NoneYet'
  BY <1>1, <1>2, <1>3 DEF Undisturbed, NoneYet
<1>6. OneEach' /\ NoStrays'
  BY <1>1, <1>2 DEF Undisturbed, OneEach, NoStrays
<1> QED
  BY <1>4, <1>5, <1>6 DEF Undisturbed

\* The row that is written is the first of a report that waits.
LEMMA SaveRowSendable ==
    ASSUME TypeInv, Undisturbed, NEW w \in Workers, SaveRow(w)
    PROVE  Undisturbed'
<1> DEFINE r == work[w].job
           row == [report |-> r, file |-> work[w].file]
<1>1. /\ work[w] # Resting /\ work[w].stage = "attach" /\ work[w].queue = "generation"
      /\ r \in Reports /\ holder = w
      /\ attachments' = attachments \cup {row} /\ row.report = r
      /\ UNCHANGED <<creating, gone, asked, queue, holder>>
  BY AtWork, Working DEF SaveRow, Stages, TypeInv, Fits, Generating, Undisturbed, NoStrays,
     queueVars
<1>2. /\ work'[w].stage = "announce" /\ work'[w].queue = "generation" /\ work'[w].job = r
      /\ \A v \in Workers : v # w => work'[v] = work[v] /\ work[v] = Resting
  BY <1>1, Moved DEF SaveRow, Undisturbed, NoStrays
<1>3. r \in Waiting
  BY <1>1, ReportsAssumption DEF TypeInv, HeadHeld, Waiting, QueuesTyped
<1>4. \A x : ~Attached(x) /\ (Attached(x)' <=> x = r)
  BY <1>1, <1>2 DEF Attached, Resting
<1>5. AttachmentsOf(r) = {}
  BY <1>1, <1>3, <1>4 DEF Undisturbed, NoneYet
<1>6. \A x : told'[x]["generated"] # told[x]["generated"] /\ x \in Reports => x = r
  BY <1>1, Told DEF SaveRow, TypeInv, Topics
<1>7. /\ Waiting' = Waiting
      /\ \A x : AttachmentsOf(x)' = IF x = r THEN {row} ELSE AttachmentsOf(x)
  BY <1>1, <1>5 DEF Waiting, AttachmentsOf
<1>8. r \in asked \ creating
  BY <1>3 DEF Undisturbed, QueuedOnce
<1> HIDE DEF r, row
<1>9. QueuedOnce'
  BY <1>1, <1>7 DEF Undisturbed, QueuedOnce
<1>10. NoneYet'
  BY <1>1, <1>4, <1>7, <1>8 DEF Undisturbed, NoneYet
<1>11. OneEach'
  BY <1>1, <1>6, <1>7 DEF Undisturbed, OneEach
<1>12. NoStrays'
  BY <1>1, <1>2 DEF Undisturbed, NoStrays
<1> QED
  BY <1>9, <1>10, <1>11, <1>12 DEF Undisturbed

\* The report whose handler ends waits no more.
LEMMA AckSendable ==
    ASSUME TypeInv, Undisturbed, NEW w \in Workers, Ack(w)
    PROVE  Undisturbed'
<1>1. /\ work[w] # Resting /\ work[w].queue \in Queues /\ holder = w
      /\ UNCHANGED <<attachments, creating, gone, asked, told>>
      /\ queue' = [queue EXCEPT ![work[w].queue] = Tail(@)]
      /\ queue[work[w].queue] # <<>> /\ Head(queue[work[w].queue]) = work[w].job
  BY AtWork, Working, ReportsAssumption DEF Ack, Stages, TypeInv, HeadHeld, Undisturbed,
     NoStrays, rowVars
<1>2. /\ \A v \in Workers : v # w => work[v] = Resting
      /\ \A v \in Workers : work'[v] = Resting
  BY <1>1 DEF Ack, TypeInv, WorkTyped, Undisturbed, NoStrays
<1>3. NoStrays'
  BY <1>2 DEF NoStrays
<1>4. CASE work[w].queue # "generation"
  <2>1. queue'["generation"] = queue["generation"]
    BY <1>1, <1>4 DEF TypeInv, QueuesTyped
  <2>2. \A x : ~Attached(x)
    BY <1>2, <1>4 DEF Attached, Resting
  <2> QED
    BY <1>1, <1>3, <2>1, <2>2, SendableLeftAlone
<1>5. CASE work[w].queue = "generation"
  <2> DEFINE s == queue["generation"]
             r == work[w].job
  <2>1. s \in Seq(Reports) /\ s # <<>> /\ Head(s) = r /\ queue'["generation"] = Tail(s)
    BY <1>1, <1>5 DEF TypeInv, QueuesTyped
  <2>2. /\ Len(s) \in Nat /\ Len(s) > 0 /\ DOMAIN s = 1..Len(s) /\ s[1] = r
        /\ DOMAIN Tail(s) = 1..Len(s) - 1
        /\ \A n \in DOMAIN Tail(s) : Tail(s)[n] = s[n + 1] /\ n + 1 \in DOMAIN s /\ n + 1 # 1
    BY <2>1
  <2>3. \A n, k \in DOMAIN s : s[n] = s[k] => n = k
    BY DEF Undisturbed, QueuedOnce
  <2>4. \A n, k \in DOMAIN Tail(s) : Tail(s)[n] = Tail(s)[k] => n = k
    <3> SUFFICES ASSUME NEW n \in DOMAIN Tail(s), NEW k \in DOMAIN Tail(s),
                        Tail(s)[n] = Tail(s)[k]
                 PROVE  n = k
      OBVIOUS
    <3>1. n + 1 = k + 1
      BY <2>2, <2>3
    <3>2. n \in Nat /\ k \in Nat
      BY <2>2
    <3> QED
      BY <3>1, <3>2
  <2>5. \A n \in DOMAIN Tail(s) : Tail(s)[n] # r
    BY <2>2, <2>3
  <2>6. Waiting' \subseteq Waiting \ {r}
    BY <2>1, <2>2, <2>5 DEF Waiting
  <2>7. \A x : Attached(x) => x = r
    BY <1>2 DEF Attached, Resting
  <2>8. \A x : AttachmentsOf(x)' = AttachmentsOf(x)
    BY <1>1 DEF AttachmentsOf
  <2> HIDE DEF s, r
  <2>9. QueuedOnce'
    <3>1. \A n, k \in DOMAIN queue'["generation"] :
              queue'["generation"][n] = queue'["generation"][k] => n = k
      BY <2>1, <2>4
    <3>2. creating' \subseteq asked' /\ Waiting' \subseteq asked' \ creating'
      BY <1>1, <2>6 DEF Undisturbed, QueuedOnce
    <3> QED
      BY <3>1, <3>2 DEF QueuedOnce
  <2>10. NoneYet'
    BY <1>1, <2>6, <2>7, <2>8 DEF Undisturbed, NoneYet
  <2>11. OneEach'
    BY <1>1, <2>8 DEF Undisturbed, OneEach
  <2> QED
    BY <1>3, <2>9, <2>10, <2>11 DEF Undisturbed
<1> QED
  BY <1>4, <1>5

\* A deletion takes no attachment of a report nobody deletes.
LEMMA DeleteRowsSendable ==
    ASSUME FilesInv, Undisturbed, DeleteRows
    PROVE  Undisturbed'
<1>1. PICK d \in deleting :
          /\ attachments' = {a \in attachments : a.file \notin d.files}
          /\ d.report \in gone
          /\ \A a \in attachments : a.file \in d.files => a.report = d.report
  BY DEF DeleteRows, FilesInv, DeletesItsOwn
<1>2. UNCHANGED <<creating, gone, asked, queue, holder, work, told>>
  BY DEF DeleteRows, queueVars
<1>3. /\ Waiting' = Waiting
      /\ \A r : AttachmentsOf(r)' \subseteq AttachmentsOf(r) /\ (Attached(r)' <=> Attached(r))
      /\ \A r \in Reports \ gone : AttachmentsOf(r)' = AttachmentsOf(r)
  BY <1>1, <1>2 DEF Waiting, AttachmentsOf, Attached
<1>4. QueuedOnce' /\ NoStrays'
  BY <1>2, <1>3 DEF Undisturbed, QueuedOnce, NoStrays
<1>5. NoneYet'
  BY <1>2, <1>3 DEF Undisturbed, NoneYet
<1>6. OneEach'
  BY <1>2, <1>3 DEF Undisturbed, OneEach
<1> QED
  BY <1>4, <1>5, <1>6 DEF Undisturbed

LEMMA OtherSendable ==
    ASSUME TypeInv, Undisturbed,
           \/ \E r \in Reports : DeleteFiles(r)
           \/ \E m \in Mails : Send(m)
           \/ UNCHANGED vars
    PROVE  Undisturbed'
<1>1. /\ UNCHANGED <<attachments, creating, work, holder, told>> /\ gone \subseteq gone'
      /\ asked' \subseteq asked \cup Mails /\ asked \subseteq asked'
      /\ queue'["generation"] = queue["generation"]
  BY DEF DeleteFiles, Send, vars, rowVars, queueVars, TypeInv, QueuesTyped, Queues
<1>2. NoStrays' /\ \A r : Attached(r)' <=> Attached(r)
  BY <1>1 DEF NoStrays, Attached, Undisturbed
<1> QED
  BY <1>1, <1>2, ReportsAssumption, SendableLeftAlone

LEMMA SendableStep == TypeInv /\ FilesInv /\ SendableInv /\ [Next]_vars => SendableInv'
<1> SUFFICES ASSUME TypeInv, FilesInv, SendableInv, [Next]_vars, ~interrupted'
             PROVE  Undisturbed'
  BY DEF SendableInv
<1>1. ~Crash /\ ~Lose
  BY DEF Crash, Lose
<1>2. UNCHANGED interrupted
  BY <1>1 DEF Next, vars, Handle, SaveReport, QueueReport, Send, DeleteFiles, DeleteRows,
     Deliver, Ack, Load, SaveFile, SaveRow, AnnounceReport, FindAttachment, FetchFile, SendMail,
     TellDelivered, SignalDelivered, TellFailed, SignalFailed
<1>3. Undisturbed
  BY <1>2 DEF SendableInv
<1> QED
  BY <1>1, <1>3, HandlerSendable, DeliverSendable, SaveReportSendable, QueueReportSendable,
     SaveRowSendable, AckSendable, DeleteRowsSendable, OtherSendable DEF Next, Handle

\* A report whose generation was announced has one attachment and can be sent,
\* whatever template, storage, mail or signal fails and whatever is deleted
\* beside it, unless the API restarted or lost its connection.
THEOREM AnnouncedCanBeSent == Spec => []GeneratedIsSendable
<1>1. OneEach => Sendable
  <2> SUFFICES ASSUME OneEach, NEW r \in Reports \ gone, told[r]["generated"] > 0
               PROVE  Cardinality(AttachmentsOf(r)) = 1
    BY DEF Sendable
  <2>1. \A a, b \in AttachmentsOf(r) : a = b
    BY DEF OneEach
  <2>2. PICK a : a \in AttachmentsOf(r)
    BY DEF OneEach
  <2>3. AttachmentsOf(r) = {a}
    BY <2>1, <2>2
  <2> QED
    BY <2>3, FS_Singleton
<1>2. SendableInv => GeneratedIsSendable
  BY <1>1 DEF SendableInv, Undisturbed, GeneratedIsSendable
<1> QED
  BY <1>2, InitTyped, TypeStep, InitFiles, FilesStep, InitSendable, SendableStep, PTL DEF Spec
===============================================================================
