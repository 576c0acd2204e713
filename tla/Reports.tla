------------------------------- MODULE Reports -------------------------------
(***************************************************************************)
(* Reports: ReportsController saves a report and queues its generation;    *)
(* ReportGenerationProcessor stores a file and attaches it;                *)
(* ReportEmailProcessor sends that file.  Files are kept outside the       *)
(* database, so their rows and they are written one after the other.  Both *)
(* processors hang on the channel of MessageQueue, which runs one handler  *)
(* at a time beside those a lost connection has left behind.               *)
(***************************************************************************)
EXTENDS Naturals, Sequences, FiniteSets

CONSTANTS
    Reports,     \* reports users ask for
    BadTemplate, \* those whose template is missing or does not render
    Mails,       \* requests to send a report
    ReportOf,    \* the report each is about
    Deletable,   \* reports users delete
    Workers,     \* handlers that may run at the same time
    FaultKinds,  \* "create", "storage", "smtp", "publish", "crash", "lose"
    MaxFaults    \* bound

None == "none"
Queues == {"generation", "emails"}

ASSUME ReportsAssumption ==
    /\ None \notin Workers
    /\ Reports \cap Mails = {}
    /\ ReportOf \in [Mails -> Reports]
    /\ MaxFaults \in Nat

VARIABLES
    creating,    \* reports saved by a request that has yet to queue them
    reports,     \* rows of the table report
    attachments, \* rows of the table attachment
    files,       \* files in the storage
    written,     \* how many files were written
    deleting,    \* the reports being deleted, with the files that were found
    gone,        \* reports whose deletion has begun once
    queue,       \* each queue, the oldest first
    holder,      \* the handler the broker has delivered the head of a queue to
    work,        \* what each handler is doing
    sent,        \* how often each mail was sent
    told,        \* notifications stored
    asked,       \* reports and mails requested
    interrupted, \* history: whether the API restarted or lost its connection
    faults       \* how many faults there were

rowVars == <<creating, reports, attachments, files, written, deleting, gone, asked>>
queueVars == <<queue, holder>>
vars == <<rowVars, queueVars, work, sent, told, interrupted, faults>>

Topics == {"generated", "delivered", "failed"}
Resting == [stage |-> "idle"]
Stages == {"load", "upload", "attach", "announce",
           "find", "fetch", "send", "delivered", "signal",
           "failed", "signalFailure", "ack"}

\* The broker's delivery is the head of a queue, and its handler works on it.
TypeOK ==
    /\ creating \subseteq Reports /\ reports \subseteq Reports
    /\ gone \subseteq Reports /\ asked \subseteq Reports \cup Mails
    /\ attachments \subseteq [report : Reports, file : 1..written]
    /\ files \subseteq 1..written
    /\ deleting \subseteq [report : Reports, files : SUBSET (1..written)]
    /\ queue["generation"] \in Seq(Reports) /\ queue["emails"] \in Seq(Mails)
    /\ holder \in Workers \cup {None}
    /\ \A w \in Workers : work[w] # Resting =>
          /\ work[w].stage \in Stages
          /\ work[w].job \in (IF work[w].queue = "emails" THEN Mails ELSE Reports)
          /\ work[w].file \in 0..written
    /\ holder # None => /\ work[holder] # Resting
                        /\ queue[work[holder].queue] # <<>>
                        /\ Head(queue[work[holder].queue]) = work[holder].job
    /\ sent \in [Mails -> Nat]
    /\ told \in [Reports \cup Mails -> [Topics -> Nat]]
    /\ interrupted \in BOOLEAN /\ faults \in 0..MaxFaults

Init ==
    /\ creating = {} /\ reports = {} /\ gone = {} /\ asked = {}
    /\ attachments = {} /\ files = {} /\ written = 0
    /\ deleting = {}
    /\ queue = [q \in Queues |-> <<>>] /\ holder = None
    /\ work = [w \in Workers |-> Resting]
    /\ sent = [m \in Mails |-> 0]
    /\ told = [x \in Reports \cup Mails |-> [t \in Topics |-> 0]]
    /\ interrupted = FALSE /\ faults = 0

AttachmentsOf(r) == {a \in attachments : a.report = r}

Fault(kind) ==
    /\ kind \in FaultKinds
    /\ faults < MaxFaults
    /\ faults' = faults + 1

-------------------------------------------------------------------------------
(* ReportsController.                                                      *)

\* Create saves the report ...
SaveReport(r) ==
    /\ r \notin asked
    /\ asked' = asked \cup {r}
    /\ reports' = reports \cup {r}
    /\ creating' = creating \cup {r}
    /\ UNCHANGED <<interrupted, attachments, files, written, deleting, gone, queueVars, work,
                   sent, told, faults>>

\* ... and then queues its generation, unless it fails in between.
QueueReport(r) ==
    /\ r \in creating
    /\ creating' = creating \ {r}
    /\ \/ /\ queue' = [queue EXCEPT !["generation"] = Append(@, r)]
          /\ UNCHANGED faults
       \/ Fault("create") /\ UNCHANGED queue
    /\ UNCHANGED <<interrupted, reports, attachments, files, written, deleting, gone, asked,
                   holder, work, sent, told>>

\* Send insists on one attachment: SingleOrDefault throws on more.
Send(m) ==
    /\ m \notin asked
    /\ ReportOf[m] \in reports
    /\ Cardinality(AttachmentsOf(ReportOf[m])) = 1
    /\ asked' = asked \cup {m}
    /\ queue' = [queue EXCEPT !["emails"] = Append(@, m)]
    /\ UNCHANGED <<interrupted, creating, reports, attachments, files, written, deleting, gone,
                   holder, work, sent, told, faults>>

\* DeleteOne removes the files it finds, ...
DeleteFiles(r) ==
    /\ r \in Deletable \cap reports
    /\ \A d \in deleting : d.report # r
    /\ deleting' = deleting \cup {[report |-> r, files |-> {a.file : a \in AttachmentsOf(r)}]}
    /\ files' = files \ {a.file : a \in AttachmentsOf(r)}
    /\ gone' = gone \cup {r}
    /\ UNCHANGED <<interrupted, creating, reports, attachments, written, asked, queueVars, work,
                   sent, told, faults>>

\* ... then their rows and the report's.
DeleteRows ==
    /\ \E d \in deleting :
          /\ attachments' = {a \in attachments : a.file \notin d.files}
          /\ reports' = reports \ {d.report}
          /\ deleting' = deleting \ {d}
    /\ UNCHANGED <<interrupted, creating, files, written, gone, asked, queueVars, work, sent,
                   told, faults>>

-------------------------------------------------------------------------------
(* Handlers and their queues.                                              *)

At(w, stage) == work[w].stage = stage
GoTo(w, stage) == work' = [work EXCEPT ![w].stage = stage]
Tell(x, topic) == told' = [told EXCEPT ![x][topic] = @ + 1]

Deliver(w, q) ==
    /\ holder = None /\ queue[q] # <<>> /\ work[w] = Resting
    /\ holder' = w
    /\ work' = [work EXCEPT ![w] =
                  [stage |-> IF q = "emails" THEN "find" ELSE "load",
                   queue |-> q, job |-> Head(queue[q]), file |-> 0]]
    /\ UNCHANGED <<interrupted, rowVars, queue, sent, told, faults>>

\* A handler whose channel is gone has nothing to give back.
Free(w) == holder' = IF holder = w THEN None ELSE holder

\* Mutant of Ack: any handler that ends takes the head off its queue.
AckAny(w) ==
    /\ At(w, "ack")
    /\ queue[work[w].queue] # <<>>
    /\ queue' = [queue EXCEPT ![work[w].queue] = Tail(@)]
    /\ work' = [work EXCEPT ![w] = Resting]
    /\ Free(w)
    /\ UNCHANGED <<interrupted, rowVars, sent, told, faults>>

\* Mutant of Ack: the acknowledgement never reaches the broker.
AckForgotten(w) ==
    /\ At(w, "ack")
    /\ work' = [work EXCEPT ![w] = Resting]
    /\ UNCHANGED <<interrupted, rowVars, queueVars, sent, told, faults>>

Ack(w) ==
    /\ At(w, "ack")
    /\ queue' = IF holder = w THEN [queue EXCEPT ![work[w].queue] = Tail(@)] ELSE queue
    /\ work' = [work EXCEPT ![w] = Resting]
    /\ Free(w)
    /\ UNCHANGED <<interrupted, rowVars, sent, told, faults>>

-------------------------------------------------------------------------------
(* ReportGenerationProcessor: whatever goes wrong is logged and the        *)
(* message acknowledged.                                                   *)

Load(w) ==
    /\ At(w, "load")
    /\ GoTo(w, IF work[w].job \in reports \ BadTemplate THEN "upload" ELSE "ack")
    /\ UNCHANGED <<interrupted, rowVars, queueVars, sent, told, faults>>

SaveFile(w) ==
    /\ At(w, "upload")
    /\ \/ /\ written' = written + 1
          /\ files' = files \cup {written + 1}
          /\ work' = [work EXCEPT ![w].stage = "attach", ![w].file = written + 1]
          /\ UNCHANGED faults
       \/ Fault("storage") /\ GoTo(w, "ack") /\ UNCHANGED <<written, files>>
    /\ UNCHANGED <<interrupted, creating, reports, attachments, deleting, gone, asked, queueVars,
                   sent, told>>

\* Mutant of SaveRow: the row is written although its file was not.
SaveRowEarly(w) ==
    /\ At(w, "upload")
    /\ written' = written + 1
    /\ attachments' = attachments \cup {[report |-> work[w].job, file |-> written + 1]}
    /\ Tell(work[w].job, "generated")
    /\ GoTo(w, "announce")
    /\ UNCHANGED <<interrupted, creating, reports, files, deleting, gone, asked, queueVars, sent, faults>>

\* One SaveChanges for the attachment and the notification.
SaveRow(w) ==
    /\ At(w, "attach")
    /\ attachments' = attachments \cup {[report |-> work[w].job, file |-> work[w].file]}
    /\ Tell(work[w].job, "generated")
    /\ GoTo(w, "announce")
    /\ UNCHANGED <<interrupted, creating, reports, files, written, deleting, gone, asked,
                   queueVars, sent, faults>>

\* Mutant of AnnounceReport: the error is not caught and the message refused.
AnnounceOrRefuse(w) ==
    /\ At(w, "announce")
    /\ \/ GoTo(w, "ack") /\ UNCHANGED <<holder, faults>>
       \/ /\ Fault("publish")
          /\ work' = [work EXCEPT ![w] = Resting] /\ Free(w)
    /\ UNCHANGED <<interrupted, rowVars, queue, sent, told>>

\* The signal to the browsers; its error is caught like any other.
AnnounceReport(w) ==
    /\ At(w, "announce")
    /\ GoTo(w, "ack")
    /\ Fault("publish") \/ UNCHANGED faults
    /\ UNCHANGED <<interrupted, rowVars, queueVars, sent, told>>

-------------------------------------------------------------------------------
(* ReportEmailProcessor: what goes wrong is told to the user.              *)

FindAttachment(w) ==
    LET found == AttachmentsOf(ReportOf[work[w].job]) IN
    /\ At(w, "find")
    /\ \/ /\ Cardinality(found) = 1
          /\ work' = [work EXCEPT ![w].stage = "fetch",
                                  ![w].file = (CHOOSE a \in found : TRUE).file]
       \/ Cardinality(found) # 1 /\ GoTo(w, "failed")
    /\ UNCHANGED <<interrupted, rowVars, queueVars, sent, told, faults>>

FetchFile(w) ==
    /\ At(w, "fetch")
    /\ \/ /\ work[w].file \in files
          /\ GoTo(w, "send")
          /\ UNCHANGED faults
       \/ work[w].file \notin files /\ GoTo(w, "failed") /\ UNCHANGED faults
       \/ Fault("storage") /\ GoTo(w, "failed")
    /\ UNCHANGED <<interrupted, rowVars, queueVars, sent, told>>

\* Mutant of SendMail: an SMTP error is not noticed.
SendMailBlindly(w) ==
    /\ At(w, "send")
    /\ GoTo(w, "delivered")
    /\ \/ /\ sent' = [sent EXCEPT ![work[w].job] = @ + 1]
          /\ UNCHANGED faults
       \/ Fault("smtp") /\ UNCHANGED sent
    /\ UNCHANGED <<interrupted, rowVars, queueVars, told>>

SendMail(w) ==
    /\ At(w, "send")
    /\ \/ /\ sent' = [sent EXCEPT ![work[w].job] = @ + 1]
          /\ GoTo(w, "delivered")
          /\ UNCHANGED faults
       \/ Fault("smtp") /\ GoTo(w, "failed") /\ UNCHANGED sent
    /\ UNCHANGED <<interrupted, rowVars, queueVars, told>>

TellDelivered(w) ==
    /\ At(w, "delivered")
    /\ Tell(work[w].job, "delivered")
    /\ GoTo(w, "signal")
    /\ UNCHANGED <<interrupted, rowVars, queueVars, sent, faults>>

\* The signal is inside the try: when it fails, so does the mail.
SignalDelivered(w) ==
    /\ At(w, "signal")
    /\ \/ GoTo(w, "ack") /\ UNCHANGED faults
       \/ Fault("publish") /\ GoTo(w, "failed")
    /\ UNCHANGED <<interrupted, rowVars, queueVars, sent, told>>

\* Mutant of TellFailed: the error is only logged.
TellNobody(w) ==
    /\ At(w, "failed")
    /\ GoTo(w, "signalFailure")
    /\ UNCHANGED <<interrupted, rowVars, queueVars, sent, told, faults>>

TellFailed(w) ==
    /\ At(w, "failed")
    /\ Tell(work[w].job, "failed")
    /\ GoTo(w, "signalFailure")
    /\ UNCHANGED <<interrupted, rowVars, queueVars, sent, faults>>

\* An error here leaves the handler, and the message is refused.
SignalFailed(w) ==
    /\ At(w, "signalFailure")
    /\ \/ GoTo(w, "ack") /\ UNCHANGED <<holder, faults>>
       \/ /\ Fault("publish")
          /\ work' = [work EXCEPT ![w] = Resting]
          /\ Free(w)
    /\ UNCHANGED <<interrupted, rowVars, queue, sent, told>>

-------------------------------------------------------------------------------
\* The API restarts: requests and handlers stop where they are.
Crash ==
    /\ Fault("crash")
    /\ interrupted' = TRUE
    /\ creating' = {}
    /\ deleting' = {}
    /\ work' = [w \in Workers |-> Resting]
    /\ holder' = None
    /\ UNCHANGED <<reports, attachments, files, written, gone, asked, queue, sent, told>>

\* The connection is lost and recovered under a handler that goes on.
Lose ==
    /\ Fault("lose")
    /\ interrupted' = TRUE
    /\ holder # None
    /\ holder' = None
    /\ UNCHANGED <<rowVars, queue, work, sent, told>>

Handle(w) ==
    \/ Load(w) \/ SaveFile(w) \/ SaveRow(w) \/ AnnounceReport(w)
    \/ FindAttachment(w) \/ FetchFile(w) \/ SendMail(w) \/ TellDelivered(w)
    \/ SignalDelivered(w) \/ TellFailed(w) \/ SignalFailed(w) \/ Ack(w)

Next ==
    \/ \E r \in Reports :
          SaveReport(r) \/ QueueReport(r) \/ DeleteFiles(r)
    \/ \E m \in Mails : Send(m)
    \/ \E w \in Workers : Handle(w) \/ \E q \in Queues : Deliver(w, q)
    \/ DeleteRows \/ Crash \/ Lose

Spec == Init /\ [][Next]_vars

\* Requests go on, the broker delivers from every queue, handlers end.
FairSpec ==
    /\ Spec
    /\ \A r \in Reports : WF_vars(QueueReport(r))
    /\ WF_vars(DeleteRows)
    /\ \A w \in Workers : WF_vars(Handle(w))
    /\ \A q \in Queues : SF_vars(\E w \in Workers : Deliver(w, q))

-------------------------------------------------------------------------------
\* Send and the email processor only send a report with one attachment.
Sendable ==
    \A r \in Reports \ gone : told[r]["generated"] > 0
        => Cardinality(AttachmentsOf(r)) = 1

\* A report whose generation was announced can be sent, whatever else failed,
\* as long as no handler was interrupted.
GeneratedIsSendable == ~interrupted => Sendable

\* An attachment that is listed can be fetched until someone begins to delete
\* its report: the file is stored before its row and removed first.
AttachmentsHaveFiles ==
    \A a \in attachments : a.report \in gone \/ a.file \in files

\* Whoever is told that a mail was delivered had it sent, and a mail leaves its
\* queue only once its user was told something.
AnsweredTruly ==
    \A m \in Mails :
        /\ told[m]["delivered"] > 0 => sent[m] > 0
        /\ (/\ m \in asked
            /\ \A n \in DOMAIN queue["emails"] : queue["emails"][n] # m)
           => told[m]["delivered"] + told[m]["failed"] > 0

\* Every mail that was accepted is answered in the end, in whatever state its
\* report is by then.
MailAnswered ==
    \A m \in Mails : m \in asked ~> told[m]["delivered"] + told[m]["failed"] > 0

\* Every report with a good template is generated in the end, or deleted, or
\* something failed.
ReportGenerated ==
    \A r \in Reports \ BadTemplate :
        r \in asked ~> told[r]["generated"] > 0 \/ r \notin reports \/ faults > 0

-------------------------------------------------------------------------------
\* saved-reports.md: "Saved reports can also be sent by email", also when the
\* API restarted in between.
AlwaysSendable == Sendable
===============================================================================
