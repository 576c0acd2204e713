----------------------------- MODULE CommandResults -----------------------------
(***************************************************************************)
(* What becomes of an uploaded tool output: CommandResultProcessor takes   *)
(* jobs from the queue "tasks" and stores the assets and the findings the  *)
(* parser returns.  It shares one database context with                    *)
(* AssetUpsertService, so the SaveChanges of an asset also writes the      *)
(* findings added so far, in one transaction.  Users work on the same      *)
(* tables.  A connection that is lost leaves its handler running beside    *)
(* the one the message is delivered to again.  An API that stops cancels   *)
(* the calls its handlers pass the stopping token to, and lets them go on. *)
(***************************************************************************)
EXTENDS Naturals, Sequences, FiniteSets

CONSTANTS
    Jobs,        \* uploaded outputs
    Tree,        \* the assets each output holds, parents first
    Findings,    \* its findings: [asset, summary]
    Unparsable,  \* outputs whose parser throws
    Unknown,     \* jobs of usages that do not exist
    Anonymous,   \* jobs without a user to notify
    Workers,     \* handlers that may run at the same time
    Assets,      \* names of assets
    Summaries,   \* of findings
    MaxEdits,    \* bound: what users change of findings and assets
    Deletes,     \* whether the project may be deleted
    MaxFaults    \* bound: restarts, losses and errors together

None == "none"

ASSUME ResultsAssumption ==
    /\ None \notin Assets \cup Jobs \cup Workers
    /\ Tree \in [Jobs -> Seq(Assets)]
    /\ \A j \in Jobs : Findings[j] \in
           Seq([asset : Assets \cup {None}, summary : Summaries])
    /\ Deletes \in BOOLEAN
    /\ MaxEdits \in Nat /\ MaxFaults \in Nat

Keys == [asset : Assets \cup {None}, summary : Summaries]
Notices == {"assets", "findings", "signal"}
Parts == {"assets", "findings"}

VARIABLES
    project,   \* whether the project still exists
    assets,    \* rows of the table asset
    rows,      \* rows of the table finding: how many, by status
    queue,     \* jobs to be acknowledged, the oldest first
    holder,    \* the handler the broker has delivered the head to
    work,      \* what each handler is doing
    done,      \* jobs acknowledged
    dropped,   \* parts of jobs that failed calls made the broker's handler give up
    notices,   \* notifications stored and published for each job
    opened,    \* findings that users created or opened again
    edits,
    stopping,  \* whether the API has been told to stop
    restarts,  \* of the API
    losses,    \* lost connections, failed publications and reads
    errors     \* failed database calls

store  == <<project, assets, rows>>
broker == <<queue, holder, done, dropped>>
users  == <<opened, edits>>
faults == <<stopping, restarts, losses, errors>>
vars   == <<store, broker, work, notices, users, faults>>

Stages == {"parse", "find", "save", "announce", "check", "add", "flush",
           "report", "publish", "ack"}

Resting == [stage |-> "idle"]

Handling ==
    [stage : Stages, job : Jobs, phase : Parts, i : Nat \ {0},
     found : BOOLEAN, created : Nat, added : Nat, pending : Seq(Keys)]

\* The broker's delivery is the head of the queue, and its handler works on it.
TypeOK ==
    /\ project \in BOOLEAN
    /\ assets \subseteq Assets
    /\ rows \in [Keys -> [open : Nat, closed : Nat]]
    /\ queue \in Seq(Jobs)
    /\ work \in [Workers -> Handling \cup {Resting}]
    /\ holder \in Workers \cup {None}
    /\ holder # None => /\ work[holder] # Resting
                        /\ queue # <<>> /\ work[holder].job = Head(queue)
    /\ done \subseteq Jobs
    /\ dropped \subseteq Jobs \X Parts
    /\ notices \in [Jobs -> [Notices -> Nat]]
    /\ opened \subseteq Keys
    /\ edits \in 0..MaxEdits
    /\ stopping \in BOOLEAN /\ (stopping => restarts > 0)
    /\ restarts \in Nat /\ losses \in Nat /\ errors \in Nat
    /\ restarts + losses + errors =< MaxFaults

Init ==
    /\ project = TRUE
    /\ assets = {}
    /\ rows = [k \in Keys |-> [open |-> 0, closed |-> 0]]
    /\ queue = <<>> /\ holder = None /\ done = {} /\ dropped = {}
    /\ work = [w \in Workers |-> Resting]
    /\ notices = [j \in Jobs |-> [n \in Notices |-> 0]]
    /\ opened = {} /\ edits = 0
    /\ stopping = FALSE /\ restarts = 0 /\ losses = 0 /\ errors = 0

-------------------------------------------------------------------------------
(* The tables.                                                             *)

Exists(k) == rows[k].open + rows[k].closed > 0

\* How often a sequence holds a key.
Times(s, k) == Cardinality({n \in DOMAIN s : s[n] = k})

\* What the constraints let a transaction insert: UNIQUE (project_id,
\* asset_id, summary) does not bind findings without an asset.
Insertable(s) ==
    /\ project
    /\ \A n \in DOMAIN s :
          s[n].asset # None => ~Exists(s[n]) /\ Times(s, s[n]) = 1

Inserted(s) == [k \in Keys |-> [rows[k] EXCEPT !.open = @ + Times(s, k)]]

(* Where a handler goes on.                                                *)

Items(l) == IF l.phase = "assets" THEN Tree[l.job] ELSE Findings[l.job]

AssetOf(l) == IF l.phase = "assets" THEN Tree[l.job][l.i]
              ELSE Findings[l.job][l.i].asset

\* The stage that begins the item the handler is at.
Turn(l) ==
    [l EXCEPT !.stage =
        IF l.i =< Len(Items(l))
        THEN IF AssetOf(l) = None THEN "check" ELSE "find"
        ELSE IF l.phase = "assets" THEN "announce"
        ELSE IF Items(l) = <<>> THEN "publish" ELSE "flush"]

NextItem(l) == Turn([l EXCEPT !.i = @ + 1])

ToFindings(l) == Turn([l EXCEPT !.phase = "findings", !.i = 1])

Begun(j) ==
    [stage |-> "parse", job |-> j, phase |-> "assets", i |-> 1, found |-> FALSE,
     created |-> 0, added |-> 0, pending |-> <<>>]

At(w, stage) == work[w].stage = stage
GoOn(w, l) == work' = [work EXCEPT ![w] = l]

-------------------------------------------------------------------------------
(* The queue, as in MessageQueue, of which this is one consumer.           *)

\* UploadOutput publishes the job.
Upload(j) ==
    /\ j \notin done
    /\ \A n \in DOMAIN queue : queue[n] # j
    /\ queue' = Append(queue, j)
    /\ UNCHANGED <<store, holder, done, dropped, work, notices, users, faults>>

\* Mutant of Deliver: the broker forgets the job once it is delivered.
DeliverAutoAck(w) ==
    /\ holder = None /\ queue # <<>> /\ work[w] = Resting
    /\ GoOn(w, Begun(Head(queue)))
    /\ queue' = Tail(queue)
    /\ done' = done \cup {Head(queue)}
    /\ UNCHANGED <<store, holder, dropped, notices, users, faults>>

Deliver(w) ==
    /\ holder = None /\ queue # <<>> /\ work[w] = Resting
    /\ GoOn(w, Begun(Head(queue)))
    /\ holder' = w
    /\ dropped' = {d \in dropped : d[1] # Head(queue)}
    /\ UNCHANGED <<store, queue, done, notices, users, faults>>

\* Mutant of Free: the exception is caught and the job is not given back.
FreeNothing(w) == UNCHANGED holder

\* BasicNack: the job goes back to the head of the queue.  A handler whose
\* channel is gone has nothing to give back.
Free(w) == holder' = IF holder = w THEN None ELSE holder

\* An exception that leaves the handler.
Rest(w) == GoOn(w, Resting) /\ Free(w) /\ UNCHANGED dropped

\* Mutant of Ack: any handler that ends takes the head off the queue.
AckAny(w) ==
    /\ At(w, "ack")
    /\ GoOn(w, Resting)
    /\ queue # <<>>
    /\ queue' = Tail(queue)
    /\ done' = done \cup {Head(queue)}
    /\ Free(w)
    /\ UNCHANGED <<store, dropped, notices, users, faults>>

Ack(w) ==
    /\ At(w, "ack")
    /\ GoOn(w, Resting)
    /\ IF holder = w
       THEN /\ queue' = Tail(queue)
            /\ done' = done \cup {work[w].job}
       ELSE UNCHANGED <<queue, done>>
    /\ Free(w)
    /\ UNCHANGED <<store, dropped, notices, users, faults>>

-------------------------------------------------------------------------------
(* The handler.                                                            *)

May == restarts + losses + errors < MaxFaults

\* An unknown usage is logged and acknowledged.  A parser that throws, on
\* what it reads or because the storage fails, sends the job back.
Parse(w) ==
    LET l == work[w] IN
    /\ At(w, "parse")
    /\ \/ /\ l.job \notin Unparsable \ Unknown
          /\ GoOn(w, IF l.job \in Unknown THEN [l EXCEPT !.stage = "ack"] ELSE Turn(l))
          /\ UNCHANGED <<holder, dropped, losses>>
       \/ /\ l.job \notin Unknown
          /\ l.job \notin Unparsable => May
          /\ losses' = IF l.job \in Unparsable THEN losses ELSE losses + 1
          /\ Rest(w)
    /\ UNCHANGED <<store, queue, done, notices, users, stopping, restarts, errors>>

\* A call fails for a reason of its own, ...
Breaks == May /\ errors' = errors + 1

\* ... or, given the stopping token, because the API stops.
Fails == (stopping /\ UNCHANGED errors) \/ Breaks

\* What is given up without an exception, and acknowledged all the same.
GiveUp(w, part) ==
    dropped' = IF holder = w THEN dropped \cup {<<work[w].job, part>>} ELSE dropped

\* An upsert that throws ends the tree, and its count, but the job goes on;
\* among the findings it ends the job.
Abandon(w) ==
    LET l == work[w] IN
    \/ /\ l.phase = "assets"
       /\ GoOn(w, ToFindings([l EXCEPT !.created = 0]))
       /\ GiveUp(w, "assets")
       /\ UNCHANGED holder
    \/ l.phase = "findings" /\ Rest(w)

\* UpsertAsync looks the asset up ...
FindAsset(w) ==
    LET l == work[w] IN
    /\ At(w, "find")
    /\ \/ /\ ~stopping
          /\ GoOn(w, [l EXCEPT !.stage = "save", !.found = AssetOf(l) \in assets])
          /\ UNCHANGED <<holder, dropped, errors>>
       \/ Fails /\ Abandon(w)
    /\ UNCHANGED <<store, queue, done, notices, users, stopping, restarts, losses>>

\* Mutant of Stored: every upsert counts as a new asset.
StoredAlwaysNew(l) ==
    LET saved == [l EXCEPT !.pending = <<>>] IN
    IF l.phase = "assets"
    THEN NextItem([saved EXCEPT !.created = @ + 1])
    ELSE [saved EXCEPT !.stage = "check"]

\* After SaveChanges: the next node of the tree, or the finding of the asset.
Stored(l) ==
    LET saved == [l EXCEPT !.pending = <<>>] IN
    IF l.phase = "assets"
    THEN NextItem(IF l.found THEN saved ELSE [saved EXCEPT !.created = @ + 1])
    ELSE [saved EXCEPT !.stage = "check"]

\* ... and saves it with whatever the context holds, unless a constraint
\* refuses one of them.
Allowed(l) == Insertable(l.pending) /\ (l.found \/ AssetOf(l) \notin assets)

Saves(l) ==
    /\ Allowed(l)
    /\ assets' = assets \cup {AssetOf(l)}
    /\ rows' = Inserted(l.pending)
    /\ UNCHANGED project

\* A call that breaks may have saved all the same.
SaveAsset(w) ==
    LET l == work[w] IN
    /\ At(w, "save")
    /\ \/ /\ ~stopping /\ Saves(l)
          /\ GoOn(w, Stored(l))
          /\ UNCHANGED <<holder, dropped, errors>>
       \/ /\ \/ Saves(l) /\ Breaks
             \/ UNCHANGED store /\ (Fails \/ (~Allowed(l) /\ UNCHANGED errors))
          /\ Abandon(w)
    /\ UNCHANGED <<queue, done, notices, users, stopping, restarts, losses>>

\* A notification for the user of the job, if it has one and news.
Notified(l, n, news) ==
    notices' = IF news THEN [notices EXCEPT ![l.job][n] = @ + 1] ELSE notices

\* The notification of new assets.
Announce(w) ==
    LET l == work[w]
        news == l.created > 0 /\ l.job \notin Anonymous IN
    /\ At(w, "announce")
    /\ \/ /\ news => ~stopping
          /\ Notified(l, "assets", news)
          /\ GoOn(w, ToFindings(l))
          /\ UNCHANGED <<holder, dropped, errors>>
       \/ news /\ Fails /\ Rest(w) /\ UNCHANGED notices
    /\ UNCHANGED <<store, queue, done, users, stopping, restarts, losses>>

\* Mutant of IsDuplicate: findings without an asset never match.
IsDuplicateOnAsset(k) == k.asset # None /\ rows[k].open > 0

\* IsDuplicateFinding asks the table, not the context, for open findings.
IsDuplicate(k) == rows[k].open > 0

Check(w) ==
    LET l == work[w] IN
    /\ At(w, "check")
    /\ \/ /\ GoOn(w, IF IsDuplicate(Findings[l.job][l.i]) THEN NextItem(l)
                     ELSE [l EXCEPT !.stage = "add"])
          /\ UNCHANGED <<holder, dropped, errors>>
       \/ Breaks /\ Rest(w)
    /\ UNCHANGED <<store, queue, done, notices, users, stopping, restarts, losses>>

\* The remediation and the triage, whose errors are swallowed, then Add.
AddFinding(w) ==
    LET l == work[w] IN
    /\ At(w, "add")
    /\ GoOn(w, NextItem([l EXCEPT !.pending = Append(@, Findings[l.job][l.i]),
                                  !.added = @ + 1]))
    /\ UNCHANGED <<store, broker, notices, users, faults>>

\* The last SaveChanges, if the context holds something: when it fails, for
\* whatever reason, that is dropped and the job goes on.
Flush(w) ==
    LET l == work[w]
        saved == IF Insertable(l.pending) THEN Inserted(l.pending) ELSE rows IN
    /\ At(w, "flush")
    /\ \/ /\ l.pending # <<>> => ~stopping
          /\ rows' = saved
          /\ UNCHANGED <<dropped, errors>>
       \/ /\ l.pending # <<>>
          /\ (UNCHANGED rows /\ Fails) \/ (rows' = saved /\ Breaks)
          /\ GiveUp(w, "findings")
    /\ GoOn(w, [l EXCEPT !.stage = "report", !.pending = <<>>])
    /\ UNCHANGED <<project, assets, queue, holder, done, notices, users>>
    /\ UNCHANGED <<stopping, restarts, losses>>

\* The notification of new findings, stored or not.
Report(w) ==
    LET l == work[w]
        news == l.added > 0 /\ l.job \notin Anonymous IN
    /\ At(w, "report")
    /\ \/ /\ news => ~stopping
          /\ Notified(l, "findings", news)
          /\ GoOn(w, [l EXCEPT !.stage = "publish"])
          /\ UNCHANGED <<holder, dropped, errors>>
       \/ news /\ Fails /\ Rest(w) /\ UNCHANGED notices
    /\ UNCHANGED <<store, queue, done, users, stopping, restarts, losses>>

\* The message that makes browsers reload their notifications.
Publish(w) ==
    LET l == work[w]
        news == l.created > 0 \/ l.added > 0 IN
    /\ At(w, "publish")
    /\ \/ /\ Notified(l, "signal", news)
          /\ GoOn(w, [l EXCEPT !.stage = "ack"])
          /\ UNCHANGED <<holder, dropped, losses>>
       \/ /\ news /\ May
          /\ losses' = losses + 1
          /\ Rest(w)
          /\ UNCHANGED notices
    /\ UNCHANGED <<store, queue, done, users, stopping, restarts, errors>>

-------------------------------------------------------------------------------
(* Users and faults.                                                       *)

Edits == edits < MaxEdits /\ edits' = edits + 1

\* FindingsController.UpdateOne, to another status, and back.
CloseFinding(k) ==
    /\ rows[k].open > 0
    /\ Edits
    /\ rows' = [rows EXCEPT ![k].open = @ - 1, ![k].closed = @ + 1]
    /\ UNCHANGED <<project, assets, broker, work, notices, opened, faults>>

ReopenFinding(k) ==
    /\ rows[k].closed > 0
    /\ rows' = [rows EXCEPT ![k].open = @ + 1, ![k].closed = @ - 1]
    /\ opened' = opened \cup {k}
    /\ UNCHANGED <<project, assets, broker, work, notices, edits, faults>>

\* FindingsController.CreateOne.
CreateFinding(k) ==
    /\ project
    /\ k.asset # None => k.asset \in assets /\ ~Exists(k)
    /\ Edits
    /\ rows' = [rows EXCEPT ![k].open = @ + 1]
    /\ opened' = opened \cup {k}
    /\ UNCHANGED <<project, assets, broker, work, notices, faults>>

\* AssetsController.CreateOne.
CreateAsset(a) ==
    /\ project
    /\ a \notin assets
    /\ Edits
    /\ assets' = assets \cup {a}
    /\ UNCHANGED <<project, rows, broker, work, notices, opened, faults>>

\* ProjectsController.DeleteOne, with what cascades.
DeleteProject ==
    /\ Deletes /\ project
    /\ project' = FALSE
    /\ assets' = {}
    /\ rows' = [k \in Keys |-> [open |-> 0, closed |-> 0]]
    /\ UNCHANGED <<broker, work, notices, users, faults>>

\* The API is told to stop: handlers go on, with a cancelled token, ...
Stop ==
    /\ ~stopping /\ May
    /\ stopping' = TRUE
    /\ restarts' = restarts + 1
    /\ UNCHANGED <<store, broker, work, notices, users, losses, errors>>

\* ... until it exits, which a crash does at once, and is started again.
Exit ==
    /\ stopping
    /\ stopping' = FALSE
    /\ work' = [w \in Workers |-> Resting]
    /\ holder' = None
    /\ UNCHANGED <<store, queue, done, dropped, notices, users>>
    /\ UNCHANGED <<restarts, losses, errors>>

\* The connection is lost and recovered under a handler that goes on.
Lose ==
    /\ holder # None
    /\ May
    /\ losses' = losses + 1
    /\ holder' = None
    /\ UNCHANGED <<store, queue, done, dropped, work, notices, users>>
    /\ UNCHANGED <<stopping, restarts, errors>>

-------------------------------------------------------------------------------
Handle(w) ==
    \/ Parse(w) \/ FindAsset(w) \/ SaveAsset(w) \/ Announce(w) \/ Check(w)
    \/ AddFinding(w) \/ Flush(w) \/ Report(w) \/ Publish(w) \/ Ack(w)

Next ==
    \/ \E j \in Jobs : Upload(j)
    \/ \E w \in Workers : Deliver(w) \/ Handle(w)
    \/ \E k \in Keys : CloseFinding(k) \/ ReopenFinding(k) \/ CreateFinding(k)
    \/ \E a \in Assets : CreateAsset(a)
    \/ DeleteProject \/ Stop \/ Exit \/ Lose

Spec == Init /\ [][Next]_vars

\* The broker delivers, handlers go on until they end, and so does an API that
\* stops.
FairSpec ==
    /\ Spec
    /\ WF_vars(Exit)
    /\ \A w \in Workers : WF_vars(Deliver(w)) /\ WF_vars(Handle(w))

-------------------------------------------------------------------------------
\* Nothing works on the job any more and its parser accepted it.
Settled(j) ==
    /\ j \in done \ (Unknown \cup Unparsable)
    /\ \A w \in Workers : work[w] # Resting => work[w].job # j

\* Nobody but the processor has written the tables.
Undisturbed == project /\ edits = 0

\* After a lost connection, a handler may run on when its job was acknowledged
\* without its findings.  What it stores in the end a later job may be about to
\* store: the database then refuses that, and the rest of that job with it.
NoneLeftBehind ==
    losses = 0 \/ \A i \in done : <<i, "findings">> \notin dropped

\* A settled job has left a row for each of its findings and each asset of its
\* tree, unless the handler that acknowledged it met a failure it swallows: an
\* upsert of the tree, or the last SaveChanges, that was cancelled or broke.  No
\* other fault loses a row: not a crash, nor a handler of the same job that runs
\* beside it after a lost connection and takes its findings (ExecuteAsync).
OutputStored ==
    \A j \in Jobs : Undisturbed /\ Settled(j) =>
        /\ <<j, "findings">> \notin dropped /\ NoneLeftBehind =>
              \A n \in DOMAIN Findings[j] : Exists(Findings[j][n])
        /\ <<j, "assets">> \notin dropped =>
              \A n \in DOMAIN Tree[j] : Tree[j][n] \in assets

\* A finding that is open is not added again, by a retry of the same job or by
\* a later scan that finds it too, whatever fails and whatever users close
\* meanwhile: no finding is open more often than one output lists it, except
\* those that users create or open again themselves (IsDuplicateFinding, which
\* does not see what the same context still holds).
NoDuplicates ==
    losses = 0 => \A k \in Keys \ opened : rows[k].open > 0 =>
        \E j \in Jobs : rows[k].open =< Times(Findings[j], k)

\* A job announces its new assets, and its new findings, to its user at most
\* once, however often the API restarts under it, and if it only stops and the
\* handler goes on (IsDuplicateFinding, UpsertTreeAsync's count).
AnnouncedOnce ==
    Undisturbed /\ losses = 0 /\ errors = 0 =>
        \A j \in Jobs \ Anonymous : \A n \in Notices : notices[j][n] =< 1

Queued(j) == j \in {queue[n] : n \in DOMAIN queue}

\* Every job is acknowledged in the end, as
\* long as nobody disturbs and nothing unparsable waits (SubscribeAsync).
JobProcessed ==
    \A j \in Jobs :
        Queued(j) ~> \/ j \in done
                     \/ ~Undisturbed
                     \/ \E u \in Unparsable : Queued(u)

-------------------------------------------------------------------------------
\* command-result-processing.md: "The file is now on the system and will be
\* processed in the background", also when users close findings.
OutputProcessed == \A j \in Jobs : Queued(j) ~> j \in done
===============================================================================
