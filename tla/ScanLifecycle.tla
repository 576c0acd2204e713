----------------------------- MODULE ScanLifecycle -----------------------------
(***************************************************************************)
(* What a scan promises its user: every task goes from queued over running *)
(* to succeeded or failed and never back, and a task only succeeds after   *)
(* its output has been handed in.  ScanPipeline implements this as long as *)
(* one runner serves the schedules that neither restarts nor gives up on a *)
(* report before it is answered.                                           *)
(***************************************************************************)
CONSTANTS
    Tasks,
    Produces    \* the tasks whose tool leaves an output to hand in

VARIABLES
    status,     \* the status of each task, or why it has none
    delivered   \* the tasks whose output was handed in

Unfinished == {"queued", "running"}

Init ==
    /\ status = [t \in Tasks |-> "none"]
    /\ delivered = {}

Create(ts) ==
    /\ \A t \in ts : status[t] = "none"
    /\ status' = [t \in Tasks |-> IF t \in ts THEN "queued" ELSE status[t]]
    /\ UNCHANGED delivered

Discard(ts) ==
    /\ \A t \in ts : status[t] # "none"
    /\ status' = [t \in Tasks |-> IF t \in ts THEN "deleted" ELSE status[t]]
    /\ UNCHANGED delivered

Start(t) ==
    /\ status[t] = "queued"
    /\ status' = [status EXCEPT ![t] = "running"]
    /\ UNCHANGED delivered

Deliver(t) ==
    /\ status[t] \in Unfinished \cup {"deleted"}
    /\ delivered' = delivered \cup {t}
    /\ UNCHANGED status

Succeed(t) ==
    /\ status[t] \in Unfinished
    /\ t \in Produces => t \in delivered
    /\ status' = [status EXCEPT ![t] = "succeeded"]
    /\ UNCHANGED delivered

Fail(t) ==
    /\ status[t] \in Unfinished
    /\ status' = [status EXCEPT ![t] = "failed"]
    /\ UNCHANGED delivered

Next ==
    \/ \E ts \in SUBSET Tasks : Create(ts) \/ Discard(ts)
    \/ \E t \in Tasks : Start(t) \/ Deliver(t) \/ Succeed(t) \/ Fail(t)

Spec == Init /\ [][Next]_<<status, delivered>>
===============================================================================
