-------------------------------- MODULE Browser --------------------------------
(***************************************************************************)
(* A browser tab of the dashboard: a user who goes from page to page, one  *)
(* handler that changes a record, and one query, or fetch of a component's *)
(* own, that shows such records.  It covers them all, because the choice   *)
(* of both is free and other handlers and queries share no state with them *)
(* (see the README).                                                       *)
(*                                                                         *)
(* The query cache is TanStack Query's and the router React Router's: both *)
(* are external to the dashboard and modelled as it uses them (App.tsx).   *)
(***************************************************************************)
EXTENDS Naturals

CONSTANTS Site,          \* what every page shows and does, by name of the page
          Frame,         \* what is on all of them
          Matches(_, _)  \* whether invalidating a key reaches a query

VARIABLES
    op,         \* the handler
    probe,      \* the query
    pages,      \* one page of every kind that op and probe can tell apart
    place,      \* the page that is open
    row,        \* the records at the API: "old", or "new" once op changed them
    view,       \* what the tab knows of them (Views)
    stage,      \* "idle", "asking", "sent", "applied" or "done"
    outcome,    \* how it ended: "ok", "refused", "lost", "declined", "aborted"
    told,       \* the messages shown
    busy,       \* op's button takes no click
    left,       \* op's component has gone since it was clicked
    refreshed,  \* op asked for probe to be read again ...
    missed      \* ... but an older answer may still be the one that stays

browserVars == <<op, probe, pages, place, row, view, stage, outcome, told, busy, left,
                 refreshed, missed>>

Pages == DOMAIN Site
Shows(p) == Site[p].shows \cup Frame.shows
Does(p)  == Site[p].does \cup Frame.does

Mounted == probe \in Shows(place)

\* stale: invalidated, or two minutes old.  failed: the last fetch ended in an
\* error.  fetch: the fetch in flight, and what it read; late: an earlier one of
\* a component's own, which nobody aborted.
Answers == {"none", "sent", "old", "new"}
Views == [data : {"none", "old", "new"}, stale : BOOLEAN, failed : BOOLEAN,
          fetch : Answers, late : Answers]

Blank == [data |-> "none", stale |-> FALSE, failed |-> FALSE, fetch |-> "none",
          late |-> "none"]

-------------------------------------------------------------------------------
(* The query cache.                                                        *)

\* fetch() of a cached query silently cancels the one in flight, unless that is
\* the first one: then it waits for it instead.
FirstLoad(v) == v.fetch # "none" /\ v.data = "none"
Restart(v) == IF FirstLoad(v) THEN v ELSE [v EXCEPT !.fetch = "sent"]

\* invalidateQueries: marked, and fetched again if somebody is watching.
Invalidate(v) ==
    LET marked == [v EXCEPT !.stale = TRUE]
    IN  IF Mounted THEN Restart(marked) ELSE marked

\* refetch() of a query, or a component calling its own fetch without a signal.
Reload(v) ==
    IF probe.cached THEN Restart(v)
    ELSE [v EXCEPT !.fetch = "sent",
                   !.late = IF v.fetch = "none" THEN v.late ELSE v.fetch]

\* The component that watches it is unmounted.  Every queryFn takes the signal, so
\* a cached query's fetch is cancelled and its state put back.
Unmount(v) == IF probe.cached THEN [v EXCEPT !.fetch = "none"] ELSE Blank

\* Mutant of Mount: a marked query is served from the cache.
MountFromCache(v) ==
    IF v.fetch = "none" /\ v.data = "none" THEN [v EXCEPT !.fetch = "sent"] ELSE v

Mount(v) ==
    IF v.fetch = "none" /\ (v.data = "none" \/ v.stale)
    THEN [v EXCEPT !.fetch = "sent"] ELSE v

\* The tab moves to page p: what only the layout shows stays.
Moves(v, p) ==
    LET gone == IF Mounted THEN Unmount(v) ELSE v
    IN  CASE p = place \/ probe \in Frame.shows -> v
          [] OTHER -> IF probe \in Shows(p) THEN Mount(gone) ELSE gone

\* A refetch that was never marked is forgotten when it is cancelled.
Forgets(v, p) ==
    /\ p # place /\ probe \notin Frame.shows
    /\ Mounted /\ probe.cached /\ v.fetch # "none" /\ ~v.stale

-------------------------------------------------------------------------------
(* What op does with an answer.                                            *)

Satisfying ==
    [any     |-> {"created", "created empty", "body", "empty"},
     ok      |-> {"created", "created empty", "body", "empty"},
     json    |-> {"created", "body"},
     created |-> {"created", "created empty"}]

\* The branch that runs after an answer of a request that was carried out.
OnSuccess ==
    IF op.request.answers \in Satisfying[op.needs] THEN "then"
    ELSE IF op.needs = "json" THEN "lost" ELSE "refused"

\* After an error answer: its body may or may not parse.
OnRefusal ==
    CASE op.needs = "any"  -> {"then"}
      [] op.needs = "json" -> {"then", "lost"}
      [] OTHER             -> {"refused"}

\* The callbacks of a component that has gone are dropped.
Effects(branch) ==
    op.settled
        \cup (IF branch = "then" THEN op.succeeded ELSE {})
        \cup (IF op.bound /\ left THEN {} ELSE op[branch])

Invalidates(effects) ==
    /\ probe.cached
    /\ \E e \in effects : "refresh" \in DOMAIN e /\ Matches(e.refresh, probe)

\* A component that has gone fetches in vain.
Reloads(effects) ==
    /\ [refetch |-> probe] \in effects
    /\ probe.cached \/ ~left

\* The view after the effects, before any page change.
Refreshes(effects) ==
    LET v == IF Invalidates(effects) THEN Invalidate(view) ELSE view
    IN  IF Reloads(effects) THEN Reload(v) ELSE v

\* An older answer is still on its way: the refresh may end up with it.
Misses(effects) ==
    \/ /\ Invalidates(effects)
       /\ view.fetch # "none" /\ (view.data = "none" \/ ~Mounted)
    \/ /\ Reloads(effects)
       /\ view.fetch # "none" /\ (view.data = "none" \/ ~probe.cached)

Targets(effects) ==
    {e.goto : e \in {f \in effects : "goto" \in DOMAIN f}}

Goals(o) == Targets(o.then \cup o.refused \cup o.lost)

\* A handler's flags are flags, only what follows its answer navigates, and only
\* to pages there are.
ASSUME SiteAssumption ==
    \A p \in Pages : \A h \in Does(p) :
        /\ h.busy \in BOOLEAN
        /\ Targets(h.settled \cup h.succeeded) = {}
        /\ Goals(h) \subseteq Pages

\* The tab goes to page p, and op's component is gone.
Leaves(p) == p # place /\ op \notin Frame.does /\ op \in Does(place)

Settle(how, branch) ==
    LET effects == Effects(branch)
        v       == Refreshes(effects)
    IN  /\ stage' = "done"
        /\ outcome' = how
        /\ told' = {e.say : e \in {f \in effects : "say" \in DOMAIN f}}
        /\ refreshed' = (Invalidates(effects) \/ Reloads(effects))
        /\ \E p \in IF Targets(effects) = {} THEN {place} ELSE Targets(effects) :
              /\ place' = p
              /\ view' = Moves(v, p)
              /\ missed' = (Misses(effects) \/ Forgets(v, p))
              /\ left' = (left \/ Leaves(p))
              /\ busy' = (busy /\ [free |-> TRUE] \notin effects /\ ~Leaves(p))
        /\ UNCHANGED <<op, probe, pages, row>>

-------------------------------------------------------------------------------
(* The user.                                                               *)

Click ==
    /\ stage = "idle"
    /\ op \in Does(place)
    /\ stage' = IF op.asks THEN "asking" ELSE "sent"
    /\ busy' = op.busy
    /\ UNCHANGED <<op, probe, pages, place, row, view, outcome, told, left, refreshed,
                   missed>>

Confirm ==
    /\ stage = "asking"
    /\ stage' = "sent"
    /\ UNCHANGED <<op, probe, pages, place, row, view, outcome, told, busy, left,
                   refreshed, missed>>

Decline ==
    /\ stage = "asking"
    /\ stage' = "done" /\ outcome' = "declined"
    /\ UNCHANGED <<op, probe, pages, place, row, view, told, busy, left, refreshed,
                   missed>>

\* The cancel button of a request that can be given up, whether or not it has been
\* carried out by then.  Only finally follows.
Cancel ==
    /\ stage \in {"sent", "applied"}
    /\ op.aborts
    /\ stage' = "done" /\ outcome' = "aborted"
    /\ busy' = (busy /\ [free |-> TRUE] \notin op.settled)
    /\ UNCHANGED <<op, probe, pages, place, row, view, told, left, refreshed, missed>>

\* Mutant of GivenUp: no clean-up aborts the request.
GivenUpNever == FALSE

\* The clean-up of the component's effect aborts a request that can be.
GivenUp == op.aborts /\ stage \in {"sent", "applied"}

\* The dialog of an unanswered confirmation goes with its component, and so does
\* a request that is given up.
Visit(p) ==
    /\ p # place
    /\ place' = p
    /\ view' = Moves(view, p)
    /\ missed' = (missed \/ (refreshed /\ Forgets(view, p)))
    /\ IF Leaves(p) /\ stage # "idle"
       THEN /\ left' = TRUE /\ busy' = FALSE
            /\ IF stage = "asking"
               THEN stage' = "done" /\ outcome' = "declined"
               ELSE IF GivenUp
               THEN stage' = "done" /\ outcome' = "aborted"
               ELSE UNCHANGED <<stage, outcome>>
       ELSE UNCHANGED <<left, busy, stage, outcome>>
    /\ UNCHANGED <<op, probe, pages, row, told, refreshed>>

-------------------------------------------------------------------------------
(* The API, and the way there and back.                                    *)

Apply ==
    /\ stage = "sent"
    /\ op.request.answers # "none"
    /\ stage' = "applied" /\ row' = "new"
    /\ UNCHANGED <<op, probe, pages, place, view, outcome, told, busy, left, refreshed,
                   missed>>

Answer == stage = "applied" /\ Settle("ok", OnSuccess)

\* Not found, not allowed, not valid, no longer logged in, out of order.
Refuse == stage = "sent" /\ \E branch \in OnRefusal : Settle("refused", branch)

\* The request or its answer is lost, and the promise of fetch rejected.
Lose == stage \in {"sent", "applied"} /\ Settle("lost", "lost")

-------------------------------------------------------------------------------
(* The fetches of probe.                                                   *)

OnlyView(v) ==
    /\ view' = v
    /\ UNCHANGED <<op, probe, pages, place, row, stage, outcome, told, busy, left,
                   refreshed, missed>>

FetchReads == view.fetch = "sent" /\ OnlyView([view EXCEPT !.fetch = row])

FetchArrives ==
    /\ view.fetch \in {"old", "new"}
    /\ OnlyView([view EXCEPT !.data = view.fetch, !.fetch = "none", !.stale = FALSE,
                             !.failed = FALSE])

\* Mutant of FetchFails: the query's function catches its error and returns what
\* the cache has, if anything.
FetchFailsQuietly ==
    /\ view.fetch # "none"
    /\ OnlyView(IF probe.cached /\ view.data # "none"
                THEN [view EXCEPT !.fetch = "none", !.stale = FALSE, !.failed = FALSE]
                ELSE [view EXCEPT !.fetch = "none", !.failed = TRUE])

\* The promise of the query's function is rejected.
FetchFails ==
    /\ view.fetch # "none"
    /\ OnlyView([view EXCEPT !.fetch = "none", !.failed = TRUE])

LateReads == view.late = "sent" /\ OnlyView([view EXCEPT !.late = row])

LateArrives ==
    /\ view.late \in {"old", "new"}
    /\ OnlyView([view EXCEPT !.data = view.late, !.late = "none"])

\* staleTime.
Age ==
    /\ probe.cached /\ view.data # "none" /\ view.fetch = "none" /\ ~view.stale
    /\ OnlyView([view EXCEPT !.stale = TRUE])

\* refetchOnWindowFocus.
Focus ==
    /\ probe.cached /\ Mounted /\ view.stale /\ view.fetch = "none"
    /\ OnlyView([view EXCEPT !.fetch = "sent"])

\* gcTime.
Collect ==
    /\ probe.cached /\ ~Mounted /\ view.fetch = "none" /\ view # Blank
    /\ OnlyView(Blank)

-------------------------------------------------------------------------------
\* A query shows what a handler changes; an import changes everything.
Concerns(o, q) == o.request.of \in {q.of, "everything"}

\* Of records that no query shows, only the messages matter.
Unseen(o) == \A p \in Pages : \A q \in Shows(p) : ~Concerns(o, q)

\* A page that offers o and shows q as p does.
Representative(o, q, p) ==
    CHOOSE r \in Pages : /\ (o \in Does(r)) = (o \in Does(p))
                         /\ (q \in Shows(r)) = (q \in Shows(p))

Init ==
    /\ op \in UNION {Does(p) : p \in Pages}
    /\ probe \in UNION {Shows(p) : p \in Pages}
    /\ Concerns(op, probe) \/ (probe \in Frame.shows /\ Unseen(op))
    /\ pages = {Representative(op, probe, p) : p \in Pages} \cup Goals(op)
    /\ place \in pages
    /\ row = "old"
    /\ view = IF Mounted THEN [Blank EXCEPT !.fetch = "sent"] ELSE Blank
    /\ stage = "idle" /\ outcome = "none" /\ told = {}
    /\ busy = FALSE /\ left = FALSE /\ refreshed = FALSE /\ missed = FALSE

Settles == Apply \/ Answer \/ Refuse \/ Lose
Fetches == FetchReads \/ FetchArrives \/ FetchFails

Next ==
    \/ Click \/ Confirm \/ Decline \/ Cancel \/ \E p \in pages : Visit(p)
    \/ Apply \/ Answer \/ Refuse \/ Lose
    \/ FetchReads \/ FetchArrives \/ FetchFails \/ LateReads \/ LateArrives
    \/ Age \/ Focus \/ Collect

Spec == Init /\ [][Next]_browserVars

\* Every request comes to an end: with an answer, or with the connection.
FairSpec == Spec /\ WF_browserVars(Settles) /\ WF_browserVars(Fetches)

-------------------------------------------------------------------------------
\* A component that has gone waits for no confirmation, and only for answers
\* whose request cannot be aborted.
TypeOK ==
    /\ place \in pages
    /\ left => stage = "done" \/ (stage \in {"sent", "applied"} /\ ~op.aborts)
    /\ row \in {"old", "new"}
    /\ view \in Views
    /\ stage \in {"idle", "asking", "sent", "applied", "done"}
    /\ outcome \in {"none", "ok", "refused", "lost", "declined", "aborted"}
    /\ busy \in BOOLEAN /\ left \in BOOLEAN
    /\ refreshed \in BOOLEAN /\ missed \in BOOLEAN

Quiet == view.fetch = "none" /\ view.late = "none"
ShowsOld == Mounted /\ Quiet /\ ~view.failed /\ view.data # "new"

\* A handler that has the query read again after its write is followed by the
\* new records, wherever the user goes meanwhile and however the fetches before,
\* during and after it overlap, except when the refresh met a load it could not
\* cancel or was cancelled itself (missed), or its fetch failed.
RefreshedIsShown ==
    stage = "done" /\ row = "new" /\ refreshed /\ ~missed => ~ShowsOld

\* They do come, to a user who watches and does not go from page to page for ever.
RefreshCompletes ==
    \/ []<><<place' # place>>_place
    \/ (stage = "done" /\ row = "new" /\ refreshed)
           ~> (view.data = "new" \/ view.failed \/ missed \/ ~Mounted)

\* No answer, error or lost connection leaves a button disabled for good.
ButtonsFreed == busy ~> ~busy
===============================================================================
