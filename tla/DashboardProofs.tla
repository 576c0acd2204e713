---------------------------- MODULE DashboardProofs ----------------------------
(***************************************************************************)
(* What the tab does for any catalogue of pages, handlers and queries: a   *)
(* query that a handler had read again after its write does not go on      *)
(* showing what was there before.  And what each handler has to do for the *)
(* properties of Dashboard to follow: the rules Attentive, Honest and      *)
(* Considerate, which only look at how a handler is written.  TLC finds    *)
(* them true of the catalogue of PagesOfWork and PagesOfSystem.            *)
(***************************************************************************)
EXTENDS Dashboard, TLAPS

-------------------------------------------------------------------------------
(* The inductive invariant.                                                *)

\* What the tab knows is new, or will be when somebody looks: no older answer is
\* on its way, and what is old is marked, is being read, or failed to be.
Good(v, mounted) ==
    /\ v.late = "none"
    /\ v.fetch # "old"
    /\ mounted /\ v.data # "new" /\ v.fetch = "none" => v.failed
    /\ v.data = "old" /\ v.fetch = "none" => v.stale \/ v.failed

\* Nothing is refreshed, and no fetch is overtaken, before op has its answer.
OnlyWhenDone == stage # "done" => ~refreshed /\ view.late = "none"

GoodWhenDone == row = "new" /\ refreshed /\ ~missed => Good(view, Mounted)

\* op is one of the catalogue's, and the pages it leads to are among pages.
OpFits ==
    /\ op.busy \in BOOLEAN
    /\ Targets(op.settled \cup op.succeeded) = {}
    /\ Goals(op) \subseteq pages

Inv == TypeOK /\ OpFits /\ OnlyWhenDone /\ GoodWhenDone

-------------------------------------------------------------------------------
(* Views.                                                                  *)

LEMMA ViewFields ==
    ASSUME NEW v \in Views
    PROVE  /\ v.data \in {"none", "old", "new"}
           /\ v.stale \in BOOLEAN /\ v.failed \in BOOLEAN
           /\ v.fetch \in Answers /\ v.late \in Answers
BY DEF Views

LEMMA MovesType ==
    ASSUME NEW v \in Views, NEW p
    PROVE  Moves(v, p) \in Views
BY DEF Moves, Mount, Unmount, Blank, Views, Answers

LEMMA RefreshesType ==
    ASSUME view \in Views, NEW effects
    PROVE  Refreshes(effects) \in Views
<1> DEFINE v == IF Invalidates(effects) THEN Invalidate(view) ELSE view
<1>1. v \in Views
  BY DEF Invalidate, Restart, FirstLoad, Views, Answers
<1>2. Reload(v) \in Views
  BY <1>1 DEF Reload, Restart, FirstLoad, Views, Answers
<1> QED
  BY <1>1, <1>2 DEF Refreshes

\* A page change keeps a good view good, unless it undoes a refetch.
LEMMA MovesGood ==
    ASSUME NEW v \in Views, NEW p, Good(v, Mounted), ~Forgets(v, p)
    PROVE  Good(Moves(v, p), probe \in Shows(p))
<1> DEFINE gone == IF Mounted THEN Unmount(v) ELSE v
<1>1. CASE p = place \/ probe \in Frame.shows
  BY <1>1 DEF Moves, Mounted, Shows
<1>2. CASE ~(p = place \/ probe \in Frame.shows)
  <2>1. /\ gone \in Views
        /\ gone.late = "none" /\ gone.fetch # "old"
        /\ gone.data = "old" /\ gone.fetch = "none" => gone.stale \/ gone.failed
    BY <1>2 DEF Good, Forgets, Unmount, Blank, Views, Answers
  <2>2. Moves(v, p) = IF probe \in Shows(p) THEN Mount(gone) ELSE gone
    BY <1>2 DEF Moves
  <2>3. CASE probe \in Shows(p)
    BY <2>1, <2>2, <2>3, ViewFields DEF Good, Mount, Views, Answers
  <2>4. CASE probe \notin Shows(p)
    BY <2>1, <2>2, <2>4 DEF Good
  <2> QED
    BY <2>3, <2>4
<1> QED
  BY <1>1, <1>2

\* A refresh that meets no load it cannot cancel leaves a good view.
LEMMA RefreshesGood ==
    ASSUME view \in Views, view.late = "none", NEW effects,
           Invalidates(effects) \/ Reloads(effects), ~Misses(effects)
    PROVE  Good(Refreshes(effects), Mounted)
<1> DEFINE v == IF Invalidates(effects) THEN Invalidate(view) ELSE view
<1>1. ASSUME Invalidates(effects)
      PROVE  /\ probe.cached /\ v \in Views /\ v.late = "none"
             /\ v.fetch = IF Mounted THEN "sent" ELSE "none"
             /\ v.stale
  BY <1>1 DEF Invalidates, Misses, Invalidate, Restart, FirstLoad, Views, Answers
<1>2. CASE Reloads(effects)
  <2>1. Refreshes(effects) = Reload(v)
    BY <1>2 DEF Refreshes
  <2>2. CASE Invalidates(effects)
    BY <1>1, <2>1, <2>2 DEF Good, Reload, Restart, FirstLoad, Views, Answers
  <2>3. CASE ~Invalidates(effects)
    BY <1>2, <2>1, <2>3 DEF Good, Misses, Reload, Restart, FirstLoad, Views, Answers
  <2> QED
    BY <2>2, <2>3
<1>3. CASE ~Reloads(effects)
  BY <1>1, <1>3 DEF Good, Refreshes
<1> QED
  BY <1>2, <1>3

-------------------------------------------------------------------------------
(* Steps.                                                                  *)

\* Only the pages that op leads to follow from its effects.
LEMMA TargetsKnown ==
    ASSUME Inv, NEW branch \in {"then", "refused", "lost"}
    PROVE  Targets(Effects(branch)) \subseteq pages
<1>1. Effects(branch) \subseteq
        (op.settled \cup op.succeeded) \cup (op.then \cup op.refused \cup op.lost)
  BY DEF Effects
<1>2. Targets(Effects(branch)) \subseteq
        Targets(op.settled \cup op.succeeded)
            \cup Targets(op.then \cup op.refused \cup op.lost)
  BY <1>1 DEF Targets
<1> QED
  BY <1>2 DEF Inv, OpFits, Goals

LEMMA SettleKeeps ==
    ASSUME Inv, stage # "done",
           NEW how \in {"ok", "refused", "lost"},
           NEW branch \in {"then", "refused", "lost"}, Settle(how, branch)
    PROVE  Inv'
<1> DEFINE effects == Effects(branch)
           v == Refreshes(effects)
<1>1. PICK p \in IF Targets(effects) = {} THEN {place} ELSE Targets(effects) :
        /\ place' = p /\ view' = Moves(v, p)
        /\ missed' = (Misses(effects) \/ Forgets(v, p))
        /\ left' = (left \/ Leaves(p))
        /\ busy' = (busy /\ [free |-> TRUE] \notin effects /\ ~Leaves(p))
  BY DEF Settle
<1>2. /\ stage' = "done" /\ outcome' = how /\ UNCHANGED <<op, probe, pages, row>>
      /\ refreshed' = (Invalidates(effects) \/ Reloads(effects))
  BY DEF Settle
<1>3. view \in Views /\ view.late = "none" /\ v \in Views
  BY RefreshesType DEF Inv, TypeOK, OnlyWhenDone
<1>4. place' \in pages
  BY <1>1, TargetsKnown DEF Inv, TypeOK
<1>5. TypeOK'
  <2>1. view' \in Views
    BY <1>1, <1>3, MovesType
  <2>2. missed' \in BOOLEAN /\ left' \in BOOLEAN /\ busy' \in BOOLEAN
    BY <1>1 DEF Inv, TypeOK
  <2>3. refreshed' \in BOOLEAN
    BY <1>2
  <2> QED
    BY <1>2, <1>4, <2>1, <2>2, <2>3 DEF Inv, TypeOK
<1>6. GoodWhenDone'
  <2>1. SUFFICES ASSUME refreshed', ~missed'
                 PROVE  Good(view', probe \in Shows(place'))
    BY <1>2 DEF GoodWhenDone, Mounted, Shows
  <2>2. Good(v, Mounted)
    BY <1>1, <1>2, <1>3, <2>1, RefreshesGood
  <2> QED
    BY <1>1, <1>3, <2>1, <2>2, MovesGood
<1> QED
  BY <1>2, <1>5, <1>6 DEF Inv, OpFits, OnlyWhenDone, Goals

\* The user, and the API while it has not answered.
LEMMA UserKeeps ==
    ASSUME Inv, Click \/ Confirm \/ Decline \/ Cancel \/ Apply
    PROVE  Inv'
<1>1. UNCHANGED <<op, probe, pages, place, view, left, refreshed, missed>>
  BY DEF Click, Confirm, Decline, Cancel, Apply
<1>2. stage # "done" /\ ~refreshed /\ view.late = "none"
  BY DEF Inv, OnlyWhenDone, Click, Confirm, Decline, Cancel, Apply
<1>3. TypeOK'
  BY <1>1 DEF Inv, OpFits, TypeOK, Click, Confirm, Decline, Cancel, Apply
<1> QED
  BY <1>1, <1>2, <1>3 DEF Inv, OpFits, Goals, OnlyWhenDone, GoodWhenDone

LEMMA VisitKeeps ==
    ASSUME Inv, NEW p \in pages, Visit(p)
    PROVE  Inv'
<1>1. /\ place' = p /\ view' = Moves(view, p)
      /\ missed' = (missed \/ (refreshed /\ Forgets(view, p)))
      /\ UNCHANGED <<op, probe, pages, row, told, refreshed>>
  BY DEF Visit
<1>2. TypeOK'
  <2>1. view' \in Views
    BY <1>1, MovesType DEF Inv, TypeOK
  <2>2. /\ stage' \in {stage, "done"} /\ outcome' \in {outcome, "declined", "aborted"}
        /\ left' \in {left, TRUE} /\ busy' \in {busy, FALSE}
    BY DEF Visit
  <2>3. left' => stage' = "done" \/ (stage' \in {"sent", "applied"} /\ ~op.aborts)
    <3>1. CASE Leaves(p) /\ stage # "idle"
      BY <3>1 DEF Visit, GivenUp, Inv, TypeOK
    <3>2. CASE ~(Leaves(p) /\ stage # "idle")
      BY <3>2 DEF Visit, Inv, TypeOK
    <3> QED
      BY <3>1, <3>2
  <2> QED
    BY <1>1, <2>1, <2>2, <2>3 DEF Inv, TypeOK
<1>3. OnlyWhenDone'
  <2>1. stage' # "done" => stage # "done"
    BY DEF Visit
  <2>2. view.late = "none" => Moves(view, p).late = "none"
    BY DEF Inv, TypeOK, Moves, Mount, Unmount, Blank, Views, Answers
  <2> QED
    BY <1>1, <2>1, <2>2 DEF Inv, OnlyWhenDone
<1>4. GoodWhenDone'
  BY <1>1, MovesGood DEF Inv, TypeOK, GoodWhenDone, Mounted, Shows
<1> QED
  BY <1>1, <1>2, <1>3, <1>4 DEF Inv, OpFits, Goals

LEMMA FetchKeeps ==
    ASSUME Inv,
           \/ FetchReads \/ FetchArrives \/ FetchFails \/ LateReads \/ LateArrives
           \/ Age \/ Focus \/ Collect
    PROVE  Inv'
<1>1. /\ UNCHANGED <<op, probe, pages, place, row, stage, outcome, told, busy, left,
                     refreshed, missed>>
  BY DEF OnlyView, FetchReads, FetchArrives, FetchFails, LateReads, LateArrives, Age,
         Focus, Collect
<1>2. view \in Views /\ view' \in Views
  <2>1. view \in Views /\ row \in Answers
    BY DEF Inv, TypeOK, Answers
  <2>2. CASE FetchReads \/ LateReads
    BY <2>1, <2>2 DEF FetchReads, LateReads, OnlyView, Views
  <2>3. CASE FetchArrives
    BY <2>1, <2>3 DEF FetchArrives, OnlyView, Views, Answers
  <2>4. CASE FetchFails \/ Focus
    BY <2>1, <2>4 DEF FetchFails, Focus, OnlyView, Views, Answers
  <2>5. CASE LateArrives
    BY <2>1, <2>5 DEF LateArrives, OnlyView, Views, Answers
  <2>6. CASE Age
    BY <2>1, <2>6 DEF Age, OnlyView, Views, Answers
  <2>7. CASE Collect
    <3>1. view' = Blank
      BY <2>7 DEF Collect, OnlyView
    <3> QED
      BY <2>1, <3>1 DEF Blank, Views, Answers
  <2> QED
    BY <2>1, <2>2, <2>3, <2>4, <2>5, <2>6, <2>7
<1>3. view.late = "none" => view'.late = "none"
  <2>1. CASE Collect
    <3>1. view' = Blank
      BY <2>1 DEF Collect, OnlyView
    <3> QED
      BY <3>1 DEF Blank
  <2>2. CASE FetchReads \/ FetchArrives \/ FetchFails \/ Age \/ Focus
    BY <1>2, <2>2 DEF OnlyView, FetchReads, FetchArrives, FetchFails, Age, Focus, Views,
                      Answers
  <2>3. CASE LateReads \/ LateArrives
    BY <2>3 DEF LateReads, LateArrives
  <2> QED
    BY <2>1, <2>2, <2>3
<1>4. ASSUME row = "new", Good(view, Mounted)
      PROVE  Good(view', Mounted)
  <2>1. CASE FetchReads
    BY <1>2, <1>4, <2>1 DEF FetchReads, OnlyView, Good, Views
  <2>2. CASE FetchArrives
    BY <1>2, <1>4, <2>2 DEF FetchArrives, OnlyView, Good, Views
  <2>3. CASE FetchFails
    BY <1>2, <1>4, <2>3 DEF FetchFails, OnlyView, Good, Views
  <2>4. CASE LateReads \/ LateArrives
    BY <1>4, <2>4 DEF LateReads, LateArrives, Good
  <2>5. CASE Age \/ Focus
    BY <1>2, <1>4, <2>5 DEF Age, Focus, OnlyView, Good, Views
  <2>6. CASE Collect
    BY <2>6 DEF Collect, OnlyView, Blank, Good
  <2> QED
    BY <2>1, <2>2, <2>3, <2>4, <2>5, <2>6
<1>5. Mounted' = Mounted
  BY <1>1 DEF Mounted, Shows
<1>6. TypeOK' /\ OpFits'
  BY <1>1, <1>2 DEF Inv, TypeOK, OpFits, Goals
<1> QED
  BY <1>1, <1>3, <1>4, <1>5, <1>6 DEF Inv, OnlyWhenDone, GoodWhenDone

-------------------------------------------------------------------------------
LEMMA InvInit == Init => Inv
<1> SUFFICES ASSUME Init PROVE Inv
  OBVIOUS
<1>1. view \in Views /\ view.late = "none"
  BY DEF Init, Blank, Views, Answers
<1>2. OpFits
  BY SiteAssumption DEF Init, OpFits
<1> QED
  BY <1>1, <1>2 DEF Init, Inv, TypeOK, OnlyWhenDone, GoodWhenDone

LEMMA InvStep == Inv /\ [Next]_browserVars => Inv'
<1> SUFFICES ASSUME Inv, [Next]_browserVars PROVE Inv'
  OBVIOUS
<1>1. CASE Click \/ Confirm \/ Decline \/ Cancel \/ Apply
  BY <1>1, UserKeeps
<1>2. ASSUME NEW p \in pages, Visit(p) PROVE Inv'
  BY <1>2, VisitKeeps
<1>3. CASE Answer
  <2>1. OnSuccess \in {"then", "refused", "lost"}
    BY DEF OnSuccess
  <2> QED
    BY <1>3, <2>1, SettleKeeps DEF Answer
<1>4. CASE Refuse
  <2>1. OnRefusal \subseteq {"then", "refused", "lost"}
    BY DEF OnRefusal
  <2> QED
    BY <1>4, <2>1, SettleKeeps DEF Refuse
<1>5. CASE Lose
  BY <1>5, SettleKeeps DEF Lose
<1>6. CASE FetchReads \/ FetchArrives \/ FetchFails \/ LateReads \/ LateArrives
           \/ Age \/ Focus \/ Collect
  BY <1>6, FetchKeeps
<1>7. CASE UNCHANGED browserVars
  <2>1. TypeOK' /\ OpFits'
    <3>1. TypeOK'
      BY <1>7 DEF browserVars, Inv, TypeOK
    <3>2. OpFits /\ op' = op /\ pages' = pages
      BY <1>7 DEF browserVars, Inv
    <3> QED
      BY <3>1, <3>2 DEF OpFits, Goals
  <2>2. OnlyWhenDone'
    BY <1>7 DEF browserVars, Inv, OnlyWhenDone
  <2>3. GoodWhenDone'
    BY <1>7 DEF browserVars, Inv, GoodWhenDone, Mounted, Shows
  <2> QED
    BY <2>1, <2>2, <2>3 DEF Inv
<1> QED
  BY <1>1, <1>2, <1>3, <1>4, <1>5, <1>6, <1>7 DEF Next

\* Every variable of the tab keeps to its type, and no handler leads to a page
\* that is not one of those considered.
THEOREM TypeCorrect == Spec => []TypeOK
<1>1. Inv => TypeOK
  BY DEF Inv
<1> QED
  BY <1>1, InvInit, InvStep, PTL DEF Spec

\* A handler that has a query read again shows what it wrote, on every page that
\* watches the query and for any catalogue of pages, unless the refresh met a
\* load it could not cancel, was cancelled itself, or failed.
THEOREM RefreshShowsWrites == Spec => []RefreshedIsShown
<1>1. Inv => RefreshedIsShown
  BY DEF Inv, GoodWhenDone, Good, RefreshedIsShown, ShowsOld, Quiet
<1> QED
  BY <1>1, InvInit, InvStep, PTL DEF Spec

-------------------------------------------------------------------------------
(* Rules for handlers.                                                     *)

Handlers == UNION {Does(p) : p \in Pages}
Queries  == UNION {Shows(p) : p \in Pages}

\* The branch that follows an answer to a request of o that was carried out.
Branch(o) ==
    IF o.request.answers \in Satisfying[o.needs] THEN "then"
    ELSE IF o.needs = "json" THEN "lost" ELSE "refused"

\* What o does after such an answer, even if its component has gone by then.
Always(o) ==
    o.settled
        \cup (IF Branch(o) = "then" THEN o.succeeded ELSE {})
        \cup (IF o.bound THEN {} ELSE o[Branch(o)])

Rereads(effects, q) ==
    \/ [refetch |-> q] \in effects
    \/ q.cached /\ \E e \in effects : "refresh" \in DOMAIN e /\ Matches(e.refresh, q)

Together(o, q) == \E p \in Pages : o \in Does(p) /\ q \in Shows(p)

\* A handler has every query read again that shows what it changes: those in the
\* cache, and of the components' own fetches those that are on a page with it.
Attentive ==
    \A o \in Handlers : \A q \in Queries :
        /\ o.request.answers # "none" /\ Concerns(o, q)
        /\ o.name \notin Forgetful /\ q \notin SearchResults
        /\ q.cached \/ Together(o, q)
        => Rereads(Always(o), q)

Says(effects) == {e.say : e \in {f \in effects : "say" \in DOMAIN f}}

\* A handler that does not look at the status of the answer does not say that all
\* went well; none says so in a branch for failures, nor "error" in the branch
\* that follows when the request was carried out.
Honest ==
    \A o \in Handlers :
        /\ o.name \notin TellsBlindly =>
              /\ "success" \notin Says(o.settled \cup o.refused \cup o.lost)
              /\ o.needs \in {"any", "json"} => "success" \notin Says(o.then \cup o.succeeded)
        /\ o.name # "VaultItemEditPage.onFormSubmit" /\ o.request.answers # "none" =>
              "error" \notin Says(o.settled \cup o.succeeded \cup o[Branch(o)])

\* A handler that goes to another page does so in a callback of its component.
Considerate ==
    \A o \in Handlers : o.name \notin Abducts => o.bound \/ Goals(o) = {}

-------------------------------------------------------------------------------
(* Where op stands.                                                        *)

\* op and probe are of the catalogue and every page there is.  The records are
\* new once op's request was carried out, and op has said nothing before it has
\* its answer.  Its component is on the page unless it was left.
OpInv ==
    /\ op \in Handlers /\ probe \in Queries /\ pages \subseteq Pages
    /\ stage \in {"idle", "asking", "sent"} => row = "old"
    /\ stage = "applied" => row = "new" /\ op.request.answers # "none"
    /\ stage # "done" => told = {} /\ outcome = "none"
    /\ stage # "idle" /\ ~left => op \in Does(place)

LEMMA OpInit == Init => OpInv
<1> SUFFICES ASSUME Init PROVE OpInv
  OBVIOUS
<1>1. op \in Handlers /\ probe \in Queries
  BY DEF Init, Handlers, Queries
<1>2. pages \subseteq Pages
  <2>1. ASSUME NEW p \in Pages PROVE Representative(op, probe, p) \in Pages
    BY DEF Representative
  <2>2. Goals(op) \subseteq Pages
    BY <1>1, SiteAssumption DEF Handlers
  <2> QED
    BY <2>1, <2>2 DEF Init
<1> QED
  BY <1>1, <1>2 DEF Init, OpInv

\* op stays with its page, unless the tab leaves it.
LEMMA StaysWithPage ==
    ASSUME NEW p, op \in Does(place), ~Leaves(p)
    PROVE  op \in Does(p)
BY DEF Leaves, Does

LEMMA OpStep == OpInv /\ [Next]_browserVars => OpInv'
<1> SUFFICES ASSUME OpInv, [Next]_browserVars PROVE OpInv'
  OBVIOUS
<1> USE DEF OpInv
<1>1. CASE Click \/ Confirm \/ Decline \/ Cancel \/ Apply
  BY <1>1 DEF Click, Confirm, Decline, Cancel, Apply
<1>2. ASSUME NEW p \in pages, Visit(p) PROVE OpInv'
  <2>1. stage' # "idle" /\ ~left' => op \in Does(p)
    BY <1>2, StaysWithPage DEF Visit
  <2>2. \/ UNCHANGED <<stage, outcome>>
        \/ stage' = "done"
    BY <1>2 DEF Visit
  <2> QED
    BY <1>2, <2>1, <2>2 DEF Visit
<1>3. ASSUME NEW how, NEW branch, Settle(how, branch), stage # "idle" PROVE OpInv'
  <2>1. PICK p : place' = p /\ left' = (left \/ Leaves(p))
    BY <1>3 DEF Settle
  <2>2. ~left' => op \in Does(place')
    BY <1>3, <2>1, StaysWithPage
  <2> QED
    BY <1>3, <2>2 DEF Settle
<1>4. CASE Answer \/ Refuse \/ Lose
  BY <1>3, <1>4 DEF Answer, Refuse, Lose
<1>5. CASE FetchReads \/ FetchArrives \/ FetchFails \/ LateReads \/ LateArrives
           \/ Age \/ Focus \/ Collect
  BY <1>5 DEF FetchReads, FetchArrives, FetchFails, LateReads, LateArrives, Age, Focus,
              Collect, OnlyView
<1>6. CASE UNCHANGED browserVars
  BY <1>6 DEF browserVars
<1> QED
  BY <1>1, <1>2, <1>4, <1>5, <1>6 DEF Next

LEMMA OpHolds == Spec => []OpInv
BY OpInit, OpStep, PTL DEF Spec

-------------------------------------------------------------------------------
(* Messages.                                                               *)

\* What is said comes from the effects that the branch can have.
LEMMA SaysOnly ==
    ASSUME NEW how, NEW branch, Settle(how, branch)
    PROVE  told' \subseteq Says(op.settled \cup op[branch]
                                   \cup (IF branch = "then" THEN op.succeeded ELSE {}))
<1>1. told' = Says(Effects(branch))
  BY DEF Settle, Says
<1> QED
  BY <1>1 DEF Effects, Says

\* Every handler that is honest tells the truth: of success only when the records
\* were changed, of an error only when they were not or when nobody knows.
THEOREM MessagesAreTrue == ASSUME Honest PROVE Spec => []SaysTruly
<1>1. Init => SaysTruly
  BY DEF Init, SaysTruly
<1>2. OpInv /\ SaysTruly /\ [Next]_browserVars => SaysTruly'
  <2> SUFFICES ASSUME OpInv, SaysTruly, [Next]_browserVars PROVE SaysTruly'
    OBVIOUS
  <2>1. CASE Answer
    <3>1. row' = "new" /\ outcome' = "ok" /\ UNCHANGED op /\ op.request.answers # "none"
      BY <2>1 DEF Answer, Settle, OpInv
    <3>2. OnSuccess = Branch(op)
      BY DEF OnSuccess, Branch
    <3>3. told' \subseteq Says(op.settled \cup op.succeeded \cup op[Branch(op)])
      BY <2>1, <3>2, SaysOnly DEF Answer, Says
    <3>4. op.name # "VaultItemEditPage.onFormSubmit" => "error" \notin told'
      BY <3>1, <3>3 DEF Honest, OpInv
    <3> QED
      BY <3>1, <3>4 DEF SaysTruly
  <2>2. ASSUME op.name \notin TellsBlindly, Refuse \/ Lose PROVE "success" \notin told'
    <3>1. op \in Handlers
      BY DEF OpInv
    <3>2. CASE Lose
      <4>1. told' \subseteq Says(op.settled \cup op.lost)
        BY <3>2, SaysOnly DEF Lose, Says
      <4> QED
        BY <2>2, <3>1, <4>1 DEF Honest, Says
    <3>3. CASE Refuse
      <4>1. PICK branch \in OnRefusal : Settle("refused", branch)
        BY <3>3 DEF Refuse
      <4>2. \/ branch \in {"refused", "lost"}
            \/ branch = "then" /\ op.needs \in {"any", "json"}
        BY <4>1 DEF OnRefusal
      <4>3. CASE branch \in {"refused", "lost"}
        <5>1. told' \subseteq Says(op.settled \cup op.refused \cup op.lost)
          BY <4>1, <4>3, SaysOnly DEF Says
        <5> QED
          BY <2>2, <3>1, <5>1 DEF Honest
      <4>4. CASE branch = "then" /\ op.needs \in {"any", "json"}
        <5>1. told' \subseteq Says(op.settled) \cup Says(op.then \cup op.succeeded)
          BY <4>1, <4>4, SaysOnly DEF Says
        <5>2. "success" \notin Says(op.settled)
          BY <2>2, <3>1 DEF Honest, Says
        <5> QED
          BY <2>2, <3>1, <4>4, <5>1, <5>2 DEF Honest
      <4> QED
        BY <4>2, <4>3, <4>4
    <3> QED
      BY <2>2, <3>2, <3>3
  <2>3. CASE Refuse
    <3>1. row' = "old" /\ UNCHANGED op
      BY <2>3 DEF Refuse, Settle, OpInv
    <3> QED
      BY <2>2, <2>3, <3>1 DEF SaysTruly
  <2>4. CASE Lose
    <3>1. outcome' = "lost" /\ UNCHANGED op
      BY <2>4 DEF Lose, Settle
    <3> QED
      BY <2>2, <2>4, <3>1 DEF SaysTruly
  <2>5. CASE ~(Answer \/ Refuse \/ Lose)
    <3>1. UNCHANGED <<op, told>>
      BY <2>5 DEF Next, Click, Confirm, Decline, Cancel, Visit, Apply, FetchReads,
         FetchArrives, FetchFails, LateReads, LateArrives, Age, Focus, Collect, OnlyView,
         browserVars
    <3>2. UNCHANGED <<row, outcome>> \/ told = {}
      <4>1. CASE stage # "done"
        BY <4>1 DEF OpInv
      <4>2. CASE stage = "done"
        BY <2>5, <4>2 DEF Next, Click, Confirm, Decline, Cancel, Visit, GivenUp, Apply,
           FetchReads, FetchArrives, FetchFails, LateReads, LateArrives, Age, Focus,
           Collect, OnlyView, browserVars
      <4> QED
        BY <4>1, <4>2
    <3> QED
      BY <3>1, <3>2 DEF SaysTruly
  <2> QED
    BY <2>1, <2>3, <2>4, <2>5
<1> QED
  BY <1>1, <1>2, OpHolds, PTL DEF Spec

-------------------------------------------------------------------------------
(* Pages.                                                                  *)

\* A considerate handler's answer moves the user on only from its own page.
THEOREM UsersStayPut == ASSUME Considerate PROVE Spec => StaysPut
<1>1. OpInv /\ [Next]_browserVars =>
        [outcome = "none" /\ outcome' \in {"ok", "refused", "lost"} /\ left
           => place' = place \/ op.name \in Abducts]_browserVars
  <2> SUFFICES ASSUME OpInv, [Next]_browserVars, outcome = "none",
                      outcome' \in {"ok", "refused", "lost"}, left,
                      op.name \notin Abducts
               PROVE  place' = place
    OBVIOUS
  <2>1. PICK how, branch : Settle(how, branch)
                           /\ branch \in {"then", "refused", "lost"}
    BY DEF Next, Click, Confirm, Decline, Cancel, Visit, Apply, FetchReads,
       FetchArrives, FetchFails, LateReads, LateArrives, Age, Focus, Collect, OnlyView,
       browserVars, Answer, Refuse, Lose, OnSuccess, OnRefusal
  <2>2. Targets(op.settled \cup op.succeeded) = {}
    BY SiteAssumption DEF OpInv, Handlers
  <2>3. op.bound \/ Goals(op) = {}
    BY DEF Considerate, OpInv
  <2>4. Targets(Effects(branch)) = {}
    <3>1. CASE op.bound
      BY <2>2, <3>1 DEF Effects, Targets
    <3>2. CASE Goals(op) = {}
      <4>1. Effects(branch) \subseteq (op.settled \cup op.succeeded)
                                       \cup (op.then \cup op.refused \cup op.lost)
        BY <2>1 DEF Effects
      <4> QED
        BY <2>2, <3>2, <4>1 DEF Goals, Targets
    <3> QED
      BY <2>3, <3>1, <3>2
  <2> QED
    BY <2>1, <2>4 DEF Settle
<1> QED
  BY <1>1, OpHolds, PTL DEF Spec, StaysPut

-------------------------------------------------------------------------------
(* Writes that are shown.                                                  *)

\* A request that was carried out and answered had probe read again, if that is
\* how op is written and there still is somebody to read it.
Followed ==
    outcome = "ok" =>
        /\ op.request.answers # "none"
        /\ (probe.cached \/ ~left) /\ Rereads(Always(op), probe) => refreshed

\* How op is written does not change, and whoever has left does not return.
LEMMA FollowedNext ==
    ASSUME UNCHANGED <<op, probe>>, left => left',
           outcome' = "ok" =>
               /\ op.request.answers # "none"
               /\ (probe.cached \/ ~left) /\ Rereads(Always(op), probe) => refreshed'
    PROVE  Followed'
<1>1. Always(op)' = Always(op)
  BY DEF Always, Branch, Satisfying
<1>2. Rereads(Always(op), probe)' <=> Rereads(Always(op), probe)
  BY <1>1 DEF Rereads
<1> QED
  BY <1>2 DEF Followed

\* Where every handler is attentive no page goes on showing what was there before
\* a write, whichever page the user is on or opens later, and however fetches,
\* page changes and the answer overlap.
THEOREM WritesAreShown == ASSUME Attentive PROVE Spec => []OwnWritesShown
<1>1. Init => Followed
  BY DEF Init, Followed
<1>2. OpInv /\ Followed /\ [Next]_browserVars => Followed'
  <2> SUFFICES ASSUME OpInv, Followed, [Next]_browserVars PROVE Followed'
    OBVIOUS
  <2>1. CASE Answer
    <3>1. /\ UNCHANGED <<op, probe>>
          /\ left => left'
          /\ op.request.answers # "none"
          /\ refreshed' = (Invalidates(Effects(Branch(op))) \/ Reloads(Effects(Branch(op))))
      BY <2>1 DEF Answer, Settle, OpInv, OnSuccess, Branch
    <3>2. Always(op) \subseteq Effects(Branch(op))
      BY DEF Always, Effects
    <3>3. SUFFICES ASSUME Rereads(Always(op), probe), probe.cached \/ ~left
                   PROVE  refreshed'
      BY <3>1, FollowedNext
    <3>4. CASE [refetch |-> probe] \in Always(op)
      BY <3>1, <3>2, <3>3, <3>4 DEF Reloads
    <3>5. CASE probe.cached /\ \E e \in Always(op) : "refresh" \in DOMAIN e
                                                     /\ Matches(e.refresh, probe)
      BY <3>1, <3>2, <3>5 DEF Invalidates
    <3> QED
      BY <3>3, <3>4, <3>5 DEF Rereads
  <2>2. CASE Refuse \/ Lose
    BY <2>2 DEF Refuse, Lose, Settle, Followed
  <2>3. CASE ~(Answer \/ Refuse \/ Lose)
    <3>1. /\ UNCHANGED <<op, probe, refreshed>>
          /\ left => left'
          /\ outcome' = "ok" => outcome = "ok"
      BY <2>3 DEF Next, Click, Confirm, Decline, Cancel, Visit, Apply, FetchReads,
         FetchArrives, FetchFails, LateReads, LateArrives, Age, Focus, Collect, OnlyView,
         browserVars
    <3> QED
      BY <3>1, FollowedNext DEF Followed
  <2> QED
    BY <2>1, <2>2, <2>3
<1>3. TypeOK /\ RefreshedIsShown /\ OpInv /\ Followed => OwnWritesShown
  <2> SUFFICES ASSUME TypeOK, RefreshedIsShown, OpInv, Followed,
                      stage = "done", outcome = "ok", row = "new", ~missed,
                      Concerns(op, probe), op.name \notin Forgetful,
                      probe \notin SearchResults, probe.cached \/ ~left, Mounted
               PROVE  ~ShowsOld
    BY DEF OwnWritesShown, ShowsOld
  <2>1. ~left => Together(op, probe)
    BY DEF OpInv, TypeOK, Together, Mounted
  <2>2. Rereads(Always(op), probe)
    BY <2>1 DEF Attentive, OpInv, Followed
  <2> QED
    BY <2>2 DEF Followed, RefreshedIsShown
<1> QED
  BY <1>1, <1>2, <1>3, OpHolds, TypeCorrect, RefreshShowsWrites, PTL DEF Spec
===============================================================================
