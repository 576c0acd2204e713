------------------------------- MODULE PageParts -------------------------------
(***************************************************************************)
(* How the modules that follow write a page of the dashboard down: the     *)
(* queries that it and the components on it subscribe to, and the handlers *)
(* that change records.  A handler is a record: the confirmation it asks   *)
(* for, the request it makes, what it requires of the answer, and what it  *)
(* then does.  Browser gives these records their behaviour.                *)
(***************************************************************************)
EXTENDS ApiClient

(* What a handler does once it knows the answer.                           *)
Refresh(key)   == {[refresh |-> key]}     \* invalidateQueries
Refetch(query) == {[refetch |-> query]}   \* refetch(), or a fetch of its own
GoTo(page)     == {[goto |-> page]}       \* navigate
Say(what)      == {[say |-> what]}        \* a "success" or "error" message
Free           == {[free |-> TRUE]}       \* the busy flag, or a dialog's button

\* A handler that goes on with `then' when the answer is what it needs: "any"
\* answer, an "ok" one, a "json" body or a "created" record.  Nothing happens
\* otherwise.
Handler(name, request, needs, then) ==
    [name |-> name, request |-> request, needs |-> needs,
     asks |-> FALSE,      \* it waits for useConfirm's dialog first
     busy |-> FALSE,      \* it takes no second click before it is freed
     bound |-> FALSE,     \* `then', `refused' and `lost' need its component
     aborts |-> FALSE,    \* its request can be cancelled, and is when its component goes
     settled |-> {},      \* done whatever the answer
     succeeded |-> {},    \* done by the mutation hook when it succeeds
     then |-> then, refused |-> {}, lost |-> {}]

\* useConfirm: the request follows only when the dialog is confirmed.
Asks(h) == [h EXCEPT !.asks = TRUE]

\* A flag or isPending disables the button from the click on.
Busy(h) == [h EXCEPT !.busy = TRUE]

\* An AbortController, told by a cancel button and by the effect that cleans up.
Aborts(h) == [h EXCEPT !.aborts = TRUE]

\* An else branch, or the catch that a thrown answer ends in.
Else(h, effects) == [h EXCEPT !.refused = effects]

\* A catch: the fetch was rejected, or the body did not parse.
Catch(h, effects) == [h EXCEPT !.lost = effects]

Failing(h, effects) == Catch(Else(h, effects), effects)

\* finally.
Finally(h, effects) == [h EXCEPT !.settled = @ \cup effects]

Refreshing(keys) == UNION {Refresh(k) : k \in keys}

\* mutateAsync: what follows the await runs wherever the user is by then.
Await(name, mutation, then) ==
    [Handler(name, mutation.request, mutation.needs, then) EXCEPT
        !.settled = Refreshing(mutation.settled),
        !.succeeded = Refreshing(mutation.succeeded)]

\* mutate: its callbacks are dropped when the component has gone.
Mutate(name, mutation, then) ==
    [Await(name, mutation, then) EXCEPT !.bound = TRUE]

\* A component: what it subscribes to, its handlers, and those inside it.
Part(shows, does, inner) ==
    [shows |-> shows \cup UNION {p.shows : p \in inner},
     does  |-> does \cup UNION {p.does : p \in inner}]

\* A component that only reads.
Reads(shows) == Part(shows, {}, {})
===============================================================================
