----------------------------- MODULE UserDirectory -----------------------------
(***************************************************************************)
(* A user is an account in Keycloak and a row in the API's database.  The  *)
(* handlers of UsersController write both without a transaction; what is   *)
(* read from Keycloak is kept in Redis for a minute and evicted by every   *)
(* write.  Requests overlap, Keycloak's calls fail, the API stops between  *)
(* two of a handler's steps.                                               *)
(*                                                                         *)
(* All state is per user, so there is one user, created at most once: a    *)
(* user created again gets another subject id.                             *)
(***************************************************************************)
EXTENDS Naturals

CONSTANTS Requests,   \* each is made at most once: the bound of the model
          Roles

VARIABLES
    account,    \* Keycloak's user, with its role groups
    row,        \* the role in the row of table user, NoRole when there is none
    cache,      \* the profile that Redis holds, or Nothing
    req,        \* the requests
    collided,   \* two writing requests overlapped
    broken,     \* what interruptions left undone, and nothing has repaired
    promised    \* what the writes that got through have asked of the account

userVars == <<account, row, cache, req, collided, broken, promised>>

NoRole == "no role"
Nothing == "nothing"
Initial == "initial"

ASSUME UserAssumption ==
    /\ NoRole \notin Roles
    /\ {Nothing, Initial} \cap Requests = {}

\* A profile (username, e-mail, names, attributes) is named by who wrote it.
Profiles == Requests \cup {Initial, Nothing}

\* mfa: CONFIGURE_TOTP is among the required actions.
Accounts == [exists : BOOLEAN, profile : Profiles, mfa : BOOLEAN, groups : SUBSET Roles]

Kinds == {"create", "patch", "mfa", "delete", "read", "none"}
Stages == {"new", "post", "lookup", "insert", "undo", "get", "put", "evict", "groups",
           "leave", "join", "save", "drop", "remove", "fetch", "store", "done", "failed"}

\* role: the role the body asks for.  seen: the role in the row as found.  profile,
\* mfa: the representation read.  groups, member: the role groups still to leave, and
\* whether the new one was among those found.
ReqTypes == [kind : Kinds, stage : Stages, role : Roles \cup {NoRole},
             seen : Roles \cup {NoRole}, profile : Profiles, mfa : BOOLEAN,
             groups : SUBSET Roles, member : BOOLEAN]

Request(kind, stage, role) ==
    [kind |-> kind, stage |-> stage, role |-> role, seen |-> row,
     profile |-> Nothing, mfa |-> FALSE, groups |-> {}, member |-> FALSE]

Ended == {"new", "done", "failed"}
Writing(r) == req[r].kind # "read" /\ req[r].stage \notin Ended

ChangesRole(q) == q.role \notin {NoRole, q.seen}

-------------------------------------------------------------------------------
(* Requests arrive.  FindAsync is part of the arrival.                     *)

Arrives(r, q) ==
    /\ req[r].stage = "new"
    /\ req' = [req EXCEPT ![r] = q]
    /\ collided' = (collided \/ (q.kind # "read" /\ \E x \in Requests : Writing(x)))
    /\ UNCHANGED <<account, row, cache, broken, promised>>

CreateOne(r) ==
    /\ account.profile = Nothing
    /\ \A x \in Requests : req[x].kind # "create"
    /\ \E role \in Roles : Arrives(r, Request("create", "post", role))

\* Mutant of AfterEdit: the role groups are set, whether a role is given or not.
AfterEditAlways(q) == "groups"

AfterEdit(q) == IF ChangesRole(q) THEN "groups" ELSE "save"

\* The body may have identity fields, a role, both or neither.
PatchOne(r) ==
    /\ row # NoRole
    /\ \E role \in Roles \cup {NoRole} :
          LET q == Request("patch", "get", role)
          IN  Arrives(r, q) \/ Arrives(r, [q EXCEPT !.stage = AfterEdit(q)])

\* ExecuteAction, "enable-mfa".
ExecuteAction(r) ==
    row # NoRole /\ Arrives(r, Request("mfa", "get", NoRole))

DeleteOne(r) ==
    row # NoRole /\ Arrives(r, Request("delete", "drop", NoRole))

\* Any response with the user in it, and any request with one of his API tokens.  An
\* error of Redis counts as a miss.
GetManyAsync(r) ==
    /\ row # NoRole
    /\ \/ cache # Nothing /\ Arrives(r, Request("read", "done", NoRole))
       \/ Arrives(r, Request("read", "fetch", NoRole))

-------------------------------------------------------------------------------
(* The steps of KeycloakUserDirectory.                                     *)

At(r, stage) == req[r].stage = stage
GoesTo(r, stage) == req' = [req EXCEPT ![r].stage = stage]

\* CreateAsync: the account is made, and then looked up for its id.
Post(r) ==
    /\ At(r, "post")
    /\ account' = [exists |-> TRUE, profile |-> r, mfa |-> FALSE,
                   groups |-> {req[r].role}]
    /\ promised' = [profile |-> r, mfa |-> FALSE]
    /\ GoesTo(r, "lookup")
    /\ UNCHANGED <<row, cache, collided, broken>>

Lookup(r) ==
    /\ At(r, "lookup") /\ GoesTo(r, "insert")
    /\ UNCHANGED <<account, row, cache, collided, broken, promised>>

\* UpdateAsync and AddRequiredActionAsync read the whole representation ...
GetRepresentation(r) ==
    /\ At(r, "get") /\ account.exists
    /\ req' = [req EXCEPT ![r].profile = account.profile, ![r].mfa = account.mfa,
                          ![r].stage = IF req[r].kind = "mfa" /\ account.mfa
                                       THEN "done" ELSE "put"]
    /\ UNCHANGED <<account, row, cache, collided, broken, promised>>

AfterEvict(q) ==
    CASE q.kind = "patch"  -> AfterEdit(q)
      [] q.kind = "delete" -> "remove"
      [] q.kind = "create" -> "failed"
      [] OTHER             -> "done"

\* Mutant of PutRepresentation: an update sends a representation of its own.
PutOwnRepresentation(r) ==
    LET q == req[r] IN
    /\ At(r, "put") /\ account.exists
    /\ IF q.kind = "mfa"
       THEN /\ account' = [account EXCEPT !.profile = q.profile, !.mfa = TRUE]
            /\ promised' = [promised EXCEPT !.mfa = TRUE]
       ELSE /\ account' = [account EXCEPT !.profile = r, !.mfa = FALSE]
            /\ promised' = [promised EXCEPT !.profile = r]
    /\ GoesTo(r, "evict")
    /\ UNCHANGED <<row, cache, collided, broken>>

\* ... change their part of it, and write all of it.
PutRepresentation(r) ==
    LET q == req[r] IN
    /\ At(r, "put") /\ account.exists
    /\ IF q.kind = "mfa"
       THEN /\ account' = [account EXCEPT !.profile = q.profile, !.mfa = TRUE]
            /\ promised' = [promised EXCEPT !.mfa = TRUE]
       ELSE /\ account' = [account EXCEPT !.profile = r, !.mfa = q.mfa]
            /\ promised' = [promised EXCEPT !.profile = r]
    /\ GoesTo(r, "evict")
    /\ UNCHANGED <<row, cache, collided, broken>>

\* DeleteAsync, of DeleteOne and of a CreateOne whose insert failed.
Drop(r) ==
    /\ At(r, "drop") \/ At(r, "undo")
    /\ account.exists
    /\ account' = [account EXCEPT !.exists = FALSE, !.groups = {}]
    /\ GoesTo(r, "evict")
    /\ UNCHANGED <<row, cache, collided, broken, promised>>

\* Mutant of Evict: another key is evicted.
EvictAnother(r) ==
    /\ At(r, "evict")
    /\ GoesTo(r, AfterEvict(req[r]))
    /\ UNCHANGED <<account, row, cache, collided, broken, promised>>

\* InvalidateAsync.  An error of Redis is logged and forgotten.
Evict(r) ==
    /\ At(r, "evict")
    /\ GoesTo(r, AfterEvict(req[r]))
    /\ \/ cache' = Nothing /\ broken' = broken \ {"cache"}
       \/ cache' = cache /\ broken' = broken \cup {"cache"}
    /\ UNCHANGED <<account, row, collided, promised>>

\* SetRoleGroupAsync: the groups are read, all others left one by one, and the new
\* one joined unless it was among them.
StillToLeave(r, groups, member) ==
    req' = [req EXCEPT ![r].groups = groups, ![r].member = member,
                       ![r].stage = IF groups # {} THEN "leave"
                                    ELSE IF member THEN "save" ELSE "join"]

ReadGroups(r) ==
    /\ At(r, "groups") /\ account.exists
    /\ StillToLeave(r, account.groups \ {req[r].role}, req[r].role \in account.groups)
    /\ UNCHANGED <<account, row, cache, collided, broken, promised>>

\* Mutant of Leave: the old group is kept.
LeaveNone(r) ==
    /\ At(r, "leave") /\ account.exists
    /\ StillToLeave(r, {}, req[r].member)
    /\ UNCHANGED <<account, row, cache, collided, broken, promised>>

Leave(r) ==
    /\ At(r, "leave") /\ account.exists
    /\ \E g \in req[r].groups :
          /\ account' = [account EXCEPT !.groups = @ \ {g}]
          /\ StillToLeave(r, req[r].groups \ {g}, req[r].member)
    /\ UNCHANGED <<row, cache, collided, broken, promised>>

Join(r) ==
    /\ At(r, "join") /\ account.exists
    /\ account' = [account EXCEPT !.groups = @ \cup {req[r].role}]
    /\ GoesTo(r, "save")
    /\ UNCHANGED <<row, cache, collided, broken, promised>>

-------------------------------------------------------------------------------
(* The steps in the database.                                              *)

Insert(r) ==
    /\ At(r, "insert")
    /\ row' = req[r].role
    /\ GoesTo(r, "done")
    /\ UNCHANGED <<account, cache, collided, broken, promised>>

\* Mutant of InsertFails: the account is left behind.
InsertFailsQuietly(r) ==
    /\ At(r, "insert") /\ GoesTo(r, "failed")
    /\ UNCHANGED <<account, row, cache, collided, broken, promised>>

\* SaveChanges throws: the account is deleted again.
InsertFails(r) ==
    /\ At(r, "insert") /\ GoesTo(r, "undo")
    /\ UNCHANGED <<account, row, cache, collided, broken, promised>>

\* Users.Update writes every column: a role that is not changed is written as found.
Save(r) ==
    /\ At(r, "save") /\ row # NoRole
    /\ row' = IF ChangesRole(req[r]) THEN req[r].role ELSE req[r].seen
    /\ broken' = IF ChangesRole(req[r]) THEN broken \ {"role"} ELSE broken
    /\ GoesTo(r, "done")
    /\ UNCHANGED <<account, cache, collided, promised>>

Remove(r) ==
    /\ At(r, "remove") /\ row # NoRole
    /\ row' = NoRole
    /\ GoesTo(r, "done")
    /\ UNCHANGED <<account, cache, collided, broken, promised>>

-------------------------------------------------------------------------------
(* Readers, and the cache.                                                 *)

Fetch(r) ==
    /\ At(r, "fetch") /\ account.exists
    /\ req' = [req EXCEPT ![r].profile = account.profile, ![r].stage = "store"]
    /\ UNCHANGED <<account, row, cache, collided, broken, promised>>

\* The account may have changed since: then the cache is behind.
Store(r) ==
    /\ At(r, "store")
    /\ GoesTo(r, "done")
    /\ \/ /\ cache' = req[r].profile
          /\ broken' = IF account.exists /\ req[r].profile = account.profile
                       THEN broken \ {"cache"} ELSE broken \cup {"cache"}
       \/ UNCHANGED <<cache, broken>>
    /\ UNCHANGED <<account, row, collided, promised>>

\* CacheTtl.
Expire ==
    /\ cache # Nothing
    /\ cache' = Nothing /\ broken' = broken \ {"cache"}
    /\ UNCHANGED <<account, row, req, collided, promised>>

-------------------------------------------------------------------------------
(* Failures.                                                               *)

\* Keycloak's 404, or EF's exception for a row that is gone, leaves the handler.  A
\* reader only logs it.
NotFound(r) ==
    /\ \/ /\ ~account.exists
          /\ req[r].stage \in {"get", "put", "groups", "leave", "join", "drop", "undo",
                               "fetch"}
       \/ row = NoRole /\ req[r].stage \in {"save", "remove"}
    /\ GoesTo(r, "failed")
    /\ UNCHANGED <<account, row, cache, collided, broken, promised>>

\* What a request that ends here leaves undone.
Undone(q) ==
    CASE q.stage \in {"lookup", "insert", "undo", "remove"} -> {"existence"}
      [] q.stage = "evict" /\ q.kind = "delete"             -> {"existence", "cache"}
      [] q.stage = "evict" /\ q.kind # "delete"             -> {"cache"}
      [] q.stage = "join"                                   -> {"role"}
      [] q.stage = "save" /\ ChangesRole(q)                 -> {"role"}
      [] OTHER                                              -> {}

\* Keycloak refuses or does not answer, or the API stops: at any step, done or not.
Interrupted(r) ==
    /\ Writing(r)
    /\ GoesTo(r, "failed")
    /\ broken' = broken \cup Undone(req[r])
    /\ UNCHANGED <<account, row, cache, collided, promised>>

-------------------------------------------------------------------------------
Blank == [kind |-> "none", stage |-> "new", role |-> NoRole,
          seen |-> NoRole, profile |-> Nothing, mfa |-> FALSE, groups |-> {},
          member |-> FALSE]

\* A user with a row and an account, or none yet.
Init ==
    /\ row \in Roles \cup {NoRole}
    /\ account = IF row = NoRole
                 THEN [exists |-> FALSE, profile |-> Nothing, mfa |-> FALSE, groups |-> {}]
                 ELSE [exists |-> TRUE, profile |-> Initial, mfa |-> FALSE,
                       groups |-> {row}]
    /\ promised = [profile |-> account.profile, mfa |-> FALSE]
    /\ cache = Nothing
    /\ req = [r \in Requests |-> Blank]
    /\ collided = FALSE
    /\ broken = {}

Step(r) ==
    \/ CreateOne(r) \/ PatchOne(r) \/ ExecuteAction(r) \/ DeleteOne(r) \/ GetManyAsync(r)
    \/ Post(r) \/ Lookup(r) \/ GetRepresentation(r) \/ PutRepresentation(r) \/ Drop(r)
    \/ Evict(r) \/ ReadGroups(r) \/ Leave(r) \/ Join(r)
    \/ Insert(r) \/ InsertFails(r) \/ Save(r) \/ Remove(r)
    \/ Fetch(r) \/ Store(r) \/ NotFound(r) \/ Interrupted(r)

Next == Expire \/ \E r \in Requests : Step(r)

Spec == Init /\ [][Next]_userVars

-------------------------------------------------------------------------------
TypeOK ==
    /\ account \in Accounts
    /\ row \in Roles \cup {NoRole}
    /\ cache \in Profiles
    /\ req \in [Requests -> ReqTypes]
    /\ collided \in BOOLEAN
    /\ broken \subseteq {"existence", "role", "cache"}
    /\ promised \in [profile : Profiles, mfa : BOOLEAN]

AtRest == \A r \in Requests : ~Writing(r)

\* "Keep Keycloak and the user table in step": however requests overlap, and when an
\* insert fails, there is an account exactly when there is a row, unless a request was
\* interrupted between the two.
InStep == AtRest /\ "existence" \notin broken => (account.exists <=> row # NoRole)

\* "Role is authorisation data: stored in Reconmap and mirrored as a Keycloak group":
\* requests that do not overlap keep them equal, and one that changes the role puts
\* right what an interrupted one has left.
RoleIsMirrored ==
    AtRest /\ ~collided /\ {"role", "existence"} \cap broken = {} /\ row # NoRole
        => account.groups = {row}

\* "Every write evicts the cached entries for that user": what Redis holds is behind
\* Keycloak only until a write has evicted it, after an eviction that did not take
\* place, or when a reader stored what it had read before the write.
CacheIsCurrent ==
    /\ "cache" \notin broken
    /\ \A r \in Requests : ~At(r, "evict")
    => cache = Nothing \/ (account.exists /\ cache = account.profile)

\* Writes replace the whole representation, but if they do not overlap none of them
\* takes back what another one wrote.
KeepsPromises ==
    account.exists /\ ~collided =>
        /\ account.profile = promised.profile
        /\ promised.mfa => account.mfa
===============================================================================
