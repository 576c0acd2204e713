-------------------------- MODULE UserDirectoryProofs --------------------------
(***************************************************************************)
(* For every number of requests and every set of roles: a user's account,  *)
(* row and cache as far as they are kept in step.                          *)
(***************************************************************************)
EXTENDS UserDirectory, TLAPS

-------------------------------------------------------------------------------
(* The types, and what a request at each stage is.                         *)

Fits(q) ==
    /\ q.stage \in {"post", "lookup", "insert", "undo"} =>
           q.kind = "create" /\ q.role # NoRole
    /\ q.stage \in {"groups", "leave", "join"} => q.kind = "patch" /\ ChangesRole(q)
    /\ q.stage = "save" => q.kind = "patch"
    /\ q.stage \in {"drop", "remove"} => q.kind = "delete"
    /\ q.stage \in {"get", "put"} => q.kind \in {"patch", "mfa"}
    /\ q.stage \in {"fetch", "store"} <=> q.kind = "read" /\ q.stage \notin Ended
    /\ q.kind = "patch" => q.seen # NoRole

Fitting == \A r \in Requests : Fits(req[r])

LEMMA BlankTyped == Blank \in ReqTypes
BY DEF Blank, ReqTypes, Kinds, Stages, Profiles

LEMMA RequestFields ==
    ASSUME NEW q \in ReqTypes
    PROVE  /\ q.kind \in Kinds /\ q.stage \in Stages
           /\ q.role \in Roles \cup {NoRole} /\ q.seen \in Roles \cup {NoRole}
           /\ q.profile \in Profiles /\ q.mfa \in BOOLEAN
           /\ q.groups \subseteq Roles /\ q.member \in BOOLEAN
BY DEF ReqTypes

LEMMA AccountFields ==
    ASSUME account \in Accounts
    PROVE  /\ account.exists \in BOOLEAN /\ account.profile \in Profiles
           /\ account.mfa \in BOOLEAN /\ account.groups \subseteq Roles
BY DEF Accounts

LEMMA RequestTyped ==
    ASSUME NEW kind \in Kinds, NEW stage \in Stages, NEW role \in Roles \cup {NoRole},
           row \in Roles \cup {NoRole}
    PROVE  Request(kind, stage, role) \in ReqTypes
BY DEF Request, ReqTypes, Profiles

LEMMA StageTyped ==
    ASSUME NEW q \in ReqTypes, NEW stage \in Stages
    PROVE  [q EXCEPT !.stage = stage] \in ReqTypes
BY DEF ReqTypes

LEMMA NextStages ==
    ASSUME NEW q \in ReqTypes
    PROVE  /\ AfterEdit(q) \in {"groups", "save"}
           /\ AfterEvict(q) \in {"groups", "save", "remove", "failed", "done"}
BY DEF AfterEdit, AfterEvict

LEMMA InitTyped == Init => TypeOK /\ Fitting
<1> SUFFICES ASSUME Init PROVE TypeOK /\ Fitting
  OBVIOUS
<1>1. account \in Accounts
  <2>1. CASE row = NoRole
    BY <2>1 DEF Init, Accounts, Profiles
  <2>2. CASE row # NoRole
    BY <2>2 DEF Init, Accounts, Profiles
  <2> QED
    BY <2>1, <2>2
<1>2. req \in [Requests -> ReqTypes]
  BY BlankTyped DEF Init
<1>3. promised \in [profile : Profiles, mfa : BOOLEAN]
  BY <1>1, AccountFields DEF Init
<1>4. Fitting
  BY DEF Init, Fitting, Fits, Blank, Ended
<1> QED
  BY <1>1, <1>2, <1>3, <1>4 DEF Init, TypeOK, Profiles

\* Every step changes one request.
LEMMA OneTyped ==
    ASSUME TypeOK, Fitting, NEW r \in Requests, NEW q \in ReqTypes, Fits(q),
           req' = [req EXCEPT ![r] = q]
    PROVE  req' \in [Requests -> ReqTypes] /\ Fitting'
BY DEF TypeOK, Fitting

LEMMA MoveTyped ==
    ASSUME TypeOK, Fitting, NEW r \in Requests, NEW stage \in Stages, GoesTo(r, stage),
           Fits([req[r] EXCEPT !.stage = stage])
    PROVE  req' \in [Requests -> ReqTypes] /\ Fitting'
<1>1. [req[r] EXCEPT !.stage = stage] \in ReqTypes
  BY StageTyped DEF TypeOK
<1>2. req' = [req EXCEPT ![r] = [req[r] EXCEPT !.stage = stage]]
  BY DEF GoesTo
<1> QED
  BY <1>1, <1>2, OneTyped

LEMMA RegroupTyped ==
    ASSUME TypeOK, Fitting, NEW r \in Requests, req[r].stage \in {"groups", "leave"},
           NEW groups \in SUBSET Roles, NEW member \in BOOLEAN,
           StillToLeave(r, groups, member)
    PROVE  req' \in [Requests -> ReqTypes] /\ Fitting'
<1> DEFINE stage == IF groups # {} THEN "leave" ELSE IF member THEN "save" ELSE "join"
           q == [req[r] EXCEPT !.groups = groups, !.member = member, !.stage = stage]
<1>1. stage \in {"leave", "save", "join"}
  OBVIOUS
<1>2. req' = [req EXCEPT ![r] = q]
  BY DEF StillToLeave, TypeOK, ReqTypes
<1> HIDE DEF stage
<1>3. q \in ReqTypes
  <2>1. req[r] \in ReqTypes /\ stage \in Stages
    BY <1>1 DEF TypeOK, Stages
  <2> QED
    BY <2>1 DEF ReqTypes
<1>4. Fits(q)
  BY <1>1 DEF Fitting, Fits, TypeOK, ReqTypes, ChangesRole, Ended
<1> QED
  BY <1>2, <1>3, <1>4, OneTyped

LEMMA ArrivalTyped ==
    ASSUME TypeOK, Fitting, NEW r \in Requests, NEW q \in ReqTypes, Fits(q),
           Arrives(r, q)
    PROVE  TypeOK' /\ Fitting'
<1>1. req' \in [Requests -> ReqTypes] /\ Fitting'
  BY OneTyped DEF Arrives
<1> QED
  BY <1>1 DEF TypeOK, Arrives, Accounts

LEMMA StepTyped == TypeOK /\ Fitting /\ [Next]_userVars => TypeOK' /\ Fitting'
<1> SUFFICES ASSUME TypeOK, Fitting, [Next]_userVars PROVE TypeOK' /\ Fitting'
  OBVIOUS
<1>1. CASE UNCHANGED userVars
  BY <1>1 DEF TypeOK, Fitting, userVars
<1>2. CASE Expire
  BY <1>2 DEF TypeOK, Fitting, Expire, Profiles
<1>3. ASSUME NEW r \in Requests, Step(r) PROVE TypeOK' /\ Fitting'
  <2> DEFINE q == req[r]
  <2>a. q \in ReqTypes /\ Fits(q)
    BY DEF TypeOK, Fitting
  <2>b. /\ q.role \in Roles \cup {NoRole} /\ q.profile \in Profiles
        /\ q.mfa \in BOOLEAN /\ q.groups \subseteq Roles
    BY <2>a, RequestFields
  <2>c. /\ account.exists \in BOOLEAN /\ account.profile \in Profiles
        /\ account.mfa \in BOOLEAN /\ account.groups \subseteq Roles
    BY AccountFields DEF TypeOK
  <2>1. CASE CreateOne(r)
    <3>1. PICK role \in Roles : Arrives(r, Request("create", "post", role))
      BY <2>1 DEF CreateOne
    <3>2. Request("create", "post", role) \in ReqTypes
      BY RequestTyped DEF TypeOK, Kinds, Stages
    <3>3. Fits(Request("create", "post", role))
      BY UserAssumption DEF Fits, Request, Ended
    <3> QED
      BY <3>1, <3>2, <3>3, ArrivalTyped
  <2>2. CASE PatchOne(r)
    <3>1. PICK role \in Roles \cup {NoRole} :
             LET p == Request("patch", "get", role)
             IN  Arrives(r, p) \/ Arrives(r, [p EXCEPT !.stage = AfterEdit(p)])
      BY <2>2 DEF PatchOne
    <3> DEFINE p == Request("patch", "get", role)
    <3>2. p \in ReqTypes
      BY RequestTyped DEF TypeOK, Kinds, Stages
    <3>3. [p EXCEPT !.stage = AfterEdit(p)] \in ReqTypes
      <4> HIDE DEF p
      <4> QED
        BY <3>2, NextStages, StageTyped DEF Stages
    <3>4. Fits(p) /\ Fits([p EXCEPT !.stage = AfterEdit(p)])
      BY <2>2 DEF Fits, Request, Ended, PatchOne, AfterEdit, ChangesRole
    <3> QED
      BY <3>1, <3>2, <3>3, <3>4, ArrivalTyped
  <2>3. CASE ExecuteAction(r) \/ DeleteOne(r) \/ GetManyAsync(r)
    <3>1. /\ Request("mfa", "get", NoRole) \in ReqTypes
          /\ Request("delete", "drop", NoRole) \in ReqTypes
          /\ Request("read", "done", NoRole) \in ReqTypes
          /\ Request("read", "fetch", NoRole) \in ReqTypes
      BY RequestTyped DEF TypeOK, Kinds, Stages
    <3>2. /\ Fits(Request("mfa", "get", NoRole))
          /\ Fits(Request("delete", "drop", NoRole))
          /\ Fits(Request("read", "done", NoRole))
          /\ Fits(Request("read", "fetch", NoRole))
      BY DEF Fits, Request, Ended
    <3> QED
      BY <2>3, <3>1, <3>2, ArrivalTyped DEF ExecuteAction, DeleteOne, GetManyAsync
  <2>4. CASE Post(r)
    <3>1. q.role \in Roles /\ Fits([q EXCEPT !.stage = "lookup"])
      BY <2>a, <2>b, <2>4 DEF Post, At, Fits, Ended, ReqTypes
    <3>2. req' \in [Requests -> ReqTypes] /\ Fitting'
      BY <2>4, <3>1, MoveTyped DEF Post, Stages
    <3>3. account' \in Accounts /\ promised' \in [profile : Profiles, mfa : BOOLEAN]
      BY <2>4, <3>1 DEF Post, Accounts, Profiles
    <3> QED
      BY <2>4, <3>2, <3>3 DEF Post, TypeOK
  <2>5. CASE Lookup(r) \/ InsertFails(r) \/ Insert(r)
    <3>1. /\ Fits([q EXCEPT !.stage = "insert"])
          /\ Fits([q EXCEPT !.stage = "undo"])
          /\ Fits([q EXCEPT !.stage = "done"])
      BY <2>a, <2>5 DEF Lookup, InsertFails, Insert, At, Fits, Ended, ReqTypes
    <3>2. req' \in [Requests -> ReqTypes] /\ Fitting'
      BY <2>5, <3>1, MoveTyped DEF Lookup, InsertFails, Insert, Stages
    <3> QED
      BY <2>5, <2>b, <3>2 DEF Lookup, InsertFails, Insert, TypeOK
  <2>6. CASE NotFound(r) \/ Interrupted(r)
    <3>1. Fits([q EXCEPT !.stage = "failed"])
      BY <2>a DEF Fits, Ended, ReqTypes
    <3>2. req' \in [Requests -> ReqTypes] /\ Fitting'
      BY <2>6, <3>1, MoveTyped DEF NotFound, Interrupted, Stages
    <3>3. Undone(q) \subseteq {"existence", "role", "cache"}
      BY DEF Undone
    <3> QED
      BY <2>6, <3>2, <3>3 DEF NotFound, Interrupted, TypeOK
  <2>7. CASE GetRepresentation(r)
    <3> DEFINE p(stage) == [q EXCEPT !.profile = account.profile, !.mfa = account.mfa,
                                     !.stage = stage]
    <3>1. ASSUME NEW stage \in {"done", "put"} PROVE p(stage) \in ReqTypes /\ Fits(p(stage))
      BY <2>a, <2>c, <2>7
      DEF GetRepresentation, At, Fits, ChangesRole, Ended, ReqTypes, Stages
    <3>2. req' = [req EXCEPT ![r] = p("done")] \/ req' = [req EXCEPT ![r] = p("put")]
      BY <2>7 DEF GetRepresentation
    <3>3. PICK stage \in {"done", "put"} : req' = [req EXCEPT ![r] = p(stage)]
      BY <3>2
    <3>4. p(stage) \in ReqTypes /\ Fits(p(stage))
      BY <3>1
    <3> HIDE DEF p
    <3>5. req' \in [Requests -> ReqTypes] /\ Fitting'
      BY <3>3, <3>4, OneTyped
    <3> QED
      BY <2>7, <3>5 DEF GetRepresentation, TypeOK
  <2>8. CASE PutRepresentation(r)
    <3>1. Fits([q EXCEPT !.stage = "evict"])
      BY <2>a, <2>8 DEF PutRepresentation, At, Fits, Ended, ReqTypes
    <3>2. req' \in [Requests -> ReqTypes] /\ Fitting'
      BY <2>8, <3>1, MoveTyped DEF PutRepresentation, Stages
    <3>3. account' \in Accounts
      <4>1. PICK profile \in {q.profile, r}, mfa \in {TRUE, q.mfa} :
              account' = [account EXCEPT !.profile = profile, !.mfa = mfa]
        BY <2>8 DEF PutRepresentation
      <4>2. profile \in Profiles /\ mfa \in BOOLEAN
        BY <2>b DEF Profiles
      <4>3. account \in Accounts
        BY DEF TypeOK
      <4> QED
        BY <4>1, <4>2, <4>3 DEF Accounts
    <3>4. promised' \in [profile : Profiles, mfa : BOOLEAN]
      BY <2>8 DEF PutRepresentation, TypeOK, Profiles
    <3> QED
      BY <2>8, <3>2, <3>3, <3>4 DEF PutRepresentation, TypeOK
  <2>9. CASE Drop(r)
    <3>1. Fits([q EXCEPT !.stage = "evict"])
      BY <2>a, <2>9 DEF Drop, At, Fits, Ended, ReqTypes
    <3>2. req' \in [Requests -> ReqTypes] /\ Fitting'
      BY <2>9, <3>1, MoveTyped DEF Drop, Stages
    <3> QED
      BY <2>9, <3>2 DEF Drop, TypeOK, Accounts
  <2>10. CASE Evict(r)
    <3>1. Fits([q EXCEPT !.stage = AfterEvict(q)])
      BY <2>a, <2>10
      DEF Evict, At, Fits, AfterEvict, AfterEdit, ChangesRole, Ended, ReqTypes
    <3>2. req' \in [Requests -> ReqTypes] /\ Fitting'
      BY <2>a, <2>10, <3>1, NextStages, MoveTyped DEF Evict, Stages
    <3> QED
      BY <2>10, <3>2 DEF Evict, TypeOK, Profiles
  <2>11. CASE ReadGroups(r)
    <3> DEFINE member == q.role \in account.groups
    <3>1. member \in BOOLEAN
      OBVIOUS
    <3>2. StillToLeave(r, account.groups \ {q.role}, member)
      BY <2>11 DEF ReadGroups
    <3> HIDE DEF member
    <3>3. req' \in [Requests -> ReqTypes] /\ Fitting'
      BY <2>c, <2>11, <3>1, <3>2, RegroupTyped DEF ReadGroups, At
    <3> QED
      BY <2>11, <3>3 DEF ReadGroups, TypeOK
  <2>12. CASE Leave(r)
    <3>1. PICK g \in q.groups :
             /\ account' = [account EXCEPT !.groups = @ \ {g}]
             /\ StillToLeave(r, q.groups \ {g}, q.member)
      BY <2>12 DEF Leave
    <3>2. req' \in [Requests -> ReqTypes] /\ Fitting'
      BY <2>a, <2>b, <2>12, <3>1, RequestFields, RegroupTyped DEF Leave, At
    <3> QED
      BY <2>12, <3>1, <3>2 DEF Leave, TypeOK, Accounts
  <2>13. CASE Join(r)
    <3>1. q.role \in Roles /\ Fits([q EXCEPT !.stage = "save"])
      BY <2>a, <2>b, <2>13 DEF Join, At, Fits, ChangesRole, Ended, ReqTypes
    <3>2. req' \in [Requests -> ReqTypes] /\ Fitting'
      BY <2>13, <3>1, MoveTyped DEF Join, Stages
    <3> QED
      BY <2>13, <3>1, <3>2 DEF Join, TypeOK, Accounts
  <2>14. CASE Save(r) \/ Remove(r)
    <3>1. Fits([q EXCEPT !.stage = "done"])
      BY <2>a, <2>14 DEF Save, Remove, At, Fits, Ended, ReqTypes
    <3>2. req' \in [Requests -> ReqTypes] /\ Fitting'
      BY <2>14, <3>1, MoveTyped DEF Save, Remove, Stages
    <3>3. q.seen \in Roles \cup {NoRole}
      BY <2>a, RequestFields
    <3> QED
      BY <2>14, <2>b, <3>2, <3>3 DEF Save, Remove, TypeOK
  <2>15. CASE Fetch(r)
    <3> DEFINE p == [q EXCEPT !.profile = account.profile, !.stage = "store"]
    <3>1. p \in ReqTypes /\ Fits(p)
      BY <2>a, <2>c, <2>15 DEF Fetch, At, Fits, Ended, ReqTypes, Stages
    <3>2. req' \in [Requests -> ReqTypes] /\ Fitting'
      BY <2>15, <3>1, OneTyped DEF Fetch
    <3> QED
      BY <2>15, <3>2 DEF Fetch, TypeOK
  <2>16. CASE Store(r)
    <3>1. Fits([q EXCEPT !.stage = "done"])
      BY <2>a, <2>16 DEF Store, At, Fits, Ended, ReqTypes
    <3>2. req' \in [Requests -> ReqTypes] /\ Fitting'
      BY <2>16, <3>1, MoveTyped DEF Store, Stages
    <3> QED
      BY <2>16, <2>b, <3>2 DEF Store, TypeOK
  <2> QED
    BY <1>3, <2>1, <2>2, <2>3, <2>4, <2>5, <2>6, <2>7, <2>8, <2>9, <2>10, <2>11,
       <2>12, <2>13, <2>14, <2>15, <2>16 DEF Step
<1> QED
  BY <1>1, <1>2, <1>3 DEF Next

\* The user of every reachable state is typed.
THEOREM TypeCorrect == Spec => []TypeOK
<1>1. Spec => [](TypeOK /\ Fitting)
  BY InitTyped, StepTyped, PTL DEF Spec
<1> QED
  BY <1>1, PTL

-------------------------------------------------------------------------------
(* What a step does to the requests.                                       *)

LEMMA MoveOf ==
    ASSUME TypeOK, NEW r \in Requests, NEW stage \in Stages, GoesTo(r, stage)
    PROVE  /\ req'[r].stage = stage
           /\ req'[r].kind = req[r].kind /\ req'[r].role = req[r].role
           /\ req'[r].seen = req[r].seen /\ req'[r].profile = req[r].profile
           /\ req'[r].mfa = req[r].mfa
           /\ \A x \in Requests \ {r} : req'[x] = req[x]
BY DEF TypeOK, GoesTo, ReqTypes

LEMMA ArrivalOf ==
    ASSUME TypeOK, NEW r \in Requests, NEW q, Arrives(r, q)
    PROVE  /\ req'[r] = q
           /\ \A x \in Requests \ {r} : req'[x] = req[x]
BY DEF TypeOK, Arrives

LEMMA PatchOf ==
    ASSUME TypeOK, NEW r \in Requests, PatchOne(r)
    PROVE  /\ req'[r].stage \in {"get", "groups", "save"}
           /\ req'[r].kind = "patch" /\ req'[r].seen = row
           /\ req'[r].stage = "save" => ~ChangesRole(req'[r])
           /\ \A x \in Requests \ {r} : req'[x] = req[x]
<1>1. PICK role \in Roles \cup {NoRole} :
         LET p == Request("patch", "get", role)
         IN  Arrives(r, p) \/ Arrives(r, [p EXCEPT !.stage = AfterEdit(p)])
  BY DEF PatchOne
<1> DEFINE p == Request("patch", "get", role)
<1>2. CASE Arrives(r, p)
  BY <1>2, ArrivalOf DEF Request
<1>3. CASE Arrives(r, [p EXCEPT !.stage = AfterEdit(p)])
  BY <1>3, ArrivalOf DEF Request, AfterEdit, ChangesRole
<1> QED
  BY <1>1, <1>2, <1>3

LEMMA RegroupOf ==
    ASSUME TypeOK, NEW r \in Requests, NEW groups, NEW member \in BOOLEAN,
           StillToLeave(r, groups, member)
    PROVE  /\ req'[r].stage = IF groups # {} THEN "leave"
                              ELSE IF member THEN "save" ELSE "join"
           /\ req'[r].kind = req[r].kind /\ req'[r].role = req[r].role
           /\ req'[r].seen = req[r].seen
           /\ req'[r].groups = groups /\ req'[r].member = member
BY DEF StillToLeave, TypeOK, ReqTypes

LEMMA GroupsOf ==
    ASSUME TypeOK, NEW r \in Requests, ReadGroups(r) \/ Leave(r)
    PROVE  /\ req'[r].stage \in {"leave", "save", "join"}
           /\ req'[r].kind = req[r].kind /\ req'[r].role = req[r].role
           /\ req'[r].seen = req[r].seen
<1>1. CASE ReadGroups(r)
  <2> DEFINE member == req[r].role \in account.groups
  <2>1. member \in BOOLEAN /\ StillToLeave(r, account.groups \ {req[r].role}, member)
    BY <1>1 DEF ReadGroups
  <2> HIDE DEF member
  <2> QED
    BY <2>1, RegroupOf
<1>2. CASE Leave(r)
  <2>1. req[r].member \in BOOLEAN
    BY RequestFields DEF TypeOK
  <2>2. PICK g \in req[r].groups : StillToLeave(r, req[r].groups \ {g}, req[r].member)
    BY <1>2 DEF Leave
  <2> QED
    BY <2>1, <2>2, RegroupOf
<1> QED
  BY <1>1, <1>2

LEMMA Others ==
    ASSUME TypeOK, NEW r \in Requests, Step(r)
    PROVE  \A x \in Requests \ {r} : req'[x] = req[x]
BY DEF TypeOK, Step, CreateOne, PatchOne, ExecuteAction, DeleteOne, GetManyAsync,
       Arrives, GoesTo, StillToLeave, Post, Lookup, GetRepresentation,
       PutRepresentation, Drop,
       Evict, ReadGroups, Leave, Join, Insert, InsertFails, Save, Remove, Fetch,
       Store, NotFound, Interrupted

-------------------------------------------------------------------------------
(* The cache.                                                              *)

\* Before the account is made there is nothing to find.
Unborn ==
    account.profile = Nothing =>
        /\ ~account.exists /\ row = NoRole /\ cache = Nothing
        /\ \A r \in Requests : req[r].stage \in {"new", "post", "failed"}

\* It is made once.
BornOnce ==
    \A r \in Requests : At(r, "post") =>
        account.profile = Nothing /\ \A x \in Requests : At(x, "post") => x = r

PutsSomething == \A r \in Requests : At(r, "put") => req[r].profile # Nothing

LifeInv == Unborn /\ BornOnce /\ PutsSomething

LEMMA InitLife == Init => LifeInv
<1> SUFFICES ASSUME Init PROVE LifeInv
  OBVIOUS
<1>1. \A r \in Requests : req[r].stage = "new"
  BY DEF Init, Blank
<1>2. account.profile = Nothing => ~account.exists /\ row = NoRole /\ cache = Nothing
  BY DEF Init, Nothing, Initial
<1> QED
  BY <1>1, <1>2 DEF LifeInv, Unborn, BornOnce, PutsSomething, At

LEMMA StepLife == TypeOK /\ Fitting /\ LifeInv /\ [Next]_userVars => LifeInv'
<1> SUFFICES ASSUME TypeOK, Fitting, LifeInv, [Next]_userVars PROVE LifeInv'
  OBVIOUS
<1> USE DEF LifeInv, At
<1>1. CASE UNCHANGED userVars
  BY <1>1 DEF userVars, Unborn, BornOnce, PutsSomething
<1>2. CASE Expire
  BY <1>2 DEF Expire, Unborn, BornOnce, PutsSomething
<1>3. ASSUME NEW r \in Requests, Step(r) PROVE LifeInv'
  <2>0. \A x \in Requests \ {r} : req'[x] = req[x]
    BY <1>3, Others
  <2>a. req[r] \in ReqTypes /\ Fits(req[r])
    BY DEF TypeOK, Fitting
  <2>1. CASE CreateOne(r)
    <3>1. PICK role \in Roles : Arrives(r, Request("create", "post", role))
      BY <2>1 DEF CreateOne
    <3>2. req'[r].stage = "post" /\ \A x \in Requests : req[x].stage # "post"
      BY <2>1, <3>1, ArrivalOf DEF CreateOne, Request, Fitting, Fits
    <3> QED
      BY <2>0, <2>1, <3>1, <3>2
      DEF CreateOne, Arrives, Unborn, BornOnce, PutsSomething
  <2>2. CASE PatchOne(r) \/ ExecuteAction(r) \/ DeleteOne(r) \/ GetManyAsync(r)
    <3>1. /\ account.profile # Nothing
          /\ UNCHANGED <<account, row, cache>>
      BY <2>2 DEF PatchOne, ExecuteAction, DeleteOne, GetManyAsync, Arrives, Unborn
    <3>2. req'[r].stage \notin {"post", "put"}
      BY <2>2, ArrivalOf, PatchOf DEF ExecuteAction, DeleteOne, GetManyAsync, Request
    <3> QED
      BY <2>0, <3>1, <3>2 DEF Unborn, BornOnce, PutsSomething
  <2>3. CASE Post(r)
    <3>1. req'[r].stage = "lookup" /\ account'.profile = r /\ r # Nothing
      BY <2>3, MoveOf, UserAssumption DEF Post, Stages
    <3>2. \A x \in Requests :
             req[x].stage # "put" /\ (x # r => req[x].stage # "post")
      BY <2>3 DEF Post, Unborn, BornOnce
    <3> QED
      BY <2>0, <3>1, <3>2 DEF Unborn, BornOnce, PutsSomething
  <2>4. CASE GetRepresentation(r)
    <3>1. /\ req'[r].profile = account.profile /\ req'[r].stage \in {"done", "put"}
          /\ account.profile # Nothing /\ UNCHANGED <<account, row, cache>>
      BY <2>4, <2>a DEF GetRepresentation, TypeOK, ReqTypes, Unborn
    <3> QED
      BY <2>0, <3>1 DEF Unborn, BornOnce, PutsSomething
  <2>5. CASE PutRepresentation(r)
    <3>1. req'[r].stage = "evict" /\ account.profile # Nothing
      BY <2>5, MoveOf DEF PutRepresentation, Stages, Unborn
    <3>2. r # Nothing /\ req[r].profile # Nothing
      BY <2>5, UserAssumption DEF PutRepresentation, PutsSomething
    <3>3. account'.profile \in {r, req[r].profile}
      BY <2>5 DEF PutRepresentation, TypeOK, Accounts
    <3> QED
      BY <2>0, <3>1, <3>2, <3>3 DEF Unborn, BornOnce, PutsSomething
  <2>6. CASE NotFound(r) \/ Interrupted(r)
    <3>1. req'[r].stage = "failed" /\ UNCHANGED <<account, row, cache>>
      BY <2>6, MoveOf DEF NotFound, Interrupted, Stages
    <3> QED
      BY <2>0, <3>1 DEF Unborn, BornOnce, PutsSomething
  <2>7. CASE \/ Lookup(r) \/ Drop(r) \/ Evict(r) \/ ReadGroups(r) \/ Leave(r) \/ Join(r)
             \/ Insert(r) \/ InsertFails(r) \/ Save(r) \/ Remove(r)
             \/ Fetch(r) \/ Store(r)
    <3>1. account.profile # Nothing
      BY <2>7
      DEF Lookup, Drop, Evict, ReadGroups, Leave, Join, Insert, InsertFails, Save,
          Remove, Fetch, Store, Unborn
    <3>2. account'.profile = account.profile
      BY <2>7
      DEF Lookup, Drop, Evict, ReadGroups, Leave, Join, Insert, InsertFails, Save,
          Remove, Fetch, Store, TypeOK, Accounts
    <3>3. req'[r].stage \notin {"post", "put"}
      <4>1. CASE ReadGroups(r) \/ Leave(r)
        BY <4>1, GroupsOf
      <4>2. CASE Fetch(r)
        BY <4>2 DEF Fetch, TypeOK, ReqTypes
      <4>3. CASE Evict(r)
        BY <4>3, <2>a, NextStages, MoveOf DEF Evict, Stages
      <4>4. CASE \/ Lookup(r) \/ Drop(r) \/ Join(r) \/ Insert(r) \/ InsertFails(r)
                 \/ Save(r) \/ Remove(r) \/ Store(r)
        BY <4>4, MoveOf
        DEF Lookup, Drop, Join, Insert, InsertFails, Save, Remove, Store, Stages
      <4> QED
        BY <2>7, <4>1, <4>2, <4>3, <4>4
    <3> QED
      BY <2>0, <3>1, <3>2, <3>3 DEF Unborn, BornOnce, PutsSomething
  <2> QED
    BY <1>3, <2>1, <2>2, <2>3, <2>4, <2>5, <2>6, <2>7 DEF Step
<1> QED
  BY <1>1, <1>2, <1>3 DEF Next

LEMMA InitCache == Init => CacheIsCurrent
BY DEF Init, CacheIsCurrent

LEMMA StepCache ==
    TypeOK /\ Fitting /\ LifeInv /\ CacheIsCurrent /\ [Next]_userVars => CacheIsCurrent'
<1> SUFFICES ASSUME TypeOK, Fitting, LifeInv, CacheIsCurrent, [Next]_userVars
             PROVE  CacheIsCurrent'
  OBVIOUS
<1> USE DEF At
<1>1. CASE UNCHANGED userVars
  BY <1>1 DEF userVars, CacheIsCurrent
<1>2. CASE Expire
  BY <1>2 DEF Expire, CacheIsCurrent
<1>3. ASSUME NEW r \in Requests, Step(r) PROVE CacheIsCurrent'
  <2>0. \A x \in Requests \ {r} : req'[x] = req[x]
    BY <1>3, Others
  <2>1. CASE CreateOne(r) \/ PatchOne(r) \/ ExecuteAction(r) \/ DeleteOne(r)
             \/ GetManyAsync(r)
    <3>1. UNCHANGED <<account, cache, broken>> /\ req[r].stage # "evict"
      BY <2>1
      DEF CreateOne, PatchOne, ExecuteAction, DeleteOne, GetManyAsync, Arrives
    <3> QED
      BY <2>0, <3>1 DEF CacheIsCurrent
  <2>2. CASE Post(r)
    BY <2>2 DEF Post, LifeInv, Unborn, BornOnce, CacheIsCurrent
  <2>3. CASE PutRepresentation(r) \/ Drop(r)
    <3>1. req'[r].stage = "evict"
      BY <2>3, MoveOf DEF PutRepresentation, Drop, Stages
    <3> QED
      BY <3>1 DEF CacheIsCurrent
  <2>4. CASE Evict(r)
    BY <2>4 DEF Evict, CacheIsCurrent
  <2>5. CASE Interrupted(r)
    <3>1. req[r].stage = "evict" => "cache" \in Undone(req[r])
      BY DEF Undone
    <3> QED
      BY <2>0, <2>5, <3>1 DEF Interrupted, CacheIsCurrent
  <2>6. CASE Join(r) \/ Leave(r)
    <3>1. /\ account'.exists = account.exists /\ account'.profile = account.profile
          /\ UNCHANGED <<cache, broken>> /\ req[r].stage # "evict"
      BY <2>6 DEF Join, Leave, TypeOK, Accounts
    <3> QED
      BY <2>0, <3>1 DEF CacheIsCurrent
  <2>7. CASE Save(r)
    BY <2>0, <2>7 DEF Save, CacheIsCurrent
  <2>8. CASE Store(r)
    BY <2>0, <2>8 DEF Store, CacheIsCurrent
  <2>9. CASE Lookup(r) \/ GetRepresentation(r) \/ ReadGroups(r) \/ Insert(r)
             \/ InsertFails(r) \/ Remove(r) \/ Fetch(r) \/ NotFound(r)
    <3>1. UNCHANGED <<account, cache, broken>> /\ req[r].stage # "evict"
      BY <2>9
      DEF Lookup, GetRepresentation, ReadGroups, Insert, InsertFails, Remove, Fetch,
          NotFound
    <3> QED
      BY <2>0, <3>1 DEF CacheIsCurrent
  <2> QED
    BY <1>3, <2>1, <2>2, <2>3, <2>4, <2>5, <2>6, <2>7, <2>8, <2>9 DEF Step
<1> QED
  BY <1>1, <1>2, <1>3 DEF Next

\* What Redis holds is behind Keycloak only while a write is about to evict it, or
\* after an eviction that failed or a reader that was late.
THEOREM CacheStaysCurrent == Spec => []CacheIsCurrent
<1>1. Spec => [](TypeOK /\ Fitting /\ LifeInv /\ CacheIsCurrent)
  BY InitTyped, StepTyped, InitLife, StepLife, InitCache, StepCache, PTL DEF Spec
<1> QED
  BY <1>1, PTL

-------------------------------------------------------------------------------
(* The account and the row.                                                *)

\* While the account is made, there is no row, and nobody else is at work.
Making ==
    \A r \in Requests : req[r].stage \in {"lookup", "insert", "undo"} =>
        /\ account.exists /\ row = NoRole
        /\ \A x \in Requests \ {r} : req[x].stage \in Ended

\* A request that has deleted the account, and is not through with it.
Unmaking(r) ==
    \/ At(r, "evict") /\ req[r].kind \in {"create", "delete"}
    \/ At(r, "remove")

Unmade ==
    \A r \in Requests : Unmaking(r) =>
        ~account.exists /\ (req[r].kind = "create" => row = NoRole)

Between(r) == req[r].stage \in {"lookup", "insert", "undo"} \/ Unmaking(r)

StepInv ==
    "existence" \notin broken /\ (\A r \in Requests : ~Between(r))
        => (account.exists <=> row # NoRole)

ExistenceInv == Making /\ Unmade /\ StepInv

LEMMA InitExistence == Init => ExistenceInv
<1> SUFFICES ASSUME Init PROVE ExistenceInv
  OBVIOUS
<1>1. \A r \in Requests : req[r].stage = "new"
  BY DEF Init, Blank
<1>2. account.exists <=> row # NoRole
  BY DEF Init
<1> QED
  BY <1>1, <1>2 DEF ExistenceInv, Making, Unmade, Unmaking, StepInv, At

LEMMA StepExistence ==
    TypeOK /\ Fitting /\ LifeInv /\ ExistenceInv /\ [Next]_userVars => ExistenceInv'
<1> SUFFICES ASSUME TypeOK, Fitting, LifeInv, ExistenceInv, [Next]_userVars
             PROVE  ExistenceInv'
  OBVIOUS
<1> USE DEF ExistenceInv, At, Between, Unmaking
<1>1. CASE UNCHANGED userVars
  BY <1>1 DEF userVars, Making, Unmade, StepInv
<1>2. CASE Expire
  BY <1>2 DEF Expire, Making, Unmade, StepInv
<1>3. ASSUME NEW r \in Requests, Step(r) PROVE ExistenceInv'
  <2>0. \A x \in Requests \ {r} : req'[x] = req[x]
    BY <1>3, Others
  <2>a. req[r] \in ReqTypes /\ Fits(req[r])
    BY DEF TypeOK, Fitting
  <2>1. CASE CreateOne(r) \/ PatchOne(r) \/ ExecuteAction(r) \/ DeleteOne(r)
             \/ GetManyAsync(r)
    <3>1. UNCHANGED <<account, row, broken>> /\ req[r].stage = "new"
      BY <2>1
      DEF CreateOne, PatchOne, ExecuteAction, DeleteOne, GetManyAsync, Arrives
    <3>2. req'[r].stage \in {"post", "get", "groups", "save", "drop", "fetch", "done"}
      <4>1. CASE CreateOne(r)
        BY <4>1, ArrivalOf DEF CreateOne, Request
      <4>2. CASE ExecuteAction(r) \/ DeleteOne(r) \/ GetManyAsync(r)
        BY <4>2, ArrivalOf DEF ExecuteAction, DeleteOne, GetManyAsync, Request
      <4>3. CASE PatchOne(r)
        BY <4>3, PatchOf
      <4> QED
        BY <2>1, <4>1, <4>2, <4>3
    <3>3. \A x \in Requests : req[x].stage \notin {"lookup", "insert", "undo"}
      BY <2>1
      DEF CreateOne, PatchOne, ExecuteAction, DeleteOne, GetManyAsync, LifeInv, Unborn,
          Making
    <3> QED
      BY <2>0, <3>1, <3>2, <3>3 DEF Making, Unmade, StepInv
  <2>2. CASE Post(r)
    <3>1. /\ row = NoRole /\ row' = row /\ account'.exists
          /\ \A x \in Requests \ {r} : req[x].stage \in {"new", "failed"}
      BY <2>2 DEF Post, LifeInv, Unborn, BornOnce
    <3>2. req'[r].stage = "lookup"
      BY <2>2, MoveOf DEF Post, Stages
    <3> QED
      BY <2>0, <3>1, <3>2 DEF Making, Unmade, StepInv, Ended
  <2>3. CASE Lookup(r) \/ InsertFails(r)
    <3>1. req'[r].stage \in {"insert", "undo"} /\ req[r].stage \in {"lookup", "insert"}
      BY <2>3, MoveOf DEF Lookup, InsertFails, Stages
    <3>2. UNCHANGED <<account, row, broken>>
      BY <2>3 DEF Lookup, InsertFails
    <3>3. /\ account.exists /\ row = NoRole
          /\ \A x \in Requests \ {r} : req'[x].stage \in Ended
      BY <2>0, <3>1 DEF Making
    <3> QED
      BY <3>1, <3>2, <3>3 DEF Making, Unmade, StepInv, Ended
  <2>4. CASE Drop(r)
    <3>1. /\ req'[r].stage = "evict" /\ req'[r].kind = req[r].kind
          /\ ~account'.exists /\ account.exists /\ row' = row
      BY <2>4, MoveOf DEF Drop, Stages, TypeOK, Accounts
    <3>2. /\ req[r].stage = "undo" => row = NoRole
          /\ req[r].stage = "drop" => req[r].kind = "delete"
          /\ \A x \in Requests \ {r} : req[x].stage \notin {"lookup", "insert", "undo"}
      BY <2>4, <2>a DEF Drop, Making, Fits, Ended
    <3>3. req[r].kind \in {"create", "delete"}
      BY <2>4, <2>a DEF Drop, Fits
    <3> QED
      BY <2>0, <2>4, <3>1, <3>2, <3>3 DEF Making, Unmade, StepInv, Drop
  <2>5. CASE Evict(r)
    <3>1. /\ req'[r].stage = AfterEvict(req[r]) /\ req'[r].kind = req[r].kind
          /\ UNCHANGED <<account, row>>
          /\ "existence" \in broken <=> "existence" \in broken'
      BY <2>5, <2>a, NextStages, MoveOf DEF Evict, Stages
    <3>2. /\ req[r].kind = "delete" <=> req'[r].stage = "remove"
          /\ req'[r].stage \in {"groups", "save", "remove", "failed", "done"}
      BY <2>a, <3>1, NextStages DEF AfterEvict, AfterEdit
    <3> QED
      BY <2>0, <2>5, <3>1, <3>2 DEF Evict, Making, Unmade, StepInv, Ended
  <2>6. CASE Insert(r)
    <3>1. req'[r].stage = "done" /\ req[r].stage = "insert" /\ req[r].role # NoRole
      BY <2>6, <2>a, MoveOf DEF Insert, Stages, Fits
    <3>2. account.exists /\ UNCHANGED <<account, broken>> /\ row' = req[r].role
      BY <2>6 DEF Insert, Making
    <3>3. \A x \in Requests \ {r} : req[x].stage \in Ended
      BY <3>1 DEF Making
    <3> QED
      BY <2>0, <3>1, <3>2, <3>3 DEF Making, Unmade, StepInv, Ended
  <2>7. CASE Save(r)
    <3>1. /\ req'[r].stage = "done" /\ req[r].stage = "save"
          /\ row # NoRole /\ row' # NoRole /\ account' = account
          /\ "existence" \in broken <=> "existence" \in broken'
      BY <2>7, <2>a, MoveOf DEF Save, Stages, Fits, ChangesRole
    <3> QED
      BY <2>0, <3>1 DEF Making, Unmade, StepInv
  <2>8. CASE Remove(r)
    <3>1. /\ req'[r].stage = "done" /\ req[r].stage = "remove"
          /\ row' = NoRole /\ ~account.exists /\ UNCHANGED <<account, broken>>
      BY <2>8, MoveOf DEF Remove, Stages, Unmade
    <3> QED
      BY <2>0, <3>1 DEF Making, Unmade, StepInv
  <2>9. CASE Interrupted(r)
    <3>1. /\ req'[r].stage = "failed" /\ UNCHANGED <<account, row>>
          /\ broken' = broken \cup Undone(req[r])
      BY <2>9, MoveOf DEF Interrupted, Stages
    <3>2. Between(r) /\ ~(At(r, "evict") /\ req[r].kind = "create")
             => "existence" \in Undone(req[r])
      <4>1. req[r].stage \in {"lookup", "insert", "undo", "remove"}
               => "existence" \in Undone(req[r])
        BY DEF Undone
      <4>2. req[r].stage = "evict" /\ req[r].kind = "delete"
               => "existence" \in Undone(req[r])
        BY DEF Undone
      <4> QED
        BY <4>1, <4>2
    <3>3. At(r, "evict") /\ req[r].kind = "create" => ~account.exists /\ row = NoRole
      BY DEF Unmade
    <3> QED
      BY <2>0, <3>1, <3>2, <3>3 DEF Making, Unmade, StepInv, Ended
  <2>10. CASE NotFound(r)
    <3>1. /\ req'[r].stage = "failed" /\ UNCHANGED <<account, row, broken>>
          /\ Between(r) => ~account.exists /\ row = NoRole
      BY <2>10, MoveOf DEF NotFound, Stages, Making, Unmade
    <3> QED
      BY <2>0, <3>1 DEF Making, Unmade, StepInv, Ended
  <2>11. CASE GetRepresentation(r) \/ PutRepresentation(r) \/ ReadGroups(r) \/ Leave(r)
              \/ Join(r) \/ Fetch(r) \/ Store(r)
    <3>1. /\ account'.exists = account.exists /\ row' = row
          /\ "existence" \in broken <=> "existence" \in broken'
      BY <2>11
      DEF GetRepresentation, PutRepresentation, ReadGroups, Leave, Join, Fetch, Store,
          TypeOK, Accounts
    <3>2. /\ req[r].stage \notin Ended /\ ~Between(r)
          /\ req[r].kind \in {"patch", "mfa", "read"}
      BY <2>11, <2>a
      DEF GetRepresentation, PutRepresentation, ReadGroups, Leave, Join, Fetch, Store,
          Ended, Fits
    <3>3. /\ req'[r].kind = req[r].kind
          /\ req'[r].stage \in {"done", "put", "evict", "leave", "join", "save", "store"}
      <4>1. CASE ReadGroups(r) \/ Leave(r)
        BY <4>1, GroupsOf
      <4>2. CASE GetRepresentation(r) \/ Fetch(r)
        BY <4>2 DEF GetRepresentation, Fetch, TypeOK, ReqTypes
      <4>3. CASE PutRepresentation(r) \/ Join(r) \/ Store(r)
        BY <4>3, MoveOf DEF PutRepresentation, Join, Store, Stages
      <4> QED
        BY <2>11, <4>1, <4>2, <4>3
    <3> QED
      BY <2>0, <3>1, <3>2, <3>3 DEF Making, Unmade, StepInv
  <2> QED
    BY <1>3, <2>1, <2>2, <2>3, <2>4, <2>5, <2>6, <2>7, <2>8, <2>9, <2>10, <2>11 DEF Step
<1> QED
  BY <1>1, <1>2, <1>3 DEF Next

LEMMA ExistenceAtRest == Fitting /\ ExistenceInv => InStep
<1> SUFFICES ASSUME Fitting, ExistenceInv, AtRest, "existence" \notin broken
             PROVE  account.exists <=> row # NoRole
  BY DEF InStep
<1>1. \A r \in Requests : ~Between(r)
  BY DEF AtRest, Writing, Between, Unmaking, At, Ended, Fitting, Fits
<1> QED
  BY <1>1 DEF ExistenceInv, StepInv

\* However requests overlap, the account and the row exist together.
THEOREM StayInStep == Spec => []InStep
<1>1. Spec => [](TypeOK /\ Fitting /\ LifeInv /\ ExistenceInv)
  BY InitTyped, StepTyped, InitLife, StepLife, InitExistence, StepExistence, PTL DEF Spec
<1> QED
  BY <1>1, ExistenceAtRest, PTL

-------------------------------------------------------------------------------
(* Requests that do not overlap.                                           *)

Alone ==
    ~collided => \A r, x \in Requests : Writing(r) /\ Writing(x) => r = x

\* What a write puts back is what is there.
PutsBack ==
    ~collided => \A r \in Requests : At(r, "put") =>
        req[r].profile = account.profile /\ req[r].mfa = account.mfa

PromiseInv == Alone /\ PutsBack /\ KeepsPromises

LEMMA ArrivalNew ==
    ASSUME NEW r \in Requests, Step(r), At(r, "new")
    PROVE  \E q : Arrives(r, q)
BY DEF Step, CreateOne, PatchOne, ExecuteAction, DeleteOne, GetManyAsync, At,
       Post, Lookup, GetRepresentation, PutRepresentation, Drop,
       Evict, ReadGroups, Leave, Join, Insert, InsertFails, Save, Remove, Fetch,
       Store, NotFound, Interrupted, Writing, Ended

\* A step of a request that has arrived.
LEMMA ArrivedKeeps ==
    ASSUME TypeOK, NEW r \in Requests, Step(r), ~At(r, "new")
    PROVE  /\ req[r].stage \notin Ended /\ collided' = collided
           /\ req'[r].kind = req[r].kind /\ req'[r].role = req[r].role
           /\ req'[r].seen = req[r].seen
<1>1. CASE ReadGroups(r) \/ Leave(r)
  BY <1>1, GroupsOf DEF ReadGroups, Leave, At, Ended
<1>2. CASE GetRepresentation(r) \/ Fetch(r)
  BY <1>2 DEF GetRepresentation, Fetch, At, Ended, TypeOK, ReqTypes
<1>3. CASE \/ Post(r) \/ Lookup(r) \/ PutRepresentation(r) \/ Drop(r) \/ Evict(r) \/ Join(r)
           \/ Insert(r) \/ InsertFails(r) \/ Save(r) \/ Remove(r) \/ Store(r)
           \/ NotFound(r) \/ Interrupted(r)
  <2>1. /\ req[r].stage \notin Ended /\ collided' = collided
        /\ \E stage \in Stages : GoesTo(r, stage)
    <3>1. CASE Evict(r)
      BY <3>1, NextStages DEF Evict, At, Ended, Stages, TypeOK
    <3>2. CASE \/ Post(r) \/ Lookup(r) \/ PutRepresentation(r) \/ Drop(r) \/ Join(r)
               \/ Insert(r) \/ InsertFails(r) \/ Save(r) \/ Remove(r) \/ Store(r)
               \/ NotFound(r) \/ Interrupted(r)
      BY <3>2
      DEF Post, Lookup, PutRepresentation, Drop, Join, Insert, InsertFails, Save,
          Remove, Store, NotFound, Interrupted, Writing, At, Ended, Stages
    <3> QED
      BY <1>3, <3>1, <3>2
  <2> QED
    BY <2>1, MoveOf
<1>4. ~(CreateOne(r) \/ PatchOne(r) \/ ExecuteAction(r) \/ DeleteOne(r) \/ GetManyAsync(r))
  BY DEF CreateOne, PatchOne, ExecuteAction, DeleteOne, GetManyAsync, Arrives, At
<1> QED
  BY <1>1, <1>2, <1>3, <1>4 DEF Step

\* Only writes change what is written.
LEMMA OthersOnlyRead ==
    ASSUME Fitting, NEW r \in Requests, Step(r), ~Writing(r)
    PROVE  UNCHANGED <<account, row, promised>>
           /\ (broken' = broken \/ broken' = broken \cup {"cache"}
                                \/ broken' = broken \ {"cache"})
<1>1. Fits(req[r])
  BY DEF Fitting
<1> QED
  BY <1>1
  DEF Step, CreateOne, PatchOne, ExecuteAction, DeleteOne, GetManyAsync, Arrives, At,
      Post, Lookup, GetRepresentation, PutRepresentation, Drop,
      Evict, ReadGroups, Leave, Join, Insert, InsertFails, Save, Remove, Fetch,
      Store, NotFound, Interrupted, Writing, Ended, Fits

LEMMA InitPromise == Init => PromiseInv
<1> SUFFICES ASSUME Init PROVE PromiseInv
  OBVIOUS
<1>1. \A r \in Requests : req[r].stage = "new"
  BY DEF Init, Blank
<1> QED
  BY <1>1 DEF Init, PromiseInv, Alone, PutsBack, KeepsPromises, Writing, Ended, At

LEMMA StepAlone ==
    ASSUME TypeOK, Fitting, Alone, NEW r \in Requests, Step(r)
    PROVE  /\ Alone'
           /\ ~collided' => ~collided
<1>0. \A x \in Requests \ {r} : req'[x] = req[x]
  BY Others
<1>1. CASE At(r, "new")
  <2>1. PICK q : Arrives(r, q)
    BY <1>1, ArrivalNew
  <2>2. /\ req'[r] = q
        /\ ~collided' => ~collided /\ (q.kind = "read" \/ \A x \in Requests : ~Writing(x))
    BY <2>1, ArrivalOf DEF Arrives
  <2> QED
    BY <1>0, <2>2 DEF Alone, Writing
<1>2. CASE ~At(r, "new")
  <2>1. /\ Writing(r)' => Writing(r)
        /\ collided' = collided
    BY <1>2, ArrivedKeeps DEF Writing
  <2> QED
    BY <1>0, <2>1 DEF Alone, Writing
<1> QED
  BY <1>1, <1>2

LEMMA StepPromise ==
    TypeOK /\ Fitting /\ LifeInv /\ PromiseInv /\ [Next]_userVars => PromiseInv'
<1> SUFFICES ASSUME TypeOK, Fitting, LifeInv, PromiseInv, [Next]_userVars
             PROVE  PromiseInv'
  OBVIOUS
<1> USE DEF PromiseInv
<1>1. CASE UNCHANGED userVars
  BY <1>1 DEF userVars, Alone, PutsBack, KeepsPromises, Writing, At
<1>2. CASE Expire
  BY <1>2 DEF Expire, Alone, PutsBack, KeepsPromises, Writing, At
<1>3. ASSUME NEW r \in Requests, Step(r) PROVE PromiseInv'
  <2>0. \A x \in Requests \ {r} : req'[x] = req[x]
    BY <1>3, Others
  <2>a. req[r] \in ReqTypes /\ Fits(req[r])
    BY DEF TypeOK, Fitting
  <2>1. Alone' /\ (~collided' => ~collided)
    BY <1>3, StepAlone
  <2>2. \A x \in Requests : At(x, "put") => Writing(x)
    BY DEF Fitting, Fits, Writing, At, Ended
  <2>3. ASSUME NEW x \in Requests \ {r}, ~collided', At(x, "put")'
        PROVE  req'[x].profile = account'.profile /\ req'[x].mfa = account'.mfa
    <3>1. At(x, "put") /\ ~Writing(r)
      BY <2>0, <2>1, <2>2, <2>3 DEF Alone, At
    <3> QED
      BY <1>3, <2>0, <2>1, <2>3, <3>1, OthersOnlyRead DEF PutsBack
  <2>4. ASSUME ~collided', At(r, "put")'
        PROVE  req'[r].profile = account'.profile /\ req'[r].mfa = account'.mfa
    <3>1. GetRepresentation(r)
      <4>1. ~(ReadGroups(r) \/ Leave(r))
        BY <2>4, GroupsOf DEF At
      <4>2. ~PatchOne(r)
        BY <2>4, PatchOf DEF At
      <4>3. ~(CreateOne(r) \/ ExecuteAction(r) \/ DeleteOne(r) \/ GetManyAsync(r))
        <5>1. CASE ExecuteAction(r)
          <6>1. req'[r] = Request("mfa", "get", NoRole)
            BY <5>1, ArrivalOf DEF ExecuteAction
          <6> QED
            BY <2>4, <6>1 DEF Request, At
        <5>2. CASE CreateOne(r)
          <6>1. PICK role \in Roles : req'[r] = Request("create", "post", role)
            BY <5>2, ArrivalOf DEF CreateOne
          <6> QED
            BY <2>4, <6>1 DEF Request, At
        <5>3. CASE DeleteOne(r) \/ GetManyAsync(r)
          BY <2>4, <5>3, ArrivalOf DEF DeleteOne, GetManyAsync, Request, At
        <5> QED
          BY <5>1, <5>2, <5>3
      <4>4. ~Fetch(r)
        BY <2>4, <2>a DEF Fetch, At, TypeOK, ReqTypes
      <4>5. ~Evict(r)
        BY <2>4, <2>a, NextStages, MoveOf DEF Evict, At, Stages
      <4>6. ~(\/ Post(r) \/ Lookup(r) \/ PutRepresentation(r) \/ Drop(r) \/ Join(r)
              \/ Insert(r) \/ InsertFails(r) \/ Save(r) \/ Remove(r) \/ Store(r)
              \/ NotFound(r) \/ Interrupted(r))
        BY <2>4, MoveOf
        DEF Post, Lookup, PutRepresentation, Drop, Join, Insert, InsertFails, Save,
            Remove, Store, NotFound, Interrupted, At, Stages
      <4> QED
        BY <1>3, <4>1, <4>2, <4>3, <4>4, <4>5, <4>6 DEF Step
    <3> QED
      BY <2>a, <3>1 DEF GetRepresentation, TypeOK, ReqTypes
  <2>5. KeepsPromises'
    <3>1. CASE Post(r)
      BY <3>1 DEF Post, KeepsPromises
    <3>2. CASE PutRepresentation(r)
      <4>1. req[r].mfa \in BOOLEAN
        BY <2>a, RequestFields
      <4>2. ~collided => req[r].profile = account.profile /\ req[r].mfa = account.mfa
        BY <3>2 DEF PutRepresentation, PutsBack
      <4> QED
        BY <2>1, <3>2, <4>1, <4>2 DEF PutRepresentation, KeepsPromises, TypeOK, Accounts
    <3>3. CASE Drop(r)
      BY <3>3 DEF Drop, KeepsPromises, TypeOK, Accounts
    <3>4. CASE Leave(r) \/ Join(r)
      BY <2>1, <3>4 DEF Leave, Join, KeepsPromises, TypeOK, Accounts
    <3>5. CASE UNCHANGED <<account, promised>>
      BY <2>1, <3>5 DEF KeepsPromises
    <3> QED
      BY <1>3, <3>1, <3>2, <3>3, <3>4, <3>5
      DEF Step, CreateOne, PatchOne, ExecuteAction, DeleteOne, GetManyAsync, Arrives,
          Lookup, GetRepresentation, Evict, ReadGroups, Insert, InsertFails, Save,
          Remove, Fetch, Store, NotFound, Interrupted
  <2> QED
    BY <2>1, <2>3, <2>4, <2>5 DEF PutsBack
<1> QED
  BY <1>1, <1>2, <1>3 DEF Next

\* Requests that do not overlap take back nothing that another one wrote.
THEOREM PromisesKept == Spec => []KeepsPromises
<1>1. Spec => [](TypeOK /\ Fitting /\ LifeInv /\ PromiseInv)
  BY InitTyped, StepTyped, InitLife, StepLife, InitPromise, StepPromise, PTL DEF Spec
<1>2. PromiseInv => KeepsPromises
  BY DEF PromiseInv
<1> QED
  BY <1>1, <1>2, PTL

-------------------------------------------------------------------------------
(* The role and its group.                                                *)

SeesRow ==
    ~collided => \A r \in Requests : Writing(r) /\ req[r].kind = "patch" =>
        req[r].seen = row

\* How far the role groups have been changed.
GroupsFit(q) ==
    /\ q.stage \in {"lookup", "insert"} => account.groups = {q.role}
    /\ q.stage = "leave" =>
           /\ q.groups = account.groups \ {q.role}
           /\ q.member <=> q.role \in account.groups
    /\ q.stage = "join" => account.groups = {}
    /\ q.stage = "save" /\ ChangesRole(q) => account.groups = {q.role}

GroupsInv == ~collided => \A r \in Requests : GroupsFit(req[r])

Regrouping(r) == At(r, "join") \/ (At(r, "save") /\ ChangesRole(req[r]))

MirrorInv ==
    /\ ~collided /\ {"role", "existence"} \cap broken = {} /\ row # NoRole
    /\ \A r \in Requests : ~Between(r) /\ ~Regrouping(r)
    => account.groups = {row}

RoleInv == SeesRow /\ GroupsInv /\ MirrorInv

LEMMA InitRole == Init => RoleInv
<1> SUFFICES ASSUME Init PROVE RoleInv
  OBVIOUS
<1>1. \A r \in Requests : req[r].stage = "new"
  BY DEF Init, Blank
<1>2. row # NoRole => account.groups = {row}
  BY DEF Init
<1> QED
  BY <1>1, <1>2
  DEF RoleInv, SeesRow, GroupsInv, GroupsFit, MirrorInv, Writing, Ended

LEMMA StepSeesRow ==
    ASSUME TypeOK, Fitting, Alone, SeesRow, NEW r \in Requests, Step(r)
    PROVE  SeesRow'
<1> SUFFICES ASSUME ~collided', NEW x \in Requests, Writing(x)', req'[x].kind = "patch"
             PROVE  req'[x].seen = row'
  BY DEF SeesRow
<1>0. \A y \in Requests \ {r} : req'[y] = req[y]
  BY Others
<1>1. ~collided
  BY StepAlone
<1>2. CASE x # r
  <2>1. Writing(x) /\ ~Writing(r)
    BY <1>0, <1>1, <1>2 DEF Alone, Writing
  <2> QED
    BY <1>0, <1>1, <1>2, <2>1, OthersOnlyRead DEF SeesRow
<1>3. CASE x = r /\ At(r, "new")
  <2>1. ~Writing(r)
    BY <1>3 DEF Writing, At, Ended
  <2>2. row' = row
    BY <2>1, OthersOnlyRead
  <2>3. CASE PatchOne(r)
    BY <1>3, <2>2, <2>3, PatchOf
  <2>4. CASE CreateOne(r)
    <3>1. PICK role \in Roles : req'[r] = Request("create", "post", role)
      BY <2>4, ArrivalOf DEF CreateOne
    <3> QED
      BY <1>3, <3>1 DEF Request
  <2>5. CASE ExecuteAction(r) \/ DeleteOne(r) \/ GetManyAsync(r)
    <3>1. \E kind \in {"mfa", "delete", "read"} : \E stage :
             req'[r] = Request(kind, stage, NoRole)
      BY <2>5, ArrivalOf DEF ExecuteAction, DeleteOne, GetManyAsync
    <3> QED
      BY <1>3, <3>1 DEF Request
  <2>6. CASE ~(CreateOne(r) \/ PatchOne(r) \/ ExecuteAction(r) \/ DeleteOne(r)
               \/ GetManyAsync(r))
    BY <1>3, <2>6
    DEF Step, At, Post, Lookup, GetRepresentation, PutRepresentation, Drop, Evict,
        ReadGroups, Leave, Join, Insert, InsertFails, Save, Remove, Fetch, Store,
        NotFound, Interrupted, Writing, Ended
  <2> QED
    BY <2>3, <2>4, <2>5, <2>6
<1>4. CASE x = r /\ ~At(r, "new")
  <2>1. /\ req'[r].seen = req[r].seen /\ req[r].kind = "patch" /\ Writing(r)
        /\ req[r].seen = row
    BY <1>1, <1>4, ArrivedKeeps DEF SeesRow, Writing
  <2>2. CASE Save(r)
    <3>1. req'[r].stage = "done"
      BY <2>2, MoveOf DEF Save, Stages
    <3> QED
      BY <1>4, <3>1 DEF Writing, Ended
  <2>3. ~Insert(r) /\ ~Remove(r)
    BY <2>1 DEF Insert, Remove, At, Fitting, Fits
  <2>4. CASE ~Save(r)
    BY <1>4, <2>1, <2>3, <2>4
    DEF Step, CreateOne, PatchOne, ExecuteAction, DeleteOne, GetManyAsync, Arrives, Post,
        Lookup, GetRepresentation, PutRepresentation, Drop, Evict, ReadGroups, Leave,
        Join, InsertFails, Fetch, Store, NotFound, Interrupted
  <2> QED
    BY <2>2, <2>4
<1> QED
  BY <1>2, <1>3, <1>4

\* How a request goes on when the role groups it has left or found are these.
LEMMA RegroupFits ==
    ASSUME TypeOK, NEW r \in Requests, NEW groups, NEW member \in BOOLEAN,
           StillToLeave(r, groups, member),
           groups = account'.groups \ {req[r].role},
           member <=> req[r].role \in account'.groups
    PROVE  GroupsFit(req[r])'
<1>1. /\ req'[r].stage = IF groups # {} THEN "leave" ELSE IF member THEN "save" ELSE "join"
      /\ req'[r].role = req[r].role
      /\ req'[r].groups = groups /\ req'[r].member = member
  BY RegroupOf
<1> QED
  BY <1>1 DEF GroupsFit

LEMMA StepGroups ==
    ASSUME TypeOK, Fitting, LifeInv, Alone, GroupsInv, NEW r \in Requests, Step(r)
    PROVE  GroupsInv'
<1> SUFFICES ASSUME ~collided', NEW x \in Requests PROVE GroupsFit(req[x])'
  BY DEF GroupsInv
<1>0. \A y \in Requests \ {r} : req'[y] = req[y]
  BY Others
<1>1. ~collided
  BY StepAlone
<1>a. /\ req[r] \in ReqTypes /\ Fits(req[r]) /\ GroupsFit(req[r])
      /\ account.groups \subseteq Roles
  BY <1>1, AccountFields DEF TypeOK, Fitting, GroupsInv
<1>2. CASE x # r
  <2>1. req[x].stage \in {"lookup", "insert", "leave", "join", "save"} => Writing(x)
    BY DEF Fitting, Fits, Writing, Ended
  <2>2. req[x].stage \in {"lookup", "insert", "leave", "join", "save"} => account' = account
    BY <1>1, <1>2, <2>1, OthersOnlyRead DEF Alone
  <2>3. GroupsFit(req[x])
    BY <1>1 DEF GroupsInv
  <2> QED
    BY <1>0, <1>2, <2>2, <2>3 DEF GroupsFit
<1>3. CASE x = r
  <2>1. CASE Post(r)
    BY <1>3, <2>1, MoveOf DEF Post, Stages, GroupsFit, TypeOK
  <2>2. CASE Lookup(r)
    BY <1>3, <1>a, <2>2, MoveOf DEF Lookup, At, Stages, GroupsFit
  <2>3. CASE ReadGroups(r)
    <3> DEFINE member == req[r].role \in account.groups
    <3>1. /\ member \in BOOLEAN
          /\ StillToLeave(r, account.groups \ {req[r].role}, member)
          /\ account' = account
      BY <2>3 DEF ReadGroups
    <3>2. member <=> req[r].role \in account'.groups
      BY <3>1
    <3> HIDE DEF member
    <3> QED
      BY <1>3, <3>1, <3>2, RegroupFits
  <2>4. CASE Leave(r)
    <3>1. PICK g \in req[r].groups :
             /\ account' = [account EXCEPT !.groups = @ \ {g}]
             /\ StillToLeave(r, req[r].groups \ {g}, req[r].member)
      BY <2>4 DEF Leave
    <3>2. /\ req[r].groups = account.groups \ {req[r].role}
          /\ req[r].member <=> req[r].role \in account.groups
      BY <1>a, <2>4 DEF Leave, At, GroupsFit
    <3>3. account'.groups = account.groups \ {g}
      BY <3>1 DEF TypeOK, Accounts
    <3>4. /\ req[r].groups \ {g} = account'.groups \ {req[r].role}
          /\ req[r].member <=> req[r].role \in account'.groups
      BY <3>2, <3>3
    <3>5. req[r].member \in BOOLEAN
      BY <1>a, RequestFields
    <3> QED
      BY <1>3, <3>1, <3>4, <3>5, RegroupFits
  <2>5. CASE Join(r)
    <3>1. /\ req'[r].stage = "save" /\ req'[r].role = req[r].role
          /\ account'.groups = {req[r].role}
      BY <1>a, <2>5, MoveOf DEF Join, At, Stages, GroupsFit, TypeOK, Accounts
    <3> QED
      BY <1>3, <3>1 DEF GroupsFit
  <2>6. CASE Evict(r)
    <3>1. /\ req'[r].stage = AfterEvict(req[r])
          /\ req'[r].role = req[r].role /\ req'[r].seen = req[r].seen
      BY <1>a, <2>6, NextStages, MoveOf DEF Evict, Stages
    <3>2. /\ req'[r].stage \in {"groups", "save", "remove", "failed", "done"}
          /\ req'[r].stage = "save" => ~ChangesRole(req[r])
      BY <1>a, <3>1, NextStages DEF AfterEvict, AfterEdit
    <3> QED
      BY <1>3, <3>1, <3>2 DEF GroupsFit, ChangesRole
  <2>7. CASE PatchOne(r)
    BY <1>3, <2>7, PatchOf DEF GroupsFit
  <2>8. CASE CreateOne(r)
    <3>1. PICK role \in Roles : req'[r] = Request("create", "post", role)
      BY <2>8, ArrivalOf DEF CreateOne
    <3> QED
      BY <1>3, <3>1 DEF Request, GroupsFit
  <2>9. CASE ExecuteAction(r) \/ DeleteOne(r) \/ GetManyAsync(r)
    <3>1. req'[r].stage \in {"get", "drop", "done", "fetch"}
      BY <2>9, ArrivalOf DEF ExecuteAction, DeleteOne, GetManyAsync, Request
    <3> QED
      BY <1>3, <3>1 DEF GroupsFit
  <2>10. CASE GetRepresentation(r) \/ Fetch(r)
    <3>1. req'[r].stage \in {"put", "done", "store"}
      BY <1>a, <2>10 DEF GetRepresentation, Fetch, TypeOK, ReqTypes
    <3> QED
      BY <1>3, <3>1 DEF GroupsFit
  <2>11. CASE PutRepresentation(r) \/ Drop(r) \/ Insert(r) \/ InsertFails(r) \/ Save(r)
              \/ Remove(r) \/ Store(r) \/ NotFound(r) \/ Interrupted(r)
    <3>1. req'[r].stage \in {"evict", "done", "undo", "failed"}
      BY <2>11, MoveOf
      DEF PutRepresentation, Drop, Insert, InsertFails, Save, Remove, Store, NotFound,
          Interrupted, Stages
    <3> QED
      BY <1>3, <3>1 DEF GroupsFit
  <2> QED
    BY <2>1, <2>2, <2>3, <2>4, <2>5, <2>6, <2>7, <2>8, <2>9, <2>10, <2>11 DEF Step
<1> QED
  BY <1>2, <1>3

LEMMA StepMirror ==
    ASSUME TypeOK, Fitting, LifeInv, ExistenceInv, Alone, RoleInv,
           NEW r \in Requests, Step(r)
    PROVE  MirrorInv'
<1> USE DEF RoleInv
<1> SUFFICES ASSUME ~collided', "role" \notin broken', "existence" \notin broken',
                    row' # NoRole,
                    \A x \in Requests : ~Between(x)' /\ ~Regrouping(x)'
             PROVE  account'.groups = {row'}
  BY DEF MirrorInv
<1>0. \A x \in Requests \ {r} : req'[x] = req[x]
  BY Others
<1>1. ~collided
  BY StepAlone
<1>a. /\ req[r] \in ReqTypes /\ Fits(req[r]) /\ GroupsFit(req[r])
      /\ account.groups \subseteq Roles
  BY <1>1, AccountFields DEF TypeOK, Fitting, GroupsInv
<1>b. \A x \in Requests \ {r} : ~Between(x) /\ ~Regrouping(x)
  BY <1>0 DEF Between, Unmaking, Regrouping, At
\* When r is not amid a change either, the role was mirrored before the step.
<1>c. ASSUME ~Between(r), ~Regrouping(r), row # NoRole,
             "role" \notin broken, "existence" \notin broken
      PROVE  account.groups = {row}
  BY <1>1, <1>b, <1>c DEF MirrorInv
<1>2. CASE ~Writing(r)
  <2>1. ~Between(r) /\ ~Regrouping(r)
    BY <1>2, <1>a DEF Writing, Between, Unmaking, Regrouping, At, Fits, Ended
  <2>2. /\ UNCHANGED <<account, row>>
        /\ "role" \notin broken /\ "existence" \notin broken
    BY <1>2, OthersOnlyRead
  <2> QED
    BY <1>c, <2>1, <2>2
<1>3. CASE Post(r) \/ Lookup(r) \/ InsertFails(r)
  <2>1. req'[r].stage \in {"lookup", "insert", "undo"}
    BY <1>3, MoveOf DEF Post, Lookup, InsertFails, Stages
  <2> QED
    BY <2>1 DEF Between
<1>4. CASE Drop(r)
  <2>1. req'[r].stage = "evict" /\ req'[r].kind \in {"create", "delete"}
    BY <1>4, <1>a, MoveOf DEF Drop, At, Fits, Stages
  <2> QED
    BY <2>1 DEF Between, Unmaking, At
<1>5. CASE Insert(r)
  BY <1>5, <1>a DEF Insert, At, GroupsFit
<1>6. CASE Remove(r)
  BY <1>6 DEF Remove
<1>7. CASE Evict(r)
  <2>1. /\ req'[r].stage = AfterEvict(req[r]) /\ UNCHANGED <<account, row>>
        /\ "role" \notin broken /\ "existence" \notin broken
    BY <1>a, <1>7, NextStages, MoveOf DEF Evict, Stages
  <2>2. req[r].kind # "delete"
    BY <2>1 DEF AfterEvict, Between, Unmaking, At
  <2>3. req[r].kind # "create"
    BY <1>7, <2>1 DEF Evict, At, ExistenceInv, Unmade, Unmaking
  <2>4. ~Between(r) /\ ~Regrouping(r)
    BY <1>7, <2>2, <2>3 DEF Evict, At, Between, Unmaking, Regrouping
  <2> QED
    BY <1>c, <2>1, <2>4
<1>8. CASE GetRepresentation(r) \/ PutRepresentation(r) \/ ReadGroups(r)
  <2>1. /\ account'.groups = account.groups /\ UNCHANGED <<row, broken>>
        /\ ~Between(r) /\ ~Regrouping(r)
    BY <1>8
    DEF GetRepresentation, PutRepresentation, ReadGroups, TypeOK, Accounts, At, Between,
        Unmaking, Regrouping
  <2> QED
    BY <1>c, <2>1
<1>9. CASE Leave(r)
  <2>1. PICK g \in req[r].groups :
           StillToLeave(r, req[r].groups \ {g}, req[r].member)
    BY <1>9 DEF Leave
  <2>2. req[r].member \in BOOLEAN
    BY <1>a, RequestFields
  <2>3. /\ req'[r].stage = IF req[r].groups \ {g} # {} THEN "leave"
                           ELSE IF req[r].member THEN "save" ELSE "join"
        /\ req'[r].role = req[r].role /\ req'[r].seen = req[r].seen
    BY <2>1, <2>2, RegroupOf
  <2>4. ChangesRole(req[r])' /\ ~Between(r) /\ ~Regrouping(r) /\ UNCHANGED <<row, broken>>
    BY <1>a, <1>9, <2>3
    DEF Leave, At, Fits, ChangesRole, Between, Unmaking, Regrouping
  <2>5. account.groups = {row}
    BY <1>c, <2>4
  <2>6. req[r].groups = account.groups \ {req[r].role}
    BY <1>a, <1>9 DEF Leave, At, GroupsFit
  <2>7. req[r].groups \ {g} = {}
    BY <2>5, <2>6
  <2> QED
    BY <2>3, <2>4, <2>7 DEF Regrouping, At
<1>10. CASE Join(r)
  <2>1. /\ req'[r].stage = "save"
        /\ req'[r].role = req[r].role /\ req'[r].seen = req[r].seen
        /\ ChangesRole(req[r])
    BY <1>a, <1>10, MoveOf DEF Join, At, Stages, Fits
  <2> QED
    BY <2>1 DEF Regrouping, At, ChangesRole
<1>11. CASE Save(r)
  <2>1. CASE ChangesRole(req[r])
    BY <1>a, <1>11, <2>1 DEF Save, At, GroupsFit
  <2>2. CASE ~ChangesRole(req[r])
    <3>1. /\ UNCHANGED <<account, broken>> /\ row' = req[r].seen /\ row # NoRole
          /\ ~Between(r) /\ ~Regrouping(r)
      BY <1>11, <2>2 DEF Save, At, Between, Unmaking, Regrouping
    <3>2. req[r].seen = row
      BY <1>a, <1>1, <1>11 DEF Save, At, Fits, SeesRow, Writing, Ended
    <3> QED
      BY <1>c, <3>1, <3>2
  <2> QED
    BY <2>1, <2>2
<1>12. CASE NotFound(r)
  <2>1. UNCHANGED <<account, row, broken>>
    BY <1>12 DEF NotFound
  <2>2. ~Between(r)
    BY <1>12, <2>1 DEF NotFound, Between, Unmaking, At, ExistenceInv, Making
  <2>3. account.exists
    BY <1>b, <2>1, <2>2 DEF ExistenceInv, StepInv
  <2>4. FALSE
    BY <1>12, <2>1, <2>3 DEF NotFound
  <2> QED
    BY <2>4
<1>13. CASE Interrupted(r)
  <2>1. UNCHANGED <<account, row>> /\ broken' = broken \cup Undone(req[r])
    BY <1>13 DEF Interrupted
  <2>2. ~(req[r].stage \in {"lookup", "insert", "undo", "remove"})
    BY <2>1 DEF Undone
  <2>3. ~(req[r].stage = "evict" /\ req[r].kind = "delete")
    BY <2>1 DEF Undone
  <2>4. ~(req[r].stage = "evict" /\ req[r].kind = "create")
    BY <2>1 DEF ExistenceInv, Unmade, Unmaking, At
  <2>5. ~Between(r)
    BY <2>2, <2>3, <2>4 DEF Between, Unmaking, At
  <2>6. req[r].stage # "join"
    BY <2>1 DEF Undone
  <2>7. ~(req[r].stage = "save" /\ ChangesRole(req[r]))
    BY <2>1 DEF Undone
  <2> QED
    BY <1>c, <2>1, <2>5, <2>6, <2>7 DEF Regrouping, At
<1>14. CASE CreateOne(r) \/ PatchOne(r) \/ ExecuteAction(r) \/ DeleteOne(r)
            \/ GetManyAsync(r) \/ Fetch(r) \/ Store(r)
  <2>1. ~Writing(r)
    BY <1>14, <1>a
    DEF CreateOne, PatchOne, ExecuteAction, DeleteOne, GetManyAsync, Arrives, Fetch,
        Store, Writing, At, Fits, Ended
  <2> QED
    BY <1>2, <2>1
<1> QED
  BY <1>3, <1>4, <1>5, <1>6, <1>7, <1>8, <1>9, <1>10, <1>11, <1>12, <1>13, <1>14 DEF Step

LEMMA StepRole ==
    TypeOK /\ Fitting /\ LifeInv /\ ExistenceInv /\ Alone /\ RoleInv /\ [Next]_userVars
        => RoleInv'
<1> SUFFICES ASSUME TypeOK, Fitting, LifeInv, ExistenceInv, Alone, RoleInv,
                    [Next]_userVars
             PROVE  RoleInv'
  OBVIOUS
<1>1. CASE UNCHANGED userVars
  BY <1>1
  DEF userVars, RoleInv, SeesRow, GroupsInv, GroupsFit, MirrorInv, Between, Unmaking,
      Regrouping, Writing, At
<1>2. CASE Expire
  <2>1. /\ UNCHANGED <<account, row, req, collided>>
        /\ "role" \in broken <=> "role" \in broken'
        /\ "existence" \in broken <=> "existence" \in broken'
    BY <1>2 DEF Expire
  <2> QED
    BY <2>1
    DEF RoleInv, SeesRow, GroupsInv, GroupsFit, MirrorInv, Between, Unmaking,
        Regrouping, Writing, At
<1>3. ASSUME NEW r \in Requests, Step(r) PROVE RoleInv'
  BY <1>3, StepSeesRow, StepGroups, StepMirror DEF RoleInv
<1> QED
  BY <1>1, <1>2, <1>3 DEF Next

LEMMA MirroredAtRest == Fitting /\ RoleInv => RoleIsMirrored
<1> SUFFICES ASSUME Fitting, RoleInv, AtRest, ~collided,
                    {"role", "existence"} \cap broken = {}, row # NoRole
             PROVE  account.groups = {row}
  BY DEF RoleIsMirrored
<1>1. \A r \in Requests : ~Between(r) /\ ~Regrouping(r)
  BY DEF AtRest, Writing, Between, Unmaking, Regrouping, At, Ended, Fitting, Fits
<1> QED
  BY <1>1 DEF RoleInv, MirrorInv

\* Requests that do not overlap keep the role in the row and the group in Keycloak
\* equal, and the next change of role puts right what an interrupted one has left.
THEOREM RoleStaysMirrored == Spec => []RoleIsMirrored
<1>1. Spec => [](TypeOK /\ Fitting /\ LifeInv /\ ExistenceInv /\ PromiseInv /\ RoleInv)
  <2>1. PromiseInv => Alone
    BY DEF PromiseInv
  <2> QED
    BY <2>1, InitTyped, StepTyped, InitLife, StepLife, InitExistence, StepExistence,
       InitPromise, StepPromise, InitRole, StepRole, PTL DEF Spec
<1> QED
  BY <1>1, MirroredAtRest, PTL
===============================================================================
