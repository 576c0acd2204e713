-------------------------- MODULE CommandResultsProofs --------------------------
(***************************************************************************)
(* What holds of CommandResults for any outputs and any number of          *)
(* handlers, restarts, lost connections and failed calls: its variables    *)
(* keep to their types, a job that is done has left its rows unless it     *)
(* gave some up, an open finding is not added again, and a job announces   *)
(* what it added once.                                                     *)
(***************************************************************************)
EXTENDS CommandResults, FiniteSetTheorems, SequenceTheorems, TLAPS

USE DEF Parts

Working(w) == work[w] # Resting

-------------------------------------------------------------------------------
(* Where a handler is.  TypeOK is not inductive: what a handler adds is a  *)
(* finding only because its index lies within the job's findings.          *)

Placed(l) ==
    /\ l.stage \in {"find", "save", "check", "add"} => l.i =< Len(Items(l))
    /\ l.stage \in {"find", "save"} => AssetOf(l) # None
    /\ l.stage \in {"check", "add", "flush", "report", "publish"} => l.phase = "findings"
    /\ l.stage \in {"parse", "announce"} => l.phase = "assets"
    /\ l.stage \in {"announce", "flush"} => l.i = Len(Items(l)) + 1
    /\ l.phase = "assets" => l.pending = <<>> /\ l.added = 0
    /\ l.stage = "parse" => l.i = 1 /\ l.created = 0
    /\ l.stage \in {"report", "publish", "ack"} => l.pending = <<>>

TypeInv == TypeOK /\ \A w \in Workers : Working(w) => Placed(work[w])

\* A handler that turned to its item, or found that there is none left.
Turned(l) ==
    /\ l.stage \in {"find", "check", "announce", "flush", "publish"}
    /\ l.stage \in {"find", "check"} => l.i =< Len(Items(l))
    /\ l.stage = "find" => AssetOf(l) # None
    /\ l.stage = "check" => AssetOf(l) = None
    /\ l.stage = "announce" <=> l.phase = "assets" /\ l.i > Len(Items(l))
    /\ l.stage \in {"flush", "publish"} => l.i > Len(Items(l))
    /\ l.stage = "publish" <=> l.phase = "findings" /\ l.i > Len(Items(l)) /\ Items(l) = <<>>

LEMMA ItemTypes ==
    ASSUME NEW l \in Handling
    PROVE  /\ Tree[l.job] \in Seq(Assets) /\ Findings[l.job] \in Seq(Keys)
           /\ Items(l) \in Seq(Assets) \cup Seq(Keys) /\ Len(Items(l)) \in Nat
           /\ l.phase = "assets" /\ l.i =< Len(Items(l)) =>
                 AssetOf(l) = Tree[l.job][l.i] /\ AssetOf(l) \in Assets /\ AssetOf(l) # None
                 /\ l.i \in DOMAIN Tree[l.job]
           /\ l.phase = "findings" /\ l.i =< Len(Items(l)) =>
                 Findings[l.job][l.i] \in Keys /\ AssetOf(l) = Findings[l.job][l.i].asset
                 /\ AssetOf(l) \in Assets \cup {None} /\ l.i \in DOMAIN Findings[l.job]
<1>1. /\ l.job \in Jobs /\ l.phase \in {"assets", "findings"} /\ l.i \in Nat \ {0}
  BY DEF Handling
<1>2. Tree[l.job] \in Seq(Assets) /\ Findings[l.job] \in Seq(Keys)
  BY <1>1, ResultsAssumption DEF Keys
<1>3. CASE l.phase = "assets"
  <2>1. Items(l) = Tree[l.job] /\ AssetOf(l) = Tree[l.job][l.i]
    BY <1>3 DEF Items, AssetOf
  <2>2. l.i =< Len(Tree[l.job]) => Tree[l.job][l.i] \in Assets /\ l.i \in DOMAIN Tree[l.job]
    BY <1>1, <1>2
  <2> QED
    BY <1>2, <1>3, <2>1, <2>2, ResultsAssumption
<1>4. CASE l.phase = "findings"
  <2>1. Items(l) = Findings[l.job] /\ AssetOf(l) = Findings[l.job][l.i].asset
    BY <1>4 DEF Items, AssetOf
  <2>2. l.i =< Len(Findings[l.job]) =>
            Findings[l.job][l.i] \in Keys /\ l.i \in DOMAIN Findings[l.job]
    BY <1>1, <1>2
  <2> QED
    BY <1>2, <1>4, <2>1, <2>2 DEF Keys
<1> QED
  BY <1>1, <1>3, <1>4

LEMMA TurnIs ==
    ASSUME NEW l \in Handling
    PROVE  /\ Turn(l) \in Handling /\ Turned(Turn(l))
           /\ Turn(l).job = l.job /\ Turn(l).phase = l.phase /\ Turn(l).i = l.i
           /\ Turn(l).found = l.found /\ Turn(l).created = l.created
           /\ Turn(l).added = l.added /\ Turn(l).pending = l.pending
<1>1. PICK st : /\ Turn(l) = [l EXCEPT !.stage = st]
                /\ st = IF l.i =< Len(Items(l))
                        THEN IF AssetOf(l) = None THEN "check" ELSE "find"
                        ELSE IF l.phase = "assets" THEN "announce"
                        ELSE IF Items(l) = <<>> THEN "publish" ELSE "flush"
  BY DEF Turn
<1>2. st \in {"find", "check", "announce", "flush", "publish"}
  BY <1>1
<1> DEFINE m == Turn(l)
<1>3. /\ m \in Handling /\ m.stage = st
      /\ m.job = l.job /\ m.phase = l.phase /\ m.i = l.i /\ m.found = l.found
      /\ m.created = l.created /\ m.added = l.added /\ m.pending = l.pending
  BY <1>1, <1>2 DEF Handling, Stages
<1> HIDE DEF m
<1>4. Items(m) = Items(l) /\ AssetOf(m) = AssetOf(l)
  BY <1>3 DEF Items, AssetOf
<1>5. l.i \in Nat /\ Len(Items(l)) \in Nat /\ l.phase \in {"assets", "findings"}
  BY ItemTypes DEF Handling
<1>6. Turned(m)
  <2>1. CASE l.i =< Len(Items(l))
    BY <1>1, <1>3, <1>4, <1>5, <2>1 DEF Turned
  <2>2. CASE ~(l.i =< Len(Items(l)))
    BY <1>1, <1>3, <1>4, <1>5, <2>2 DEF Turned
  <2> QED
    BY <2>1, <2>2
<1> QED
  BY <1>3, <1>6 DEF m

\* The next item, of the same job and the same phase.
LEMMA NextItemIs ==
    ASSUME NEW l \in Handling
    PROVE  /\ NextItem(l) \in Handling /\ Turned(NextItem(l))
           /\ NextItem(l).job = l.job /\ NextItem(l).phase = l.phase
           /\ NextItem(l).i = l.i + 1 /\ NextItem(l).found = l.found
           /\ NextItem(l).created = l.created /\ NextItem(l).added = l.added
           /\ NextItem(l).pending = l.pending
<1>1. PICK m : m = [l EXCEPT !.i = @ + 1]
  OBVIOUS
<1>2. /\ m \in Handling /\ m.i = l.i + 1
      /\ m.job = l.job /\ m.phase = l.phase /\ m.found = l.found
      /\ m.created = l.created /\ m.added = l.added /\ m.pending = l.pending
  BY <1>1 DEF Handling
<1>3. NextItem(l) = Turn(m)
  BY <1>1 DEF NextItem
<1> QED
  BY <1>2, <1>3, TurnIs

LEMMA ToFindingsIs ==
    ASSUME NEW l \in Handling
    PROVE  /\ ToFindings(l) \in Handling /\ Turned(ToFindings(l))
           /\ ToFindings(l).job = l.job /\ ToFindings(l).phase = "findings"
           /\ ToFindings(l).i = 1 /\ ToFindings(l).created = l.created
           /\ ToFindings(l).added = l.added /\ ToFindings(l).pending = l.pending
<1>1. PICK m : m = [l EXCEPT !.phase = "findings", !.i = 1]
  OBVIOUS
<1>2. /\ m \in Handling /\ m.i = 1 /\ m.phase = "findings" /\ m.job = l.job
      /\ m.created = l.created /\ m.added = l.added /\ m.pending = l.pending
  <2>1. PICK k : k = [l EXCEPT !.phase = "findings"]
    OBVIOUS
  <2>2. /\ k \in Handling /\ k.phase = "findings" /\ k.job = l.job
        /\ k.created = l.created /\ k.added = l.added /\ k.pending = l.pending
    BY <2>1 DEF Handling
  <2>3. m = [k EXCEPT !.i = 1]
    BY <1>1, <2>1
  <2> QED
    BY <2>2, <2>3 DEF Handling
<1>3. ToFindings(l) = Turn(m)
  BY <1>1 DEF ToFindings
<1> QED
  BY <1>2, <1>3, TurnIs

LEMMA TurnedPlaced ==
    ASSUME NEW l \in Handling, Turned(l), l.i =< Len(Items(l)) + 1,
           l.phase = "assets" \/ Items(l) = <<>> => l.pending = <<>>,
           l.phase = "assets" => l.added = 0
    PROVE  Placed(l)
<1>1. l.i \in Nat /\ Len(Items(l)) \in Nat /\ l.phase \in {"assets", "findings"}
  BY ItemTypes DEF Handling
<1>2. l.stage = "check" => l.phase = "findings"
  BY ItemTypes DEF Turned, Handling
<1> QED
  BY <1>1, <1>2 DEF Turned, Placed

\* How often a finite sequence holds a key.
LEMMA TimesIs ==
    ASSUME NEW s \in Seq(Keys), NEW k
    PROVE  /\ Times(s, k) \in Nat
           /\ (\A n \in DOMAIN s : s[n] # k) => Times(s, k) = 0
           /\ (\E n \in DOMAIN s : s[n] = k) => Times(s, k) > 0
           /\ (\A m, n \in DOMAIN s : s[m] = k /\ s[n] = k => m = n) => Times(s, k) =< 1
<1> DEFINE T == {n \in DOMAIN s : s[n] = k}
<1>1. IsFiniteSet(T) /\ Cardinality(T) \in Nat
  <2>1. DOMAIN s = 1..Len(s) /\ Len(s) \in Nat
    OBVIOUS
  <2>2. IsFiniteSet(1..Len(s))
    BY <2>1, FS_Interval
  <2> QED
    BY <2>1, <2>2, FS_Subset, FS_CardinalityType
<1>2. T = {} <=> Cardinality(T) = 0
  BY <1>1, FS_EmptySet
<1>3. ASSUME \A m, n \in DOMAIN s : s[m] = k /\ s[n] = k => m = n
      PROVE  Cardinality(T) =< 1
  <2>1. CASE T = {}
    BY <1>1, <1>2, <2>1
  <2>2. ASSUME NEW n \in T PROVE Cardinality(T) =< 1
    <3>1. T = {n}
      BY <1>3
    <3>2. Cardinality({n}) = 1
      BY FS_Singleton
    <3> HIDE DEF T
    <3> QED
      BY <3>1, <3>2
  <2> QED
    BY <2>1, <2>2
<1>4. Times(s, k) = Cardinality(T)
  BY DEF Times
<1>5. (\A n \in DOMAIN s : s[n] # k) => T = {}
  OBVIOUS
<1>6. (\E n \in DOMAIN s : s[n] = k) => T # {}
  OBVIOUS
<1> HIDE DEF T
<1> QED
  BY <1>1, <1>2, <1>3, <1>4, <1>5, <1>6

LEMMA InsertedIs ==
    ASSUME TypeOK, NEW s \in Seq(Keys)
    PROVE  /\ Inserted(s) \in [Keys -> [open : Nat, closed : Nat]]
           /\ \A k \in Keys : /\ Inserted(s)[k].open = rows[k].open + Times(s, k)
                              /\ Inserted(s)[k].closed = rows[k].closed
<1>1. ASSUME NEW k \in Keys
      PROVE  /\ Inserted(s)[k] \in [open : Nat, closed : Nat]
             /\ Inserted(s)[k].open = rows[k].open + Times(s, k)
             /\ Inserted(s)[k].closed = rows[k].closed
  <2>1. rows[k] \in [open : Nat, closed : Nat] /\ Times(s, k) \in Nat
    BY TimesIs DEF TypeOK
  <2>2. Inserted(s)[k] = [rows[k] EXCEPT !.open = @ + Times(s, k)]
    BY DEF Inserted
  <2> QED
    BY <2>1, <2>2
<1> QED
  BY <1>1 DEF Inserted

FaultsOK ==
    /\ stopping \in BOOLEAN /\ (stopping => restarts > 0)
    /\ restarts \in Nat /\ losses \in Nat /\ errors \in Nat
    /\ restarts + losses + errors =< MaxFaults

TablesOK ==
    /\ project \in BOOLEAN /\ assets \subseteq Assets
    /\ rows \in [Keys -> [open : Nat, closed : Nat]]
    /\ done \subseteq Jobs /\ dropped \subseteq Jobs \X Parts
    /\ notices \in [Jobs -> [Notices -> Nat]]
    /\ opened \subseteq Keys /\ edits \in 0..MaxEdits
    /\ FaultsOK

\* One more fault.
LEMMA OneMore ==
    ASSUME FaultsOK, May,
           \/ restarts' = restarts + 1 /\ UNCHANGED <<losses, errors>>
           \/ losses' = losses + 1 /\ UNCHANGED <<restarts, errors, stopping>>
           \/ errors' = errors + 1 /\ UNCHANGED <<restarts, losses, stopping>>,
           stopping' \in BOOLEAN
    PROVE  FaultsOK'
BY ResultsAssumption DEF FaultsOK, May

\* A call of a handler that succeeds or fails.
LEMMA CallFaults ==
    ASSUME TypeOK, Fails \/ Breaks \/ UNCHANGED errors, UNCHANGED <<stopping, restarts, losses>>
    PROVE  FaultsOK'
<1>1. FaultsOK
  BY DEF TypeOK, FaultsOK
<1>2. CASE UNCHANGED errors
  BY <1>1, <1>2 DEF FaultsOK
<1>3. CASE May /\ errors' = errors + 1
  BY <1>1, <1>3, OneMore DEF FaultsOK
<1> QED
  BY <1>2, <1>3 DEF Fails, Breaks

LEMMA Working2 ==
    ASSUME TypeOK, NEW w \in Workers
    PROVE  /\ Working(w) <=> work[w] \in Handling
           /\ Working(w) <=> work[w].stage # "idle"
           /\ \A st \in Stages : At(w, st) => Working(w) /\ work[w] \in Handling
<1>1. work[w] \in Handling \cup {Resting}
  BY DEF TypeOK
<1>2. Resting.stage = "idle"
  BY DEF Resting
<1>3. \A l \in Handling : l.stage # "idle"
  BY DEF Handling, Stages
<1>4. "idle" \notin Stages
  BY DEF Stages
<1> QED
  BY <1>1, <1>2, <1>3, <1>4 DEF Working, At

\* A handler goes on with its job.
LEMMA Continues ==
    ASSUME TypeInv, TablesOK', NEW w \in Workers, Working(w), NEW l \in Handling,
           GoOn(w, l), l.job = work[w].job, Placed(l), UNCHANGED <<queue, holder>>
    PROVE  TypeInv'
<1>1. work' \in [Workers -> Handling \cup {Resting}] /\ work'[w] = l
      /\ \A v \in Workers \ {w} : work'[v] = work[v]
  BY DEF TypeInv, TypeOK, GoOn
<1>2. l # Resting
  BY DEF Handling, Stages, Resting
<1>3. TypeOK'
  BY <1>1, <1>2 DEF TypeInv, TypeOK, TablesOK, FaultsOK
<1>4. ASSUME NEW v \in Workers, Working(v)' PROVE Placed(work'[v])
  BY <1>1, <1>4 DEF TypeInv, Working
<1> QED
  BY <1>3, <1>4 DEF TypeInv, Placed, Items, AssetOf

\* A handler ends without an acknowledgement.
LEMMA Leaves ==
    ASSUME TypeInv, TablesOK', NEW w \in Workers, GoOn(w, Resting), Free(w), UNCHANGED queue
    PROVE  TypeInv'
<1>1. work' \in [Workers -> Handling \cup {Resting}] /\ work'[w] = Resting
      /\ \A v \in Workers \ {w} : work'[v] = work[v]
  BY DEF TypeInv, TypeOK, GoOn
<1>2. TypeOK'
  BY <1>1 DEF TypeInv, TypeOK, TablesOK, FaultsOK, Free
<1>3. ASSUME NEW v \in Workers, Working(v)' PROVE Placed(work'[v])
  BY <1>1, <1>3 DEF TypeInv, Working
<1> QED
  BY <1>2, <1>3 DEF TypeInv, Placed, Items, AssetOf

\* What the steps make of the handler's record.
LEMMA SaysOf ==
    ASSUME TypeInv, NEW w \in Workers, NEW st \in Stages, At(w, st)
    PROVE  /\ Working(w) /\ work[w] \in Handling /\ Placed(work[w]) /\ work[w].stage = st
           /\ work[w].i \in Nat \ {0} /\ Len(Items(work[w])) \in Nat
           /\ work[w].created \in Nat /\ work[w].added \in Nat
           /\ work[w].pending \in Seq(Keys) /\ work[w].phase \in {"assets", "findings"}
           /\ work[w].job \in Jobs
BY Working2, ItemTypes DEF TypeInv, At, Handling

-------------------------------------------------------------------------------
(* What the steps of a handler make of its record.                         *)

\* The same work, at another stage.
Same(l, m) ==
    /\ m \in Handling /\ m.job = l.job /\ m.phase = l.phase /\ m.i = l.i
    /\ m.created = l.created /\ m.added = l.added /\ m.pending = l.pending

LEMMA StageIs ==
    ASSUME NEW l \in Handling, NEW st \in Stages
    PROVE  Same(l, [l EXCEPT !.stage = st]) /\ [l EXCEPT !.stage = st].stage = st
BY DEF Same, Handling

LEMMA ParseIs ==
    ASSUME TypeInv, NEW w \in Workers, Parse(w)
    PROVE  \/ Rest(w)
           \/ \E m : /\ UNCHANGED <<holder, dropped>>
                     /\ GoOn(w, m) /\ Same(work[w], m)
                     /\ \/ m.stage = "ack" /\ m.job \in Unknown
                        \/ Turned(m) /\ m.job \notin Unknown \cup Unparsable
<1> DEFINE l == work[w]
<1>1. At(w, "parse") /\ {"parse", "ack"} \subseteq Stages
  BY DEF Parse, Stages
<1>2. l \in Handling
  BY <1>1, SaysOf
<1>3. CASE l.job \in Unknown /\ GoOn(w, [l EXCEPT !.stage = "ack"])
  <2>1. PICK m : m = [l EXCEPT !.stage = "ack"]
    OBVIOUS
  <2>2. Same(l, m) /\ m.stage = "ack" /\ m.job = l.job
    BY <1>1, <1>2, <2>1, StageIs DEF Same
  <2> QED
    BY <1>3, <2>1, <2>2 DEF Parse
<1>4. CASE l.job \notin Unknown \cup Unparsable /\ GoOn(w, Turn(l))
  <2>1. PICK m : m = Turn(l)
    OBVIOUS
  <2>2. Same(l, m) /\ Turned(m) /\ m.job = l.job
    BY <1>2, <2>1, TurnIs DEF Same
  <2> QED
    BY <1>4, <2>1, <2>2 DEF Parse
<1> QED
  BY <1>3, <1>4 DEF Parse

\* An upsert that threw.
Abandoned(w, m) ==
    LET l == work[w] IN
    /\ GoOn(w, m) /\ UNCHANGED holder /\ GiveUp(w, "assets")
    /\ m \in Handling /\ Turned(m) /\ m.job = l.job /\ m.added = l.added /\ m.pending = <<>>
    /\ l.phase = "assets" /\ m.phase = "findings" /\ m.i = 1 /\ m.created = 0

LEMMA AbandonIs ==
    ASSUME TypeInv, NEW w \in Workers, work[w] \in Handling, Placed(work[w]), Abandon(w)
    PROVE  \/ work[w].phase = "findings" /\ Rest(w)
           \/ \E m : Abandoned(w, m)
<1> DEFINE l == work[w]
<1>1. CASE l.phase = "findings" /\ Rest(w)
  BY <1>1
<1>2. CASE l.phase = "assets" /\ GoOn(w, ToFindings([l EXCEPT !.created = 0]))
           /\ GiveUp(w, "assets") /\ UNCHANGED holder
  <2>1. PICK k : k = [l EXCEPT !.created = 0]
    OBVIOUS
  <2>2. /\ k \in Handling /\ k.job = l.job /\ k.pending = l.pending /\ k.added = l.added
        /\ k.created = 0
    BY <2>1 DEF Handling
  <2>3. PICK m : m = ToFindings(k)
    OBVIOUS
  <2>4. /\ m \in Handling /\ Turned(m) /\ m.job = l.job /\ m.i = 1
        /\ m.phase = "findings" /\ m.pending = <<>> /\ m.added = l.added /\ m.created = 0
    BY <1>2, <2>2, <2>3, ToFindingsIs DEF Placed
  <2>5. GoOn(w, m)
    BY <1>2, <2>1, <2>3
  <2>6. Abandoned(w, m)
    BY <1>2, <2>4, <2>5 DEF Abandoned
  <2> QED
    BY <2>6
<1> QED
  BY <1>1, <1>2 DEF Abandon

LEMMA FindAssetIs ==
    ASSUME TypeInv, NEW w \in Workers, FindAsset(w)
    PROVE  \/ \E m : /\ GoOn(w, m) /\ UNCHANGED <<holder, dropped>>
                     /\ Same(work[w], m) /\ m.stage = "save"
                     /\ m.found <=> AssetOf(work[w]) \in assets
           \/ work[w].phase = "findings" /\ Rest(w)
           \/ \E m : Abandoned(w, m)
<1> DEFINE l == work[w]
           b == AssetOf(l) \in assets
<1>1. At(w, "find") /\ "find" \in Stages
  BY DEF FindAsset, Stages
<1>2. l \in Handling /\ Placed(l)
  BY <1>1, SaysOf
<1>3. b \in BOOLEAN
  OBVIOUS
<1>4. PICK m : m = [l EXCEPT !.stage = "save", !.found = b]
  OBVIOUS
<1>5. (GoOn(w, m) /\ UNCHANGED <<holder, dropped>>) \/ Abandon(w)
  BY <1>4 DEF FindAsset
<1> HIDE DEF b
<1>6. Same(l, m) /\ m.stage = "save" /\ m.found = b
  BY <1>2, <1>3, <1>4 DEF Same, Handling, Stages
<1> QED
  BY <1>2, <1>5, <1>6, AbandonIs DEF b

LEMMA SaveAssetIs ==
    ASSUME TypeInv, NEW w \in Workers, SaveAsset(w)
    PROVE  LET l == work[w] IN
           \/ /\ Saves(l) \/ UNCHANGED store
              /\ \/ l.phase = "findings" /\ Rest(w)
                 \/ \E m : Abandoned(w, m)
           \/ \E m \in Handling :
                 /\ GoOn(w, m) /\ Saves(l) /\ UNCHANGED <<holder, dropped>>
                 /\ m.job = l.job /\ m.added = l.added /\ m.pending = <<>>
                 /\ \/ /\ Turned(m) /\ l.phase = "assets" /\ m.phase = "assets" /\ m.i = l.i + 1
                       /\ m.created = IF l.found THEN l.created ELSE l.created + 1
                    \/ /\ m.stage = "check" /\ m.created = l.created
                       /\ l.phase = "findings" /\ m.phase = "findings" /\ m.i = l.i
<1> DEFINE l == work[w]
<1>1. At(w, "save") /\ "save" \in Stages
  BY DEF SaveAsset, Stages
<1>2. /\ l \in Handling /\ Placed(l) /\ l.phase \in {"assets", "findings"}
  BY <1>1, SaysOf DEF Placed
<1>3. PICK s : s = [l EXCEPT !.pending = <<>>]
  OBVIOUS
<1>4. /\ s \in Handling /\ s.job = l.job /\ s.phase = l.phase /\ s.i = l.i
      /\ s.created = l.created /\ s.pending = <<>> /\ s.added = l.added
  BY <1>2, <1>3, EmptySeq DEF Handling
<1>5. CASE l.phase = "findings" /\ GoOn(w, Stored(l)) /\ Saves(l) /\ UNCHANGED <<holder, dropped>>
  <2>1. PICK m : m = [s EXCEPT !.stage = "check"]
    OBVIOUS
  <2>2. Same(s, m) /\ m.stage = "check"
    BY <1>4, <2>1, StageIs DEF Stages
  <2>3. m = Stored(l)
    BY <1>3, <1>5, <2>1 DEF Stored
  <2> QED
    BY <1>4, <1>5, <2>2, <2>3 DEF Same
<1>6. CASE l.phase = "assets" /\ GoOn(w, Stored(l)) /\ Saves(l) /\ UNCHANGED <<holder, dropped>>
  <2>1. PICK k : k = IF l.found THEN s ELSE [s EXCEPT !.created = @ + 1]
    OBVIOUS
  <2>2. /\ k \in Handling /\ k.job = l.job /\ k.phase = l.phase /\ k.i = l.i
        /\ k.pending = <<>> /\ k.added = l.added
        /\ k.created = IF l.found THEN l.created ELSE l.created + 1
    <3>1. CASE l.found
      BY <1>4, <2>1, <3>1
    <3>2. CASE ~l.found
      BY <1>4, <2>1, <3>2 DEF Handling
    <3> QED
      BY <3>1, <3>2
  <2>3. PICK m : m = NextItem(k)
    OBVIOUS
  <2>4. m = Stored(l)
    BY <1>3, <1>6, <2>1, <2>3 DEF Stored
  <2>5. /\ m \in Handling /\ Turned(m) /\ m.job = l.job /\ m.phase = "assets"
        /\ m.i = l.i + 1 /\ m.pending = <<>> /\ m.added = l.added
        /\ m.created = IF l.found THEN l.created ELSE l.created + 1
    BY <1>6, <2>2, <2>3, NextItemIs
  <2> QED
    BY <1>6, <2>4, <2>5
<1>7. CASE Abandon(w) /\ (Saves(l) \/ UNCHANGED store)
  BY <1>2, <1>7, AbandonIs
<1> QED
  BY <1>2, <1>5, <1>6, <1>7 DEF SaveAsset

LEMMA AnnounceIs ==
    ASSUME TypeInv, NEW w \in Workers, Announce(w)
    PROVE  LET l == work[w] IN
           \/ Rest(w) /\ UNCHANGED notices
           \/ \E m \in Handling : /\ GoOn(w, m) /\ Turned(m) /\ UNCHANGED <<holder, dropped>>
                                  /\ m.job = l.job /\ m.phase = "findings" /\ m.i = 1
                                  /\ m.created = l.created /\ m.added = l.added
                                  /\ m.pending = l.pending
<1> DEFINE l == work[w]
<1>1. At(w, "announce") /\ "announce" \in Stages
  BY DEF Announce, Stages
<1>2. l \in Handling
  BY <1>1, SaysOf
<1>3. PICK m : m = ToFindings(l)
  OBVIOUS
<1> QED
  BY <1>2, <1>3, ToFindingsIs DEF Announce

LEMMA CheckIs ==
    ASSUME TypeInv, NEW w \in Workers, Check(w)
    PROVE  LET l == work[w]
               k == Findings[l.job][l.i] IN
           \/ Rest(w)
           \/ \E m \in Handling :
              /\ GoOn(w, m) /\ UNCHANGED <<holder, dropped>>
              /\ \/ Same(l, m) /\ m.stage = "add" /\ rows[k].open = 0
                 \/ /\ rows[k].open > 0 /\ Turned(m)
                    /\ m.job = l.job /\ m.phase = l.phase /\ m.i = l.i + 1
                    /\ m.created = l.created /\ m.added = l.added /\ m.pending = l.pending
<1> DEFINE l == work[w]
           k == Findings[l.job][l.i]
<1>1. At(w, "check") /\ {"check", "add"} \subseteq Stages
  BY DEF Check, Stages
<1>2. /\ l \in Handling /\ l.phase = "findings" /\ l.i =< Len(Items(l))
  BY <1>1, SaysOf DEF Placed
<1>3. rows[k] \in [open : Nat, closed : Nat]
  BY <1>2, ItemTypes DEF TypeInv, TypeOK
<1>4. CASE IsDuplicate(k)
  <2>1. PICK m : m = NextItem(l)
    OBVIOUS
  <2>2. Rest(w) \/ (GoOn(w, m) /\ UNCHANGED <<holder, dropped>>)
    BY <1>4, <2>1 DEF Check
  <2>3. rows[k].open > 0
    BY <1>4 DEF IsDuplicate
  <2>4. /\ m \in Handling /\ Turned(m) /\ m.job = l.job /\ m.phase = l.phase /\ m.i = l.i + 1
        /\ m.created = l.created /\ m.added = l.added /\ m.pending = l.pending
    BY <1>2, <2>1, NextItemIs
  <2> QED
    BY <2>2, <2>3, <2>4
<1>5. CASE ~IsDuplicate(k)
  <2>1. PICK m : m = [l EXCEPT !.stage = "add"]
    OBVIOUS
  <2>2. Same(l, m) /\ m.stage = "add" /\ m \in Handling
    BY <1>1, <1>2, <2>1, StageIs DEF Same
  <2>3. rows[k].open = 0
    BY <1>3, <1>5 DEF IsDuplicate
  <2> QED
    BY <1>5, <2>1, <2>2, <2>3 DEF Check
<1> QED
  BY <1>4, <1>5

LEMMA AddFindingIs ==
    ASSUME TypeInv, NEW w \in Workers, AddFinding(w)
    PROVE  LET l == work[w] IN
           \E m \in Handling :
              /\ GoOn(w, m) /\ Turned(m)
              /\ m.job = l.job /\ m.phase = l.phase /\ m.i = l.i + 1
              /\ m.created = l.created /\ m.added = l.added + 1
              /\ m.pending = Append(l.pending, Findings[l.job][l.i])
<1> DEFINE l == work[w]
           p == Append(l.pending, Findings[l.job][l.i])
<1>1. At(w, "add") /\ "add" \in Stages
  BY DEF AddFinding, Stages
<1>2. /\ l \in Handling /\ Placed(l) /\ l.i =< Len(Items(l))
      /\ l.phase = "findings" /\ l.pending \in Seq(Keys) /\ l.added \in Nat
  BY <1>1, SaysOf DEF Placed
<1>3. p \in Seq(Keys)
  BY <1>2, ItemTypes, AppendProperties
<1>4. PICK k : k = [l EXCEPT !.pending = p, !.added = @ + 1]
  OBVIOUS
<1>5. GoOn(w, NextItem(k))
  BY <1>4 DEF AddFinding
<1> HIDE DEF p
<1>6. /\ k \in Handling /\ k.job = l.job /\ k.phase = l.phase /\ k.i = l.i
      /\ k.created = l.created /\ k.added = l.added + 1 /\ k.pending = p
  <2>1. PICK b : b = [l EXCEPT !.pending = p]
    OBVIOUS
  <2>2. /\ b \in Handling /\ b.job = l.job /\ b.phase = l.phase /\ b.i = l.i
        /\ b.created = l.created /\ b.added = l.added /\ b.pending = p
    BY <1>2, <1>3, <2>1 DEF Handling
  <2>3. k = [b EXCEPT !.added = @ + 1]
    BY <1>2, <1>4, <2>1 DEF Handling
  <2> QED
    BY <1>2, <2>2, <2>3 DEF Handling
<1>7. PICK m : m = NextItem(k)
  OBVIOUS
<1> QED
  BY <1>5, <1>6, <1>7, NextItemIs DEF p

\* Flush, Report, Publish and Ack.
LEMMA FlushIs ==
    ASSUME TypeInv, NEW w \in Workers, Flush(w)
    PROVE  LET l == work[w] IN
           /\ \E m \in Handling : /\ GoOn(w, m) /\ m.stage = "report"
                                  /\ m.job = l.job /\ m.phase = l.phase /\ m.i = l.i
                                  /\ m.created = l.created /\ m.added = l.added
                                  /\ m.pending = <<>>
           /\ \/ rows' = Inserted(l.pending)
              \/ rows' = rows /\ ~Insertable(l.pending)
              \/ rows' = rows /\ l.pending # <<>> /\ Fails /\ GiveUp(w, "findings")
           /\ \/ UNCHANGED dropped
              \/ l.pending # <<>> /\ Fails /\ GiveUp(w, "findings")
<1> DEFINE l == work[w]
<1>1. At(w, "flush") /\ "flush" \in Stages
  BY DEF Flush, Stages
<1>2. l \in Handling
  BY <1>1, SaysOf
<1>3. PICK m : m = [l EXCEPT !.stage = "report", !.pending = <<>>]
  OBVIOUS
<1>4. /\ m \in Handling /\ m.stage = "report" /\ m.job = l.job /\ m.phase = l.phase /\ m.i = l.i
      /\ m.created = l.created /\ m.added = l.added /\ m.pending = <<>>
  BY <1>2, <1>3, EmptySeq DEF Handling, Stages
<1>5. GoOn(w, m)
  BY <1>3 DEF Flush
<1>6. /\ \/ rows' = Inserted(l.pending)
         \/ rows' = rows /\ ~Insertable(l.pending)
         \/ rows' = rows /\ l.pending # <<>> /\ Fails /\ GiveUp(w, "findings")
      /\ \/ UNCHANGED dropped
         \/ l.pending # <<>> /\ Fails /\ GiveUp(w, "findings")
  BY DEF Flush, Fails
<1> QED
  BY <1>4, <1>5, <1>6

LEMMA ReportIs ==
    ASSUME TypeInv, NEW w \in Workers, Report(w)
    PROVE  \/ Rest(w) /\ UNCHANGED notices
           \/ /\ UNCHANGED <<holder, dropped>>
              /\ \E m : GoOn(w, m) /\ Same(work[w], m) /\ m.stage = "publish"
<1>1. At(w, "report") /\ {"report", "publish"} \subseteq Stages
  BY DEF Report, Stages
<1>2. work[w] \in Handling
  BY <1>1, SaysOf
<1>3. PICK m : m = [work[w] EXCEPT !.stage = "publish"]
  OBVIOUS
<1> QED
  BY <1>1, <1>2, <1>3, StageIs DEF Report

LEMMA PublishIs ==
    ASSUME TypeInv, NEW w \in Workers, Publish(w)
    PROVE  \/ Rest(w) /\ UNCHANGED notices /\ losses' = losses + 1
           \/ /\ UNCHANGED <<holder, dropped, losses>>
              /\ \E m : GoOn(w, m) /\ Same(work[w], m) /\ m.stage = "ack"
              /\ notices' = IF work[w].created > 0 \/ work[w].added > 0
                            THEN [notices EXCEPT ![work[w].job]["signal"] = @ + 1]
                            ELSE notices
<1>1. At(w, "publish") /\ {"publish", "ack"} \subseteq Stages
  BY DEF Publish, Stages
<1>2. work[w] \in Handling
  BY <1>1, SaysOf
<1>3. PICK m : m = [work[w] EXCEPT !.stage = "ack"]
  OBVIOUS
<1>4. Same(work[w], m) /\ m.stage = "ack"
  BY <1>1, <1>2, <1>3, StageIs
<1> QED
  BY <1>3, <1>4 DEF Publish, Notified

-------------------------------------------------------------------------------
(* Type correctness.                                                       *)

LEMMA ParseType ==
    ASSUME TypeInv, NEW w \in Workers, Parse(w)
    PROVE  TypeInv'
<1> DEFINE l == work[w]
<1>1. l \in Handling /\ Placed(l) /\ Working(w) /\ l.stage = "parse"
  BY SaysOf DEF Parse, Stages
<1>2. TablesOK'
  <2>1. FaultsOK
    BY DEF TypeInv, TypeOK, FaultsOK
  <2>2. losses' = losses \/ (May /\ losses' = losses + 1)
    BY DEF Parse
  <2>3. UNCHANGED <<stopping, restarts, errors>>
    BY DEF Parse
  <2>4. FaultsOK'
    BY <2>1, <2>2, <2>3, OneMore DEF FaultsOK
  <2>5. UNCHANGED <<project, assets, rows, done, dropped, notices, opened, edits>>
    BY DEF Parse, store, users, Rest
  <2> QED
    BY <2>4, <2>5 DEF TypeInv, TypeOK, TablesOK
<1>3. CASE Rest(w)
  BY <1>2, <1>3, Leaves DEF Parse, Rest
<1>4. ASSUME NEW m, UNCHANGED holder, GoOn(w, m), Same(l, m), m.stage = "ack" \/ Turned(m)
      PROVE  TypeInv'
  <2>1. m.phase = "assets" /\ m.pending = <<>> /\ m.i = 1 /\ m.added = 0 /\ m \in Handling
    BY <1>1, <1>4 DEF Placed, Same
  <2>2. Placed(m)
    <3>1. CASE Turned(m)
      BY <2>1, <3>1, TurnedPlaced, ItemTypes
    <3>2. CASE m.stage = "ack"
      BY <2>1, <3>2 DEF Placed
    <3> QED
      BY <1>4, <3>1, <3>2
  <2> QED
    BY <1>1, <1>2, <1>4, <2>1, <2>2, Continues DEF Parse, Same
<1> QED
  BY <1>3, <1>4, ParseIs

\* What a handler gives up is a part of its job.
LEMMA GiveUpType ==
    ASSUME TypeInv, NEW w \in Workers, work[w] \in Handling, NEW part \in Parts,
           UNCHANGED dropped \/ GiveUp(w, part)
    PROVE  dropped' \subseteq Jobs \X Parts
<1>1. <<work[w].job, part>> \in Jobs \X Parts
  BY DEF Handling
<1> QED
  BY <1>1 DEF GiveUp, TypeInv, TypeOK

LEMMA AbandonType ==
    ASSUME TypeInv, NEW w \in Workers, work[w] \in Handling, Abandon(w)
    PROVE  dropped' \subseteq Jobs \X Parts
BY GiveUpType DEF Abandon, Rest

\* SaveChanges keeps the tables typed.
LEMMA SaveTables ==
    ASSUME TypeInv, NEW w \in Workers, SaveAsset(w) \/ Flush(w)
    PROVE  TablesOK'
<1> DEFINE l == work[w]
<1>1. /\ l.pending \in Seq(Keys)
      /\ SaveAsset(w) => AssetOf(l) \in Assets
  <2>1. "save" \in Stages /\ "flush" \in Stages
    BY DEF Stages
  <2>2. CASE SaveAsset(w)
    <3>1. At(w, "save")
      BY <2>2 DEF SaveAsset
    <3> QED
      BY <2>1, <3>1, SaysOf, ItemTypes DEF Placed
  <2>3. CASE Flush(w) /\ ~SaveAsset(w)
    <3>1. At(w, "flush")
      BY <2>3 DEF Flush
    <3> QED
      BY <2>1, <2>3, <3>1, SaysOf
  <2> QED
    BY <2>2, <2>3
<1>2. Inserted(l.pending) \in [Keys -> [open : Nat, closed : Nat]]
  BY <1>1, InsertedIs DEF TypeInv
<1>3. l \in Handling
  BY Working2 DEF SaveAsset, Flush, TypeInv, Stages
<1>4. CASE SaveAsset(w)
  <2>1. /\ Saves(l) \/ UNCHANGED store
        /\ UNCHANGED dropped \/ Abandon(w)
        /\ Fails \/ Breaks \/ UNCHANGED errors
    BY <1>4 DEF SaveAsset
  <2>2. dropped' \subseteq Jobs \X Parts
    BY <1>3, <2>1, AbandonType DEF TypeInv, TypeOK
  <2>3. FaultsOK'
    BY <1>4, <2>1, CallFaults DEF SaveAsset, TypeInv
  <2>4. UNCHANGED <<project, done, notices, opened, edits>>
    BY <1>4, <2>1 DEF SaveAsset, Saves, store, users
  <2>5. assets' \subseteq Assets /\ rows' \in [Keys -> [open : Nat, closed : Nat]]
    BY <1>1, <1>2, <1>4, <2>1 DEF Saves, store, TypeInv, TypeOK
  <2> QED
    BY <2>2, <2>3, <2>4, <2>5 DEF TypeInv, TypeOK, TablesOK
<1>5. CASE Flush(w)
  <2>1. /\ rows' = Inserted(l.pending) \/ UNCHANGED rows
        /\ UNCHANGED dropped \/ GiveUp(w, "findings")
    BY <1>5, FlushIs
  <2>2. Fails \/ Breaks \/ UNCHANGED errors
    BY <1>5 DEF Flush
  <2>3. dropped' \subseteq Jobs \X Parts
    BY <1>3, <2>1, GiveUpType
  <2>4. FaultsOK'
    BY <1>5, <2>2, CallFaults DEF Flush, TypeInv
  <2>5. UNCHANGED <<project, assets, done, notices, opened, edits>>
    BY <1>5 DEF Flush, users
  <2> QED
    BY <1>2, <2>1, <2>3, <2>4, <2>5 DEF TypeInv, TypeOK, TablesOK
<1> QED
  BY <1>4, <1>5

\* A handler that goes on with the findings after its tree was given up.
LEMMA AbandonedType ==
    ASSUME TypeInv, NEW w \in Workers, Working(w), TablesOK', UNCHANGED queue,
           NEW m, Abandoned(w, m)
    PROVE  TypeInv'
<1>1. Placed(m)
  BY TurnedPlaced, ItemTypes DEF Abandoned
<1> QED
  BY <1>1, Continues DEF Abandoned

LEMMA SaveAssetType ==
    ASSUME TypeInv, NEW w \in Workers, SaveAsset(w)
    PROVE  TypeInv'
<1> DEFINE l == work[w]
<1>1. /\ l \in Handling /\ Placed(l) /\ Working(w) /\ l.stage = "save"
      /\ l.i \in Nat /\ Len(Items(l)) \in Nat /\ l.i =< Len(Items(l))
  BY SaysOf DEF SaveAsset, Stages, Placed
<1>2. TablesOK'
  BY SaveTables
<1>3. CASE Rest(w)
  BY <1>2, <1>3, Leaves DEF SaveAsset, Rest
<1>4. ASSUME NEW m \in Handling, GoOn(w, m), UNCHANGED holder,
             m.job = l.job, m.added = l.added, m.pending = <<>>,
             \/ Turned(m) /\ l.phase = "assets" /\ m.phase = "assets" /\ m.i = l.i + 1
             \/ m.stage = "check" /\ l.phase = "findings" /\ m.phase = "findings" /\ m.i = l.i
      PROVE  TypeInv'
  <2>1. Placed(m)
    <3>1. m.phase = l.phase => Items(m) = Items(l)
      BY <1>4 DEF Items
    <3>2. CASE Turned(m) /\ l.phase = "assets" /\ m.phase = "assets" /\ m.i = l.i + 1
      BY <1>1, <1>4, <3>1, <3>2, TurnedPlaced DEF Placed
    <3>3. CASE m.stage = "check" /\ l.phase = "findings" /\ m.phase = "findings" /\ m.i = l.i
      BY <1>1, <1>4, <3>1, <3>3 DEF Placed
    <3> QED
      BY <1>4, <3>2, <3>3
  <2> QED
    BY <1>1, <1>2, <1>4, <2>1, Continues DEF SaveAsset
<1>5. ASSUME NEW m, Abandoned(w, m) PROVE TypeInv'
  BY <1>1, <1>2, <1>5, AbandonedType DEF SaveAsset
<1> QED
  BY <1>3, <1>4, <1>5, SaveAssetIs

\* A handler at the next finding.
LEMMA NextPlaced ==
    ASSUME NEW l \in Handling, l.phase = "findings", l.i =< Len(Items(l)),
           NEW m \in Handling, Turned(m), m.job = l.job, m.phase = l.phase, m.i = l.i + 1
    PROVE  Placed(m)
<1>1. Items(m) = Items(l) /\ Len(Items(l)) \in Nat /\ l.i \in Nat \ {0}
  BY ItemTypes DEF Items, Handling
<1>2. Items(l) # <<>>
  <2>1. Len(Items(l)) # 0
    BY <1>1
  <2> QED
    BY <2>1
<1> QED
  BY <1>1, <1>2, TurnedPlaced

\* One more notification.
LEMMA NoticeIs ==
    ASSUME TypeOK, NEW j \in Jobs, NEW n \in Notices
    PROVE  /\ [notices EXCEPT ![j][n] = @ + 1] \in [Jobs -> [Notices -> Nat]]
           /\ [notices EXCEPT ![j][n] = @ + 1][j][n] = notices[j][n] + 1
           /\ \A i \in Jobs : \A m \in Notices : i # j \/ m # n =>
                 [notices EXCEPT ![j][n] = @ + 1][i][m] = notices[i][m]
<1>1. notices[j] \in [Notices -> Nat] /\ notices[j][n] + 1 \in Nat
  BY DEF TypeOK
<1>2. [notices[j] EXCEPT ![n] = @ + 1] \in [Notices -> Nat]
  BY <1>1
<1>3. [notices EXCEPT ![j][n] = @ + 1] = [notices EXCEPT ![j] = [notices[j] EXCEPT ![n] = @ + 1]]
  OBVIOUS
<1> QED
  BY <1>1, <1>2, <1>3 DEF TypeOK

LEMMA NotifiedType ==
    ASSUME TypeOK, NEW l \in Handling, NEW n \in Notices, NEW news, Notified(l, n, news)
    PROVE  notices' \in [Jobs -> [Notices -> Nat]]
<1>1. l.job \in Jobs
  BY DEF Handling
<1>2. [notices EXCEPT ![l.job][n] = @ + 1] \in [Jobs -> [Notices -> Nat]]
  BY <1>1, NoticeIs
<1> QED
  BY <1>2 DEF Notified, TypeOK

LEMMA HandleType ==
    ASSUME TypeInv, NEW w \in Workers, Handle(w)
    PROVE  TypeInv'
<1> DEFINE l == work[w]
<1>a. ASSUME UNCHANGED <<project, assets, rows, done, opened, edits, stopping, restarts, losses>>,
             Fails \/ Breaks \/ UNCHANGED errors,
             dropped' \subseteq Jobs \X Parts, notices' \in [Jobs -> [Notices -> Nat]]
      PROVE  TablesOK'
  BY <1>a, CallFaults DEF TypeInv, TypeOK, TablesOK
<1>b. /\ dropped \subseteq Jobs \X Parts /\ notices \in [Jobs -> [Notices -> Nat]]
      /\ {"assets", "findings", "signal"} \subseteq Notices
  BY DEF TypeInv, TypeOK, Notices
<1>c. ASSUME Rest(w), TablesOK', UNCHANGED queue PROVE TypeInv'
  BY <1>c, Leaves DEF Rest
<1>0. \A st \in {"find", "announce", "check", "add", "flush", "report", "publish", "ack"} :
          At(w, st) => l \in Handling /\ Placed(l) /\ Working(w) /\ l.stage = st /\ l.job \in Jobs
  BY SaysOf DEF Stages
<1>1. CASE FindAsset(w)
  <2>1. l \in Handling /\ Placed(l) /\ Working(w) /\ l.stage = "find" /\ UNCHANGED queue
    BY <1>0, <1>1 DEF FindAsset
  <2>2. UNCHANGED dropped \/ Abandon(w)
    BY <1>1 DEF FindAsset
  <2>3. dropped' \subseteq Jobs \X Parts
    BY <1>b, <2>1, <2>2, AbandonType
  <2>4. TablesOK'
    <3>1. /\ Fails \/ UNCHANGED errors
          /\ UNCHANGED <<project, assets, rows, done, notices, opened, edits, stopping, restarts, losses>>
      BY <1>1 DEF FindAsset, store, users
    <3> QED
      BY <1>a, <1>b, <2>3, <3>1
  <2>5. ASSUME NEW m, GoOn(w, m), UNCHANGED holder, Same(l, m), m.stage = "save" PROVE TypeInv'
    <3>1. Placed(m)
      BY <2>1, <2>5 DEF Placed, Items, AssetOf, Same
    <3> QED
      BY <2>1, <2>4, <2>5, <3>1, Continues DEF Same
  <2> QED
    BY <1>1, <1>c, <2>1, <2>4, <2>5, FindAssetIs, AbandonedType
<1>2. CASE Announce(w)
  <2>1. /\ l \in Handling /\ Working(w) /\ l.pending = <<>> /\ UNCHANGED queue
    BY <1>0, <1>2 DEF Announce, Placed
  <2>2. /\ UNCHANGED notices \/ Notified(l, "assets", l.created > 0 /\ l.job \notin Anonymous)
        /\ UNCHANGED dropped /\ (Fails \/ UNCHANGED errors)
        /\ UNCHANGED <<project, assets, rows, done, opened, edits, stopping, restarts, losses>>
    BY <1>2 DEF Announce, store, users, Rest
  <2>3. notices' \in [Jobs -> [Notices -> Nat]]
    BY <1>b, <2>1, <2>2, NotifiedType DEF TypeInv
  <2>4. TablesOK'
    BY <1>a, <1>b, <2>2, <2>3
  <2>5. ASSUME NEW m \in Handling, GoOn(w, m), Turned(m), UNCHANGED holder, m.job = l.job,
               m.phase = "findings", m.i = 1, m.pending = l.pending
        PROVE  TypeInv'
    <3>1. Placed(m)
      BY <2>1, <2>5, TurnedPlaced, ItemTypes
    <3> QED
      BY <2>1, <2>4, <2>5, <3>1, Continues
  <2> QED
    BY <1>2, <1>c, <2>1, <2>4, <2>5, AnnounceIs
<1>3. CASE Check(w)
  <2>1. /\ l \in Handling /\ Placed(l) /\ Working(w) /\ UNCHANGED queue
        /\ l.phase = "findings" /\ l.i =< Len(Items(l))
    BY <1>0, <1>3 DEF Check, Placed
  <2>2. TablesOK'
    <3>1. /\ UNCHANGED <<dropped, notices>> /\ (Breaks \/ UNCHANGED errors)
          /\ UNCHANGED <<project, assets, rows, done, opened, edits, stopping, restarts, losses>>
      BY <1>3 DEF Check, store, users, Rest
    <3> QED
      BY <1>a, <1>b, <3>1
  <2>3. ASSUME NEW m \in Handling, GoOn(w, m), UNCHANGED holder,
               \/ Same(l, m) /\ m.stage = "add"
               \/ Turned(m) /\ m.job = l.job /\ m.phase = l.phase /\ m.i = l.i + 1
        PROVE  TypeInv'
    <3>1. ASSUME Same(l, m), m.stage = "add" PROVE Placed(m)
      BY <2>1, <3>1 DEF Same, Placed, Items
    <3>2. ASSUME Turned(m), m.job = l.job, m.phase = l.phase, m.i = l.i + 1 PROVE Placed(m)
      BY <2>1, <2>3, <3>2, NextPlaced
    <3>3. Placed(m) /\ m.job = l.job
      BY <2>3, <3>1, <3>2 DEF Same
    <3> QED
      BY <2>1, <2>2, <2>3, <3>3, Continues
  <2> QED
    BY <1>3, <1>c, <2>1, <2>2, <2>3, CheckIs
<1>4. CASE AddFinding(w)
  <2>1. PICK m \in Handling : /\ GoOn(w, m) /\ Turned(m) /\ m.job = l.job
                              /\ m.phase = l.phase /\ m.i = l.i + 1
    BY <1>4, AddFindingIs
  <2>2. /\ l \in Handling /\ Working(w) /\ l.phase = "findings" /\ l.i =< Len(Items(l))
    BY <1>0, <1>4 DEF AddFinding, Placed
  <2>3. Placed(m)
    BY <2>1, <2>2, NextPlaced
  <2>4. TablesOK'
    BY <1>a, <1>b, <1>4 DEF AddFinding, store, broker, users, faults
  <2> QED
    BY <1>4, <2>1, <2>2, <2>3, <2>4, Continues DEF AddFinding, broker
<1>5. CASE Flush(w)
  <2>1. PICK m \in Handling : /\ GoOn(w, m) /\ m.stage = "report" /\ m.job = l.job
                              /\ m.phase = l.phase /\ m.pending = <<>>
    BY <1>5, FlushIs
  <2>2. l \in Handling /\ Working(w) /\ l.phase = "findings"
    BY <1>0, <1>5 DEF Flush, Placed
  <2>3. Placed(m)
    BY <2>1, <2>2 DEF Placed
  <2>4. TablesOK'
    BY <1>5, SaveTables
  <2>5. UNCHANGED <<queue, holder>>
    BY <1>5 DEF Flush
  <2> QED
    BY <2>1, <2>2, <2>3, <2>4, <2>5, Continues
<1>6. CASE Report(w)
  <2>1. /\ l \in Handling /\ Working(w) /\ l.phase = "findings" /\ l.pending = <<>>
        /\ UNCHANGED queue
    BY <1>0, <1>6 DEF Report, Placed
  <2>2. /\ UNCHANGED notices \/ Notified(l, "findings", l.added > 0 /\ l.job \notin Anonymous)
        /\ UNCHANGED dropped /\ (Fails \/ UNCHANGED errors)
        /\ UNCHANGED <<project, assets, rows, done, opened, edits, stopping, restarts, losses>>
    BY <1>6 DEF Report, store, users, Rest
  <2>3. notices' \in [Jobs -> [Notices -> Nat]]
    BY <1>b, <2>1, <2>2, NotifiedType DEF TypeInv
  <2>4. TablesOK'
    BY <1>a, <1>b, <2>2, <2>3
  <2>5. ASSUME NEW m, GoOn(w, m), Same(l, m), m.stage = "publish", UNCHANGED holder
        PROVE  TypeInv'
    <3>1. Placed(m)
      BY <2>1, <2>5 DEF Placed, Same
    <3> QED
      BY <2>1, <2>4, <2>5, <3>1, Continues DEF Same
  <2> QED
    BY <1>6, <1>c, <2>1, <2>4, <2>5, ReportIs
<1>7. CASE Publish(w)
  <2>1. /\ l \in Handling /\ Working(w) /\ l.phase = "findings" /\ l.pending = <<>>
        /\ l.job \in Jobs
    BY <1>0, <1>7 DEF Publish, Placed
  <2>2. notices' \in [Jobs -> [Notices -> Nat]]
    <3>1. UNCHANGED notices \/ Notified(l, "signal", l.created > 0 \/ l.added > 0)
      BY <1>7 DEF Publish
    <3> QED
      BY <1>b, <2>1, <3>1, NotifiedType DEF TypeInv
  <2>3. TablesOK'
    <3>1. /\ UNCHANGED <<project, assets, rows, done, dropped, opened, edits>>
          /\ UNCHANGED <<stopping, restarts, errors>>
      BY <1>7 DEF Publish, store, users, Rest
    <3>2. losses' = losses \/ (May /\ losses' = losses + 1)
      BY <1>7 DEF Publish
    <3>3. FaultsOK
      BY DEF TypeInv, TypeOK, FaultsOK
    <3>4. FaultsOK'
      BY <3>1, <3>2, <3>3, OneMore DEF FaultsOK
    <3> QED
      BY <2>2, <3>1, <3>4 DEF TypeInv, TypeOK, TablesOK
  <2>4. CASE Rest(w)
    BY <1>7, <1>c, <2>3, <2>4 DEF Publish
  <2>5. ASSUME NEW m, UNCHANGED holder, GoOn(w, m), Same(l, m), m.stage = "ack"
        PROVE  TypeInv'
    <3>1. Placed(m)
      BY <2>1, <2>5 DEF Placed, Same
    <3> QED
      BY <1>7, <2>1, <2>3, <2>5, <3>1, Continues DEF Publish, Same
  <2> QED
    BY <1>7, <2>4, <2>5, PublishIs
<1>8. CASE Ack(w)
  <2>1. /\ work' = [work EXCEPT ![w] = Resting] /\ l \in Handling /\ Working(w)
    BY <1>0, <1>8 DEF Ack, GoOn
  <2>2. work' \in [Workers -> Handling \cup {Resting}] /\ work'[w] = Resting
        /\ \A v \in Workers \ {w} : work'[v] = work[v]
    BY <2>1 DEF TypeInv, TypeOK
  <2>a. /\ UNCHANGED <<project, assets, rows, dropped, notices, opened, edits>>
        /\ UNCHANGED <<stopping, restarts, losses, errors>>
    BY <1>8 DEF Ack, store, users, faults
  <2>3. ASSUME holder = w PROVE TypeOK'
    <3>1. queue # <<>> /\ queue' = Tail(queue) /\ holder' = None /\ done' = done \cup {l.job}
      BY <1>8, <2>3, ResultsAssumption DEF Ack, Free, TypeInv, TypeOK
    <3>2. queue' \in Seq(Jobs)
      BY <3>1, HeadTailProperties DEF TypeInv, TypeOK
    <3>3. l.job \in Jobs
      BY <2>1 DEF Handling
    <3> QED
      BY <2>a, <2>2, <3>1, <3>2, <3>3 DEF TypeInv, TypeOK
  <2>4. ASSUME holder # w PROVE TypeOK'
    <3>1. UNCHANGED <<queue, holder, done>>
      BY <1>8, <2>4 DEF Ack, Free
    <3> QED
      BY <2>a, <2>2, <2>4, <3>1 DEF TypeInv, TypeOK
  <2>5. ASSUME NEW v \in Workers, Working(v)' PROVE Placed(work[v])'
    <3>1. v # w
      BY <2>2, <2>5 DEF Working, Resting
    <3>2. work'[v] = work[v] /\ Working(v)
      BY <2>2, <2>5, <3>1 DEF Working
    <3> QED
      BY <3>2 DEF TypeInv, Placed, Items, AssetOf
  <2> QED
    BY <2>3, <2>4, <2>5 DEF TypeInv
<1> QED
  BY <1>1, <1>2, <1>3, <1>4, <1>5, <1>6, <1>7, <1>8, ParseType, SaveAssetType DEF Handle

LEMMA InitType == Init => TypeInv
<1> SUFFICES ASSUME Init PROVE TypeInv
  OBVIOUS
<1>1. /\ project \in BOOLEAN /\ assets \subseteq Assets /\ queue \in Seq(Jobs)
      /\ work \in [Workers -> Handling \cup {Resting}] /\ holder = None
      /\ done \subseteq Jobs /\ dropped \subseteq Jobs \X Parts /\ opened \subseteq Keys
  BY DEF Init
<1>2. /\ rows \in [Keys -> [open : Nat, closed : Nat]]
      /\ notices \in [Jobs -> [Notices -> Nat]]
  BY DEF Init
<1>3. /\ edits \in 0..MaxEdits /\ stopping = FALSE
      /\ restarts \in Nat /\ losses \in Nat /\ errors \in Nat
      /\ restarts + losses + errors =< MaxFaults
  BY ResultsAssumption DEF Init
<1>4. TypeOK
  BY <1>1, <1>2, <1>3 DEF TypeOK
<1> QED
  BY <1>4 DEF Init, TypeInv, Working

LEMMA StepType == TypeInv /\ [Next]_vars => TypeInv'
<1> SUFFICES ASSUME TypeInv, [Next]_vars PROVE TypeInv'
  OBVIOUS
<1> USE DEF TypeInv, Working, Placed, Items, AssetOf
<1>1. ASSUME NEW j \in Jobs, Upload(j) PROVE TypeInv'
  <2>1. queue' \in Seq(Jobs) /\ (queue # <<>> => queue' # <<>> /\ Head(queue') = Head(queue))
    <3>1. queue \in Seq(Jobs) /\ queue' = Append(queue, j)
      BY <1>1 DEF Upload, TypeOK
    <3>2. queue' \in Seq(Jobs) /\ Len(queue') = Len(queue) + 1
          /\ \A n \in 1..Len(queue) : queue'[n] = queue[n]
      BY <3>1, AppendProperties
    <3> QED
      BY <3>1, <3>2
  <2> QED
    BY <1>1, <2>1 DEF Upload, store, users, faults, TypeOK
<1>2. ASSUME NEW w \in Workers, Deliver(w) PROVE TypeInv'
  <2>1. PICK j \in Jobs : j = Head(queue)
    BY <1>2, HeadTailProperties DEF Deliver, TypeOK
  <2>2. PICK m : m = Begun(j)
    OBVIOUS
  <2>3. /\ m \in Handling /\ m # Resting /\ m.job = j /\ m.stage = "parse" /\ m.i = 1
        /\ m.phase = "assets" /\ m.pending = <<>> /\ m.added = 0 /\ m.created = 0
    <3>1. m \in Handling
      BY <2>2, EmptySeq DEF Begun, Handling, Stages
    <3>2. m.stage = "parse" /\ Resting.stage = "idle"
      BY <2>2 DEF Begun, Resting
    <3> QED
      BY <2>2, <3>1, <3>2 DEF Begun
  <2>4. work' \in [Workers -> Handling \cup {Resting}] /\ work'[w] = m
        /\ \A v \in Workers \ {w} : work'[v] = work[v]
    BY <1>2, <2>1, <2>2, <2>3 DEF Deliver, GoOn, TypeOK
  <2>5. TypeOK'
    BY <1>2, <2>1, <2>3, <2>4 DEF Deliver, store, users, faults, TypeOK
  <2>6. Placed(m)
    BY <2>3
  <2>7. ASSUME NEW v \in Workers, Working(v)' PROVE Placed(work'[v])
    BY <2>4, <2>6, <2>7
  <2> QED
    BY <2>5, <2>7
<1>3. ASSUME NEW w \in Workers, Handle(w) PROVE TypeInv'
  BY <1>3, HandleType
<1>4. ASSUME NEW k \in Keys, CloseFinding(k) PROVE TypeInv'
  <2>1. rows[k] \in [open : Nat, closed : Nat] /\ rows[k].open > 0
    BY <1>4 DEF CloseFinding, TypeOK
  <2>2. [rows[k] EXCEPT !.open = @ - 1] \in [open : Nat, closed : Nat]
    BY <2>1
  <2>3. rows' \in [Keys -> [open : Nat, closed : Nat]]
    BY <1>4, <2>1, <2>2 DEF CloseFinding, TypeOK
  <2>4. edits' \in 0..MaxEdits
    <3>1. edits \in 0..MaxEdits
      BY DEF TypeOK
    <3>2. edits < MaxEdits /\ edits' = edits + 1
      BY <1>4 DEF CloseFinding, Edits
    <3> QED
      BY <3>1, <3>2, ResultsAssumption
  <2>5. UNCHANGED <<project, assets, queue, holder, done, dropped, work, notices,
                    opened, stopping, restarts, losses, errors>>
    BY <1>4 DEF CloseFinding, broker, faults
  <2> QED
    BY <2>3, <2>4, <2>5 DEF TypeOK
<1>5. ASSUME NEW a \in Assets, CreateAsset(a) PROVE TypeInv'
  BY <1>5, ResultsAssumption DEF CreateAsset, Edits, broker, faults, TypeOK
<1>6. CASE DeleteProject
  BY <1>6 DEF DeleteProject, broker, users, faults, TypeOK
<1>7. CASE Stop
  <2>1. FaultsOK'
    <3>1. FaultsOK /\ May /\ restarts' = restarts + 1 /\ UNCHANGED <<losses, errors>> /\ stopping'
      BY <1>7 DEF Stop, TypeOK, FaultsOK
    <3> QED
      BY <1>7, <3>1, OneMore DEF Stop
  <2> QED
    BY <1>7, <2>1 DEF Stop, store, broker, users, FaultsOK, TypeOK
<1>8. CASE Exit
  BY <1>8, ResultsAssumption DEF Exit, store, users, TypeOK
<1>9. CASE Lose
  <2>1. FaultsOK'
    <3>1. FaultsOK /\ May /\ losses' = losses + 1 /\ UNCHANGED <<restarts, errors, stopping>>
      BY <1>9 DEF Lose, TypeOK, FaultsOK
    <3> QED
      BY <3>1, OneMore DEF FaultsOK
  <2> QED
    BY <1>9, <2>1 DEF Lose, store, users, FaultsOK, TypeOK
<1>10. CASE UNCHANGED vars
  BY <1>10 DEF vars, store, broker, users, faults, TypeOK
<1>11. ASSUME NEW k \in Keys, CreateFinding(k) PROVE TypeInv'
  <2>1. rows[k] \in [open : Nat, closed : Nat]
    BY DEF TypeOK
  <2>a. [rows[k] EXCEPT !.open = @ + 1] \in [open : Nat, closed : Nat]
    BY <2>1
  <2>b. rows' = [rows EXCEPT ![k] = [rows[k] EXCEPT !.open = @ + 1]]
    BY <1>11 DEF CreateFinding
  <2>2. rows' \in [Keys -> [open : Nat, closed : Nat]]
    BY <2>a, <2>b DEF TypeOK
  <2>3. edits' \in 0..MaxEdits
    <3>1. edits \in 0..MaxEdits
      BY DEF TypeOK
    <3>2. edits < MaxEdits /\ edits' = edits + 1
      BY <1>11 DEF CreateFinding, Edits
    <3> QED
      BY <3>1, <3>2, ResultsAssumption
  <2>4. opened' \subseteq Keys
    BY <1>11 DEF CreateFinding, TypeOK
  <2>5. UNCHANGED <<project, assets, queue, holder, done, dropped, work, notices,
                    stopping, restarts, losses, errors>>
    BY <1>11 DEF CreateFinding, broker, faults
  <2> QED
    BY <2>2, <2>3, <2>4, <2>5 DEF TypeOK
<1>12. ASSUME NEW k \in Keys, ReopenFinding(k) PROVE TypeInv'
  <2>1. rows[k] \in [open : Nat, closed : Nat] /\ rows[k].closed > 0
    BY <1>12 DEF ReopenFinding, TypeOK
  <2>2. [rows[k] EXCEPT !.open = @ + 1] \in [open : Nat, closed : Nat]
    BY <2>1
  <2>3. rows' \in [Keys -> [open : Nat, closed : Nat]]
    BY <1>12, <2>1, <2>2 DEF ReopenFinding, TypeOK
  <2>4. opened' \subseteq Keys
    BY <1>12 DEF ReopenFinding, TypeOK
  <2>5. UNCHANGED <<project, assets, queue, holder, done, dropped, work, notices,
                    edits, stopping, restarts, losses, errors>>
    BY <1>12 DEF ReopenFinding, broker, faults
  <2> QED
    BY <2>3, <2>4, <2>5 DEF TypeOK
<1> QED
  BY <1>1, <1>2, <1>3, <1>4, <1>5, <1>6, <1>7, <1>8, <1>9, <1>10, <1>11, <1>12 DEF Next

LEMMA TypesHold == Spec => []TypeInv
BY InitType, StepType, PTL DEF Spec

\* Every variable keeps to its type, and the handler the broker delivered the
\* head of the queue to works on it, whatever fails or is lost.
THEOREM TypeCorrect == Spec => []TypeOK
<1>1. TypeInv => TypeOK
  BY DEF TypeInv
<1> QED
  BY <1>1, TypesHold, PTL

-------------------------------------------------------------------------------
(* Who works on what.                                                      *)

\* Only a job that is parsed gets past the parser, and an unknown one is only
\* acknowledged.
Sifted(l) ==
    /\ l.stage # "parse" => l.job \notin Unparsable \ Unknown
    /\ l.stage \notin {"parse", "ack"} => l.job \notin Unknown

\* A handler that lost its connection works on the job that is delivered
\* again, until that is acknowledged.
HeadOrDone(l) == l.job \in done \/ (queue # <<>> /\ l.job = Head(queue))

\* Side by side only after a loss.
Alone(w) == losses = 0 => holder = w

WorkInv ==
    \A w \in Workers : Working(w) =>
        Sifted(work[w]) /\ HeadOrDone(work[w]) /\ Alone(w)

\* A job waits once, and no more when it is done.
QueueInv ==
    /\ \A m, n \in DOMAIN queue : queue[m] = queue[n] => m = n
    /\ \A n \in DOMAIN queue : queue[n] \notin done

\* A step of a handler goes on with its job, gives it back or acknowledges it.
LEMMA HandleMoves ==
    ASSUME TypeInv, NEW w \in Workers, Handle(w)
    PROVE  LET l == work[w] IN
           /\ l \in Handling /\ Placed(l) /\ Working(w)
           /\ \A v \in Workers \ {w} : work'[v] = work[v]
           /\ losses' = 0 => losses = 0
           /\ errors' = 0 => errors = 0
           /\ \/ work'[w] = Resting /\ Rest(w) /\ UNCHANGED <<queue, done>>
              \/ work'[w] = Resting /\ Ack(w)
              \/ /\ work'[w] \in Handling /\ work'[w].job = l.job
                 /\ UNCHANGED <<queue, done, holder>>
                 /\ work'[w].stage # "parse" /\ l.stage # "ack"
                 /\ l.stage = "parse" => /\ l.job \notin Unparsable \ Unknown
                                         /\ l.job \in Unknown => work'[w].stage = "ack"
<1> DEFINE l == work[w]
<1>1. /\ l \in Handling /\ Placed(l) /\ Working(w)
      /\ \A st \in Stages : At(w, st) => l.stage = st
  <2>1. PICK st \in Stages : At(w, st)
    BY DEF Handle, Parse, FindAsset, SaveAsset, Announce, Check, AddFinding, Flush, Report,
           Publish, Ack, Stages
  <2> QED
    BY <2>1, SaysOf
<1>2. /\ losses' = losses \/ losses' = losses + 1
      /\ errors' = errors \/ errors' = errors + 1
  BY DEF Handle, Parse, FindAsset, SaveAsset, Announce, Check, AddFinding, Flush, Report,
         Publish, Ack, Fails, Breaks, faults
<1>a. (losses' = 0 => losses = 0) /\ (errors' = 0 => errors = 0)
  BY <1>2 DEF TypeInv, TypeOK
<1>3. ASSUME NEW m, GoOn(w, m)
      PROVE  work'[w] = m /\ \A v \in Workers \ {w} : work'[v] = work[v]
  BY <1>3 DEF GoOn, TypeInv, TypeOK
<1>4. CASE Ack(w)
  BY <1>1, <1>a, <1>3, <1>4 DEF Ack
<1>b. ASSUME Rest(w)
      PROVE  work'[w] = Resting /\ \A v \in Workers \ {w} : work'[v] = work[v]
  BY <1>3, <1>b DEF Rest
<1>6. ASSUME NEW m, GoOn(w, m), m \in Handling, m.job = l.job, m.stage # "parse",
             UNCHANGED <<queue, done, holder>>, l.stage \notin {"parse", "ack"}
      PROVE  /\ work'[w] \in Handling /\ work'[w].job = l.job
             /\ UNCHANGED <<queue, done, holder>>
             /\ work'[w].stage # "parse" /\ l.stage \notin {"parse", "ack"}
             /\ \A v \in Workers \ {w} : work'[v] = work[v]
  BY <1>3, <1>6
<1>c. ASSUME NEW m, Abandoned(w, m), UNCHANGED <<queue, done>>, l.stage \notin {"parse", "ack"}
      PROVE  /\ work'[w] \in Handling /\ work'[w].job = l.job
             /\ UNCHANGED <<queue, done, holder>>
             /\ work'[w].stage # "parse" /\ l.stage \notin {"parse", "ack"}
             /\ \A v \in Workers \ {w} : work'[v] = work[v]
  BY <1>6, <1>c DEF Abandoned, Turned
<1>5. CASE Parse(w)
  <2>1. UNCHANGED <<queue, done>> /\ l.stage = "parse"
    BY <1>1, <1>5 DEF Parse, Stages
  <2>2. CASE Rest(w)
    BY <1>1, <1>a, <1>b, <2>1, <2>2
  <2>3. ASSUME NEW m, UNCHANGED holder, GoOn(w, m), Same(l, m),
               \/ m.stage = "ack" /\ m.job \in Unknown
               \/ Turned(m) /\ m.job \notin Unknown \cup Unparsable
        PROVE  /\ work'[w] = m /\ m \in Handling /\ m.job = l.job /\ m.stage # "parse"
               /\ l.job \notin Unparsable \ Unknown
               /\ l.job \in Unknown => m.stage = "ack"
               /\ \A v \in Workers \ {w} : work'[v] = work[v]
    BY <1>3, <2>3 DEF Same, Turned
  <2> QED
    BY <1>1, <1>a, <1>5, <2>1, <2>2, <2>3, ParseIs
<1>7. CASE FindAsset(w)
  <2>1. l.stage = "find" /\ UNCHANGED <<queue, done>>
    BY <1>1, <1>7 DEF FindAsset, Stages
  <2>2. CASE Rest(w)
    BY <1>1, <1>a, <1>b, <2>1, <2>2
  <2>3. ASSUME NEW m, GoOn(w, m), UNCHANGED holder, Same(l, m), m.stage = "save"
        PROVE  /\ work'[w] \in Handling /\ work'[w].job = l.job
               /\ UNCHANGED <<queue, done, holder>>
               /\ work'[w].stage # "parse" /\ l.stage \notin {"parse", "ack"}
               /\ \A v \in Workers \ {w} : work'[v] = work[v]
    BY <1>6, <2>1, <2>3 DEF Same
  <2> QED
    BY <1>1, <1>a, <1>c, <1>7, <2>1, <2>2, <2>3, FindAssetIs
<1>8. CASE SaveAsset(w)
  <2>1. l.stage = "save" /\ UNCHANGED <<queue, done>>
    BY <1>1, <1>8 DEF SaveAsset, Stages
  <2>2. CASE Rest(w)
    BY <1>1, <1>a, <1>b, <2>1, <2>2
  <2>3. ASSUME NEW m \in Handling, GoOn(w, m), UNCHANGED holder, m.job = l.job,
               m.stage = "check" \/ Turned(m)
        PROVE  /\ work'[w] \in Handling /\ work'[w].job = l.job
               /\ UNCHANGED <<queue, done, holder>>
               /\ work'[w].stage # "parse" /\ l.stage \notin {"parse", "ack"}
               /\ \A v \in Workers \ {w} : work'[v] = work[v]
    BY <1>6, <2>1, <2>3 DEF Turned
  <2> QED
    BY <1>1, <1>a, <1>c, <1>8, <2>1, <2>2, <2>3, SaveAssetIs
<1>9. CASE Announce(w) \/ Check(w) \/ Report(w)
  <2>1. l.stage \in {"announce", "check", "report"} /\ UNCHANGED <<queue, done>>
    BY <1>1, <1>9 DEF Announce, Check, Report, Stages
  <2>2. CASE Rest(w)
    BY <1>1, <1>a, <1>b, <2>1, <2>2
  <2>3. ASSUME NEW m \in Handling, GoOn(w, m), UNCHANGED holder, m.job = l.job,
               m.stage \in {"add", "publish"} \/ Turned(m)
        PROVE  /\ work'[w] \in Handling /\ work'[w].job = l.job
               /\ UNCHANGED <<queue, done, holder>>
               /\ work'[w].stage # "parse" /\ l.stage \notin {"parse", "ack"}
               /\ \A v \in Workers \ {w} : work'[v] = work[v]
    BY <1>6, <2>1, <2>3 DEF Turned
  <2>4. \/ Rest(w)
        \/ \E m \in Handling : /\ GoOn(w, m) /\ UNCHANGED holder /\ m.job = l.job
                               /\ m.stage \in {"add", "publish"} \/ Turned(m)
    <3>1. CASE Announce(w)
      BY <3>1, AnnounceIs
    <3>2. CASE Check(w)
      BY <3>2, CheckIs DEF Same
    <3>3. CASE Report(w)
      BY <3>3, ReportIs DEF Same
    <3> QED
      BY <1>9, <3>1, <3>2, <3>3
  <2> QED
    BY <1>1, <1>a, <2>1, <2>2, <2>3, <2>4
<1>10. CASE AddFinding(w)
  <2>1. PICK m \in Handling : GoOn(w, m) /\ Turned(m) /\ m.job = l.job
    BY <1>10, AddFindingIs
  <2>2. l.stage = "add" /\ UNCHANGED broker
    BY <1>1, <1>10 DEF AddFinding, Stages
  <2> QED
    BY <1>1, <1>a, <1>6, <2>1, <2>2 DEF broker, Turned
<1>11. CASE Flush(w)
  <2>1. PICK m \in Handling : GoOn(w, m) /\ m.job = l.job /\ m.stage = "report"
    BY <1>11, FlushIs
  <2>2. l.stage = "flush" /\ UNCHANGED <<queue, done, holder>>
    BY <1>1, <1>11 DEF Flush, Stages
  <2> QED
    BY <1>1, <1>a, <1>6, <2>1, <2>2
<1>12. CASE Publish(w)
  <2>1. l.stage = "publish" /\ UNCHANGED <<queue, done>>
    BY <1>1, <1>12 DEF Publish, Stages
  <2>2. CASE Rest(w)
    BY <1>1, <1>a, <1>b, <2>1, <2>2
  <2>3. ASSUME NEW m, UNCHANGED holder, GoOn(w, m), Same(l, m), m.stage = "ack"
        PROVE  /\ work'[w] \in Handling /\ work'[w].job = l.job
               /\ UNCHANGED <<queue, done, holder>>
               /\ work'[w].stage # "parse" /\ l.stage \notin {"parse", "ack"}
               /\ \A v \in Workers \ {w} : work'[v] = work[v]
    BY <1>6, <2>1, <2>3 DEF Same
  <2> QED
    BY <1>1, <1>a, <1>12, <2>1, <2>2, <2>3, PublishIs
<1> QED
  BY <1>4, <1>5, <1>7, <1>8, <1>9, <1>10, <1>11, <1>12 DEF Handle

\* What the step of a handler gives up belongs to its job, and only the handler
\* that the broker knows of counts.
LEMMA HandleDrops ==
    ASSUME TypeInv, NEW w \in Workers, Handle(w)
    PROVE  \/ UNCHANGED dropped
           \/ \E part \in Parts : GiveUp(w, part)
<1>1. Abandon(w) => UNCHANGED dropped \/ GiveUp(w, "assets")
  BY DEF Abandon, Rest
<1> QED
  BY <1>1 DEF Handle, Parse, FindAsset, SaveAsset, Announce, Check, AddFinding, Flush, Report,
              Publish, Ack, Rest, broker

LEMMA DeliverIs ==
    ASSUME TypeInv, NEW w \in Workers, Deliver(w)
    PROVE  /\ queue # <<>> /\ Head(queue) \in Jobs /\ holder = None /\ work[w] = Resting
           /\ work'[w] \in Handling /\ work'[w] = Begun(Head(queue))
           /\ work'[w].stage = "parse" /\ work'[w].job = Head(queue) /\ work'[w].phase = "assets"
           /\ work'[w].created = 0 /\ work'[w].added = 0 /\ work'[w].pending = <<>>
           /\ work'[w].i = 1
           /\ \A v \in Workers \ {w} : work'[v] = work[v]
<1>1. Head(queue) \in Jobs
  BY HeadTailProperties DEF Deliver, TypeInv, TypeOK
<1>2. PICK m : m = Begun(Head(queue))
  OBVIOUS
<1>3. /\ m \in Handling /\ m.stage = "parse" /\ m.job = Head(queue) /\ m.phase = "assets"
      /\ m.created = 0 /\ m.added = 0 /\ m.pending = <<>> /\ m.i = 1
  BY <1>1, <1>2, EmptySeq DEF Begun, Handling, Stages
<1>4. work'[w] = m /\ \A v \in Workers \ {w} : work'[v] = work[v]
  BY <1>2 DEF Deliver, GoOn, TypeInv, TypeOK
<1> QED
  BY <1>1, <1>2, <1>3, <1>4 DEF Deliver

LEMMA InitQueue == Init => QueueInv
BY DEF Init, QueueInv

\* What the head of the queue is, and is not.
LEMMA HeadIs ==
    ASSUME TypeInv, QueueInv, queue # <<>>
    PROVE  /\ Head(queue) \in Jobs \ done
           /\ Tail(queue) \in Seq(Jobs)
           /\ \A n \in DOMAIN Tail(queue) :
                 n + 1 \in DOMAIN queue /\ Tail(queue)[n] = queue[n + 1]
                 /\ Tail(queue)[n] # Head(queue)
<1>1. queue \in Seq(Jobs)
  BY DEF TypeInv, TypeOK
<1>2. /\ Tail(queue) \in Seq(Jobs) /\ Len(Tail(queue)) = Len(queue) - 1
      /\ \A n \in 1..Len(Tail(queue)) : Tail(queue)[n] = queue[n + 1]
      /\ Len(queue) \in Nat \ {0} /\ DOMAIN queue = 1..Len(queue)
      /\ DOMAIN Tail(queue) = 1..Len(Tail(queue)) /\ Head(queue) = queue[1]
  BY <1>1, HeadTailProperties
<1>3. 1 \in DOMAIN queue
  BY <1>2
<1>4. ASSUME NEW n \in DOMAIN Tail(queue) PROVE n + 1 \in DOMAIN queue /\ n + 1 # 1
  BY <1>2
<1> QED
  BY <1>1, <1>2, <1>3, <1>4 DEF QueueInv

LEMMA StepQueue == TypeInv /\ QueueInv /\ [Next]_vars => QueueInv'
<1> SUFFICES ASSUME TypeInv, QueueInv, [Next]_vars PROVE QueueInv'
  OBVIOUS
<1>1. UNCHANGED <<queue, done>> => QueueInv'
  BY DEF QueueInv
<1>2. ASSUME NEW j \in Jobs, Upload(j) PROVE QueueInv'
  <2>1. queue \in Seq(Jobs) /\ queue' = Append(queue, j) /\ done' = done
        /\ j \notin done /\ \A n \in DOMAIN queue : queue[n] # j
    BY <1>2 DEF Upload, TypeInv, TypeOK
  <2>2. /\ Len(queue') = Len(queue) + 1 /\ queue'[Len(queue) + 1] = j
        /\ \A n \in 1..Len(queue) : queue'[n] = queue[n]
        /\ Len(queue) \in Nat /\ DOMAIN queue = 1..Len(queue)
        /\ DOMAIN queue' = 1..(Len(queue) + 1)
    BY <2>1, AppendProperties
  <2>3. \A n \in DOMAIN queue' : \/ n \in DOMAIN queue /\ queue'[n] = queue[n]
                                 \/ n = Len(queue) + 1 /\ queue'[n] = j
    BY <2>2
  <2> QED
    BY <2>1, <2>3 DEF QueueInv
<1>3. ASSUME NEW w \in Workers, Ack(w) PROVE QueueInv'
  <2>1. CASE holder # w
    BY <1>1, <1>3, <2>1 DEF Ack
  <2>2. CASE holder = w
    <3>1. /\ queue # <<>> /\ queue' = Tail(queue) /\ done' = done \cup {Head(queue)}
      BY <1>3, <2>2, ResultsAssumption DEF Ack, TypeInv, TypeOK
    <3>2. \A n \in DOMAIN queue' : n \in Nat /\ n + 1 \in DOMAIN queue
                                   /\ queue'[n] = queue[n + 1] /\ queue'[n] # Head(queue)
      BY <3>1, HeadIs
    <3>3. ASSUME NEW m \in DOMAIN queue', NEW n \in DOMAIN queue', queue'[m] = queue'[n]
          PROVE  m = n
      <4>1. m + 1 = n + 1
        BY <3>2, <3>3 DEF QueueInv
      <4> QED
        BY <3>2, <4>1
    <3> QED
      BY <3>1, <3>2, <3>3 DEF QueueInv
  <2> QED
    BY <2>1, <2>2
<1>4. ASSUME NEW w \in Workers, Handle(w) PROVE QueueInv'
  BY <1>1, <1>3, <1>4, HandleMoves
<1> QED
  BY <1>1, <1>2, <1>4
  DEF Next, Deliver, CloseFinding, ReopenFinding, CreateFinding, CreateAsset, DeleteProject,
      Stop, Exit, Lose, vars, broker

LEMMA QueueHolds == Spec => []QueueInv
BY TypesHold, InitQueue, StepQueue, PTL DEF Spec

LEMMA InitWork == Init => WorkInv
BY DEF Init, WorkInv, Working

LEMMA StepWork == TypeInv /\ WorkInv /\ [Next]_vars => WorkInv'
<1> SUFFICES ASSUME TypeInv, WorkInv, [Next]_vars PROVE WorkInv'
  OBVIOUS
<1> USE DEF WorkInv, Working, HeadOrDone, Alone, Sifted
<1>1. ASSUME NEW j \in Jobs, Upload(j) PROVE WorkInv'
  <2>1. queue # <<>> => queue' # <<>> /\ Head(queue') = Head(queue)
    <3>1. queue \in Seq(Jobs) /\ queue' = Append(queue, j)
      BY <1>1 DEF Upload, TypeInv, TypeOK
    <3>2. Len(queue') = Len(queue) + 1 /\ \A n \in 1..Len(queue) : queue'[n] = queue[n]
      BY <3>1, AppendProperties
    <3>3. queue' \in Seq(Jobs)
      BY <3>1, AppendProperties
    <3> QED
      BY <3>1, <3>2, <3>3
  <2> QED
    BY <1>1, <2>1 DEF Upload, faults
<1>2. ASSUME NEW w \in Workers, Deliver(w) PROVE WorkInv'
  <2>1. \A v \in Workers : Working(v) => losses # 0
    BY <1>2, ResultsAssumption DEF Deliver
  <2> QED
    BY <1>2, <2>1, DeliverIs DEF Deliver, faults
<1>3. ASSUME NEW w \in Workers, Handle(w) PROVE WorkInv'
  <2> DEFINE l == work[w]
  <2>1. /\ l \in Handling /\ Working(w) /\ (losses' = 0 => losses = 0)
        /\ \A v \in Workers \ {w} : work'[v] = work[v]
    BY <1>3, HandleMoves
  <2>2. \A v \in Workers : Working(v) /\ losses = 0 => v = w
    BY <2>1
  <2>3. CASE work'[w] = Resting /\ Rest(w) /\ UNCHANGED <<queue, done>>
    BY <2>1, <2>2, <2>3 DEF Rest, Free
  <2>4. CASE work'[w] = Resting /\ Ack(w)
    <3>1. CASE holder = w
      <4>1. done' = done \cup {l.job} /\ l.job = Head(queue)
        BY <2>4, <3>1, ResultsAssumption DEF Ack, TypeInv, TypeOK
      <4> QED
        BY <2>1, <2>2, <2>4, <4>1
    <3>2. CASE holder # w
      BY <2>1, <2>2, <2>4, <3>2 DEF Ack, Free
    <3> QED
      BY <3>1, <3>2
  <2>5. CASE /\ work'[w] \in Handling /\ work'[w].job = l.job
             /\ UNCHANGED <<queue, done, holder>>
             /\ work'[w].stage # "parse" /\ l.stage # "ack"
             /\ l.stage = "parse" => /\ l.job \notin Unparsable \ Unknown
                                     /\ l.job \in Unknown => work'[w].stage = "ack"
    BY <2>1, <2>2, <2>5
  <2> QED
    BY <1>3, <2>3, <2>4, <2>5, HandleMoves
<1>4. CASE \/ \E k \in Keys : CloseFinding(k) \/ ReopenFinding(k) \/ CreateFinding(k)
           \/ \E a \in Assets : CreateAsset(a)
           \/ DeleteProject \/ Stop \/ UNCHANGED vars
  BY <1>4 DEF CloseFinding, ReopenFinding, CreateFinding, CreateAsset, DeleteProject, Stop,
              vars, broker, faults
<1>5. CASE Exit
  BY <1>5 DEF Exit
<1>6. CASE Lose
  BY <1>6 DEF Lose, TypeInv, TypeOK
<1> QED
  BY <1>1, <1>2, <1>3, <1>4, <1>5, <1>6 DEF Next

LEMMA WorkHolds == Spec => []WorkInv
BY TypesHold, InitWork, StepWork, PTL DEF Spec

-------------------------------------------------------------------------------
(* Open findings are not added again.                                      *)

\* How often an output lists a finding before the item at i.
Before(s, i, k) == Cardinality({n \in DOMAIN s : n < i /\ s[n] = k})

\* What a handler adds was not open, and it adds nothing more often than the
\* output lists it.
PendingFits(l) ==
    \A k \in Keys \ opened :
        /\ (\E n \in DOMAIN l.pending : l.pending[n] = k) => rows[k].open = 0
        /\ l.stage = "add" /\ Findings[l.job][l.i] = k => rows[k].open = 0
        /\ Times(l.pending, k) =< Before(Findings[l.job], l.i, k)

Listed(k) == \E j \in Jobs : rows[k].open =< Times(Findings[j], k)

FreshInv ==
    losses = 0 => /\ \A k \in Keys \ opened : rows[k].open > 0 => Listed(k)
                  /\ \A w \in Workers : Working(w) => PendingFits(work[w])

LEMMA InitFresh == Init => FreshInv
BY DEF Init, FreshInv, Working

LEMMA BeforeIs ==
    ASSUME NEW s \in Seq(Keys), NEW i \in Nat, NEW k
    PROVE  /\ Before(s, i, k) \in Nat /\ Before(s, i + 1, k) \in Nat
           /\ Before(s, i, k) =< Times(s, k)
           /\ Before(s, i, k) =< Before(s, i + 1, k)
           /\ i \in DOMAIN s /\ s[i] = k => Before(s, i + 1, k) = Before(s, i, k) + 1
<1> DEFINE S == {n \in DOMAIN s : n < i /\ s[n] = k}
           T == {n \in DOMAIN s : n < i + 1 /\ s[n] = k}
           U == {n \in DOMAIN s : s[n] = k}
<1>1. IsFiniteSet(DOMAIN s)
  BY FS_Interval
<1>2. S \subseteq DOMAIN s /\ T \subseteq DOMAIN s /\ U \subseteq DOMAIN s
  OBVIOUS
<1>3. S \subseteq U /\ S \subseteq T
  OBVIOUS
<1>4. i \in DOMAIN s /\ s[i] = k => T = S \cup {i} /\ i \notin S
  OBVIOUS
<1>5. Before(s, i, k) = Cardinality(S) /\ Before(s, i + 1, k) = Cardinality(T)
      /\ Times(s, k) = Cardinality(U)
  BY DEF Before, Times
<1> HIDE DEF S, T, U
<1>6. IsFiniteSet(S) /\ IsFiniteSet(T) /\ IsFiniteSet(U)
  BY <1>1, <1>2, FS_Subset
<1>7. Cardinality(S) \in Nat /\ Cardinality(T) \in Nat
      /\ Cardinality(S) =< Cardinality(U) /\ Cardinality(S) =< Cardinality(T)
  BY <1>3, <1>6, FS_Subset, FS_CardinalityType
<1>8. i \in DOMAIN s /\ s[i] = k => Cardinality(T) = Cardinality(S) + 1
  BY <1>4, <1>6, FS_AddElement
<1> QED
  BY <1>5, <1>7, <1>8

LEMMA TimesAppended ==
    ASSUME NEW s \in Seq(Keys), NEW x \in Keys, NEW k
    PROVE  /\ Times(Append(s, x), k) = IF x = k THEN Times(s, k) + 1 ELSE Times(s, k)
           /\ \A n \in DOMAIN Append(s, x) :
                 Append(s, x)[n] = x \/ (n \in DOMAIN s /\ Append(s, x)[n] = s[n])
<1> DEFINE t == Append(s, x)
           S == {n \in DOMAIN s : s[n] = k}
           T == {n \in DOMAIN t : t[n] = k}
<1>1. /\ t \in Seq(Keys) /\ Len(t) = Len(s) + 1 /\ t[Len(s) + 1] = x
      /\ \A n \in 1..Len(s) : t[n] = s[n]
      /\ DOMAIN s = 1..Len(s) /\ Len(s) \in Nat /\ DOMAIN t = 1..(Len(s) + 1)
  BY AppendProperties
<1> HIDE DEF t
<1>2. IsFiniteSet(S)
  <2>1. IsFiniteSet(DOMAIN s) /\ S \subseteq DOMAIN s
    BY <1>1, FS_Interval
  <2> HIDE DEF S
  <2> QED
    BY <2>1, FS_Subset
<1>3. Len(s) + 1 \notin S
  BY <1>1
<1>4. x = k => T = S \cup {Len(s) + 1}
  BY <1>1
<1>5. x # k => T = S
  BY <1>1
<1>6. Times(t, k) = Cardinality(T) /\ Times(s, k) = Cardinality(S)
  BY DEF Times
<1>7. \A n \in DOMAIN t : t[n] = x \/ (n \in DOMAIN s /\ t[n] = s[n])
  BY <1>1
<1> HIDE DEF S, T
<1>8. Cardinality(S \cup {Len(s) + 1}) = Cardinality(S) + 1
  BY <1>2, <1>3, FS_AddElement
<1> QED
  BY <1>4, <1>5, <1>6, <1>7, <1>8 DEF t

\* A transaction inserts a finding as often as the output lists it, where there
\* was none, or not at all.
LEMMA InsertsFresh ==
    ASSUME TypeInv, \A k \in Keys \ opened : rows[k].open > 0 => Listed(k),
           NEW l \in Handling, PendingFits(l), rows' = Inserted(l.pending), opened' = opened
    PROVE  \A k \in Keys \ opened' : rows'[k].open > 0 => Listed(k)'
<1> DEFINE s == l.pending
           f == Findings[l.job]
<1>1. s \in Seq(Keys) /\ f \in Seq(Keys) /\ l.i \in Nat /\ l.job \in Jobs
  BY ItemTypes DEF Handling
<1>2. ASSUME NEW k \in Keys \ opened, rows'[k].open > 0
      PROVE  \E j \in Jobs : rows'[k].open =< Times(Findings[j], k)
  <2>1. /\ rows'[k].open = rows[k].open + Times(s, k) /\ Times(s, k) \in Nat
        /\ rows[k].open \in Nat
    BY <1>1, InsertedIs, TimesIs DEF TypeInv, TypeOK
  <2>2. CASE \A n \in DOMAIN s : s[n] # k
    <3>1. Times(s, k) = 0
      BY <1>1, <2>2, TimesIs
    <3>2. rows'[k].open = rows[k].open
      BY <2>1, <3>1
    <3> QED
      BY <1>2, <3>2 DEF Listed
  <2>3. CASE \E n \in DOMAIN s : s[n] = k
    <3>1. rows[k].open = 0 /\ Times(s, k) =< Before(f, l.i, k)
      BY <2>3 DEF PendingFits
    <3>2. Before(f, l.i, k) =< Times(f, k) /\ Before(f, l.i, k) \in Nat /\ Times(f, k) \in Nat
      BY <1>1, BeforeIs, TimesIs
    <3>3. rows'[k].open =< Times(f, k)
      BY <2>1, <3>1, <3>2
    <3> QED
      BY <1>1, <3>3
  <2> QED
    BY <2>2, <2>3
<1> QED
  BY <1>2 DEF Listed

\* A finding that is added is listed once more, and not open.
LEMMA AddsFresh ==
    ASSUME NEW l \in Handling, PendingFits(l), l.stage = "add",
           l.phase = "findings", l.i =< Len(Items(l)),
           NEW m \in Handling, m.job = l.job, m.i = l.i + 1, m.stage # "add",
           m.pending = Append(l.pending, Findings[l.job][l.i])
    PROVE  PendingFits(m)
<1> DEFINE f == Findings[l.job]
           x == f[l.i]
           s == l.pending
<1>1. /\ s \in Seq(Keys) /\ f \in Seq(Keys) /\ l.i \in Nat
      /\ l.i \in DOMAIN f /\ x \in Keys
  BY ItemTypes DEF Handling
<1>2. ASSUME NEW k \in Keys \ opened
      PROVE  /\ (\E n \in DOMAIN m.pending : m.pending[n] = k) => rows[k].open = 0
             /\ Times(m.pending, k) =< Before(f, m.i, k)
  <2>1. /\ Before(f, l.i, k) \in Nat /\ Before(f, m.i, k) \in Nat /\ Times(s, k) \in Nat
        /\ Before(f, l.i, k) =< Before(f, m.i, k)
        /\ x = k => Before(f, m.i, k) = Before(f, l.i, k) + 1
    BY <1>1, BeforeIs, TimesIs
  <2>2. Times(s, k) =< Before(f, l.i, k)
    BY DEF PendingFits
  <2>3. Times(m.pending, k) = IF x = k THEN Times(s, k) + 1 ELSE Times(s, k)
    BY <1>1, TimesAppended
  <2>4. Times(m.pending, k) =< Before(f, m.i, k)
    BY <2>1, <2>2, <2>3
  <2>5. ASSUME NEW n \in DOMAIN m.pending, m.pending[n] = k PROVE rows[k].open = 0
    <3>1. k = x \/ (n \in DOMAIN s /\ s[n] = k)
      BY <1>1, <2>5, TimesAppended
    <3> QED
      BY <3>1 DEF PendingFits
  <2> QED
    BY <2>4, <2>5
<1> QED
  BY <1>2 DEF PendingFits

\* A handler with nothing in its context, and one that goes on to a later item.
LEMMA EmptyFits ==
    ASSUME NEW m \in Handling, m.pending = <<>>, m.stage # "add"
    PROVE  PendingFits(m)'
<1>1. Findings[m.job] \in Seq(Keys) /\ m.i \in Nat
  BY ItemTypes DEF Handling
<1>2. m.pending \in Seq(Keys) /\ DOMAIN m.pending = {}
  BY EmptySeq
<1>3. ASSUME NEW k PROVE Times(m.pending, k) =< Before(Findings[m.job], m.i, k)
  <2>1. Times(m.pending, k) = 0
    BY <1>2, TimesIs
  <2>2. Before(Findings[m.job], m.i, k) \in Nat
    BY <1>1, BeforeIs
  <2> QED
    BY <2>1, <2>2
<1> QED
  BY <1>2, <1>3 DEF PendingFits, Before, Times

LEMMA LaterFits ==
    ASSUME NEW l \in Handling, PendingFits(l), UNCHANGED <<rows, opened>>,
           NEW m, m.job = l.job, m.pending = l.pending, m.i = l.i \/ m.i = l.i + 1,
           m.stage = "add" => rows[Findings[m.job][m.i]].open = 0
    PROVE  PendingFits(m)'
<1> DEFINE f == Findings[l.job]
<1>1. f \in Seq(Keys) /\ l.i \in Nat /\ l.pending \in Seq(Keys)
  BY ItemTypes DEF Handling
<1>2. ASSUME NEW k \in Keys \ opened PROVE Times(l.pending, k) =< Before(f, m.i, k)
  <2>1. /\ Before(f, l.i, k) \in Nat /\ Before(f, l.i + 1, k) \in Nat /\ Times(l.pending, k) \in Nat
        /\ Before(f, l.i, k) =< Before(f, l.i + 1, k)
    BY <1>1, BeforeIs, TimesIs
  <2>2. Times(l.pending, k) =< Before(f, l.i, k)
    BY DEF PendingFits
  <2> QED
    BY <2>1, <2>2
<1> QED
  BY <1>2 DEF PendingFits, Before, Times

LEMMA AllFit ==
    ASSUME losses' = 0 => \A k \in Keys \ opened' : rows'[k].open > 0 => Listed(k)',
           losses' = 0 => \A v \in Workers : \A o : o = work'[v] /\ o # Resting => PendingFits(o)'
    PROVE  FreshInv'
BY DEF FreshInv, Working, PendingFits

LEMMA HandleFresh ==
    ASSUME TypeInv, WorkInv, FreshInv, NEW w \in Workers, Handle(w)
    PROVE  FreshInv'
<1> SUFFICES ASSUME losses' = 0 PROVE FreshInv'
  BY DEF FreshInv
<1> DEFINE l == work[w]
<1>1. /\ l \in Handling /\ Placed(l) /\ Working(w) /\ losses = 0
      /\ \A v \in Workers \ {w} : work'[v] = work[v]
  BY HandleMoves
<1>2. \A v \in Workers \ {w} : work'[v] = Resting
  BY <1>1 DEF WorkInv, Alone, Working
<1>3. PendingFits(l) /\ \A k \in Keys \ opened : rows[k].open > 0 => Listed(k)
  BY <1>1 DEF FreshInv
<1>4. ASSUME NEW m, GoOn(w, m)
      PROVE  work'[w] = m
  BY <1>4 DEF GoOn, TypeInv, TypeOK
<1>5. ASSUME \A k \in Keys \ opened' : rows'[k].open > 0 => Listed(k)',
             NEW m, work'[w] = m, m # Resting => PendingFits(m)'
      PROVE  FreshInv'
  BY <1>2, <1>5 DEF FreshInv, Working, PendingFits
<1>6. rows' = rows /\ opened' = opened => \A k \in Keys \ opened' : rows'[k].open > 0 => Listed(k)'
  BY <1>3 DEF Listed
<1>o. opened' = opened
  BY DEF Handle, Parse, FindAsset, SaveAsset, Announce, Check, AddFinding, Flush, Report,
         Publish, Ack, users
<1>7. ASSUME Rest(w), rows' = rows PROVE FreshInv'
  BY <1>4, <1>5, <1>6, <1>7, <1>o DEF Rest
<1>8. CASE SaveAsset(w)
  <2>1. rows' = rows \/ rows' = Inserted(l.pending)
    BY <1>8 DEF SaveAsset, Saves, store
  <2>2. \A k \in Keys \ opened' : rows'[k].open > 0 => Listed(k)'
    BY <1>1, <1>3, <1>6, <1>o, <2>1, InsertsFresh
  <2>3. work'[w] = Resting \/ (work'[w] \in Handling /\ work'[w].pending = <<>>
                               /\ work'[w].stage # "add")
    BY <1>4, <1>8, SaveAssetIs DEF Turned, Abandoned, Rest
  <2> QED
    BY <1>5, <2>2, <2>3, EmptyFits
<1>9. CASE Flush(w)
  <2>1. rows' = rows \/ rows' = Inserted(l.pending)
    BY <1>9, FlushIs
  <2>2. \A k \in Keys \ opened' : rows'[k].open > 0 => Listed(k)'
    BY <1>1, <1>3, <1>6, <1>o, <2>1, InsertsFresh
  <2>3. PICK m \in Handling : GoOn(w, m) /\ m.pending = <<>> /\ m.stage = "report"
    BY <1>9, FlushIs
  <2> QED
    BY <1>4, <1>5, <2>2, <2>3, EmptyFits
<1>10. CASE Parse(w) \/ Announce(w) \/ Report(w) \/ Publish(w)
  <2>1. rows' = rows /\ l.pending = <<>>
    BY <1>1, <1>10 DEF Parse, Announce, Report, Publish, store, At, Placed
  <2>2. Rest(w) \/ \E m \in Handling : GoOn(w, m) /\ m.pending = <<>> /\ m.stage # "add"
    <3>1. CASE Parse(w)
      BY <2>1, <3>1, ParseIs DEF Turned, Same
    <3>2. CASE Announce(w)
      BY <2>1, <3>2, AnnounceIs DEF Turned
    <3>3. CASE Report(w)
      BY <2>1, <3>3, ReportIs DEF Same
    <3>4. CASE Publish(w)
      BY <2>1, <3>4, PublishIs DEF Same
    <3> QED
      BY <1>10, <3>1, <3>2, <3>3, <3>4
  <2>3. ASSUME NEW m \in Handling, GoOn(w, m), m.pending = <<>>, m.stage # "add" PROVE FreshInv'
    BY <1>4, <1>5, <1>6, <1>o, <2>1, <2>3, EmptyFits
  <2> QED
    BY <1>7, <2>1, <2>2, <2>3
<1>11. CASE FindAsset(w)
  <2>1. rows' = rows
    BY <1>11 DEF FindAsset, store
  <2>2. ASSUME NEW m, GoOn(w, m), Same(l, m), m.stage = "save" PROVE FreshInv'
    <3>1. PendingFits(m)'
      BY <1>1, <1>3, <1>o, <2>1, <2>2, LaterFits DEF Same
    <3> QED
      BY <1>4, <1>5, <1>6, <1>o, <2>1, <2>2, <3>1
  <2>3. ASSUME NEW m, Abandoned(w, m) PROVE FreshInv'
    <3>1. PendingFits(m)'
      BY <2>3, EmptyFits DEF Abandoned, Turned
    <3> QED
      BY <1>4, <1>5, <1>6, <1>o, <2>1, <2>3, <3>1 DEF Abandoned
  <2> QED
    BY <1>7, <1>11, <2>1, <2>2, <2>3, FindAssetIs
<1>12. CASE Check(w)
  <2>1. rows' = rows
    BY <1>12 DEF Check, store
  <2>2. \/ Rest(w)
        \/ \E m : /\ GoOn(w, m) /\ m.job = l.job /\ m.pending = l.pending
                  /\ \/ m.stage = "add" /\ m.i = l.i /\ rows[Findings[l.job][l.i]].open = 0
                     \/ m.stage # "add" /\ m.i = l.i + 1
    BY <1>12, CheckIs DEF Same, Turned
  <2>3. ASSUME NEW m, GoOn(w, m), m.job = l.job, m.pending = l.pending,
               \/ m.stage = "add" /\ m.i = l.i /\ rows[Findings[l.job][l.i]].open = 0
               \/ m.stage # "add" /\ m.i = l.i + 1
        PROVE  FreshInv'
    <3>1. PendingFits(m)'
      BY <1>1, <1>3, <1>o, <2>1, <2>3, LaterFits
    <3> QED
      BY <1>4, <1>5, <1>6, <1>o, <2>1, <2>3, <3>1
  <2> QED
    BY <1>7, <2>1, <2>2, <2>3
<1>13. CASE AddFinding(w)
  <2>1. rows' = rows /\ l.stage = "add" /\ l.phase = "findings" /\ l.i =< Len(Items(l))
    BY <1>1, <1>13 DEF AddFinding, store, At, Placed
  <2>2. PICK m \in Handling : /\ GoOn(w, m) /\ Turned(m) /\ m.job = l.job /\ m.i = l.i + 1
                              /\ m.pending = Append(l.pending, Findings[l.job][l.i])
    BY <1>13, AddFindingIs
  <2>3. PendingFits(m)
    BY <1>1, <1>3, <2>1, <2>2, AddsFresh DEF Turned
  <2>4. PendingFits(m)'
    BY <1>o, <2>1, <2>3 DEF PendingFits
  <2> QED
    BY <1>4, <1>5, <1>6, <1>o, <2>1, <2>2, <2>4
<1>14. CASE Ack(w)
  <2>1. GoOn(w, Resting) /\ rows' = rows
    BY <1>14 DEF Ack, store
  <2> QED
    BY <1>4, <1>5, <1>6, <1>o, <2>1
<1> QED
  BY <1>8, <1>9, <1>10, <1>11, <1>12, <1>13, <1>14 DEF Handle

\* Users make open findings fewer, except those they open.
LEMMA FewerFresh ==
    ASSUME TypeInv, FreshInv, UNCHANGED <<work, losses>>, opened \subseteq opened',
           \A k \in Keys \ opened' : rows'[k].open =< rows[k].open /\ rows'[k].open \in Nat
    PROVE  FreshInv'
<1>1. \A k \in Keys : rows[k].open \in Nat
  BY DEF TypeInv, TypeOK
<1>2. ASSUME NEW k \in Keys \ opened'
      PROVE  /\ rows[k].open = 0 => rows'[k].open = 0
             /\ rows'[k].open > 0 => rows[k].open > 0
  BY <1>1
<1>3. ASSUME NEW w \in Workers, Working(w), PendingFits(work[w])
      PROVE  PendingFits(work[w])'
  BY <1>2, <1>3 DEF PendingFits
<1>4. ASSUME NEW k \in Keys \ opened', NEW j \in Jobs, rows[k].open =< Times(Findings[j], k)
      PROVE  rows'[k].open =< Times(Findings[j], k)
  <2>1. Findings[j] \in Seq(Keys)
    BY ResultsAssumption DEF Keys
  <2>2. Times(Findings[j], k) \in Nat
    BY <2>1, TimesIs
  <2> QED
    BY <1>1, <1>4, <2>2
<1>5. \A k \in Keys \ opened' : Listed(k) => Listed(k)'
  BY <1>4 DEF Listed
<1> QED
  BY <1>2, <1>3, <1>5 DEF FreshInv, Working

LEMMA StepFresh == TypeInv /\ WorkInv /\ FreshInv /\ [Next]_vars => FreshInv'
<1> SUFFICES ASSUME TypeInv, WorkInv, FreshInv, [Next]_vars PROVE FreshInv'
  OBVIOUS
<1>1. ASSUME NEW w \in Workers, Deliver(w) PROVE FreshInv'
  <2>1. /\ work'[w] \in Handling /\ work'[w].pending = <<>> /\ work'[w].stage # "add"
        /\ \A v \in Workers \ {w} : work'[v] = work[v]
        /\ UNCHANGED <<rows, opened, losses>>
    BY <1>1, DeliverIs DEF Deliver, store, users, faults
  <2>2. PICK m : m = work'[w]
    OBVIOUS
  <2>3. m \in Handling /\ PendingFits(m)'
    BY <2>1, <2>2, EmptyFits
  <2>4. ASSUME NEW v \in Workers, NEW o, o = work'[v], o # Resting, losses = 0
        PROVE  PendingFits(o)'
    <3>1. CASE v = w
      BY <2>2, <2>3, <2>4, <3>1
    <3>2. CASE v # w
      BY <2>1, <2>4, <3>2 DEF FreshInv, PendingFits, Working
    <3> QED
      BY <3>1, <3>2
  <2>5. losses = 0 => \A k \in Keys \ opened' : rows'[k].open > 0 => Listed(k)'
    BY <2>1 DEF FreshInv, Listed
  <2> QED
    BY <2>1, <2>4, <2>5, AllFit
<1>2. ASSUME NEW w \in Workers, Handle(w) PROVE FreshInv'
  BY <1>2, HandleFresh
<1>3. ASSUME NEW k \in Keys, CloseFinding(k) PROVE FreshInv'
  <2>1. \A i \in Keys : rows'[i].open =< rows[i].open /\ rows'[i].open \in Nat
    BY <1>3 DEF CloseFinding, TypeInv, TypeOK
  <2> QED
    BY <1>3, <2>1, FewerFresh DEF CloseFinding, faults
<1>4. ASSUME NEW k \in Keys, ReopenFinding(k) \/ CreateFinding(k) PROVE FreshInv'
  <2>1. \A i \in Keys \ {k} : rows'[i] = rows[i]
    BY <1>4 DEF ReopenFinding, CreateFinding, TypeInv, TypeOK
  <2>2. opened' = opened \cup {k} /\ UNCHANGED <<work, losses>>
    BY <1>4 DEF ReopenFinding, CreateFinding, faults
  <2>3. \A i \in Keys \ opened' : rows'[i].open =< rows[i].open /\ rows'[i].open \in Nat
    BY <2>1, <2>2 DEF TypeInv, TypeOK
  <2> QED
    BY <2>2, <2>3, FewerFresh
<1>5. CASE (\E j \in Jobs : Upload(j)) \/ (\E a \in Assets : CreateAsset(a)) \/ Stop \/ UNCHANGED vars
  BY <1>5 DEF Upload, CreateAsset, Stop, vars, store, broker, users, faults,
              FreshInv, Listed, PendingFits, Working
<1>6. CASE DeleteProject
  <2>1. \A i \in Keys : rows'[i].open =< rows[i].open /\ rows'[i].open \in Nat
    BY <1>6 DEF DeleteProject, TypeInv, TypeOK
  <2> QED
    BY <1>6, <2>1, FewerFresh DEF DeleteProject, users, faults
<1>7. CASE Exit
  BY <1>7 DEF Exit, store, users, FreshInv, Listed, Working
<1>8. CASE Lose
  BY <1>8 DEF Lose, TypeInv, TypeOK, FreshInv
<1> QED
  BY <1>1, <1>2, <1>3, <1>4, <1>5, <1>6, <1>7, <1>8 DEF Next

\* An open finding is not stored again, by a retry of its job or by a later scan
\* that finds it too, whatever users close, create, open again or delete and
\* whatever fails or restarts: what is open beyond what users open themselves
\* is listed as often by one output.
THEOREM OpenFindingsAreOne == Spec => []NoDuplicates
<1>1. FreshInv => NoDuplicates
  BY DEF FreshInv, Listed, NoDuplicates
<1> QED
  BY <1>1, TypesHold, WorkHolds, InitFresh, StepFresh, PTL DEF Spec

-------------------------------------------------------------------------------
(* What a job leaves behind.                                               *)

FindingsIn(j) == \A n \in DOMAIN Findings[j] : Exists(Findings[j][n])
AssetsIn(j) == \A n \in DOMAIN Tree[j] : Tree[j][n] \in assets

\* Nobody closes findings.
AllOpen == \A k \in Keys : rows[k].closed = 0

\* What a handler has passed is stored, or waits in its context until that is
\* saved or given up.
PassedStored(l) ==
    l.phase = "findings" /\ l.stage \notin {"report", "publish", "ack"} => \A m \in DOMAIN Findings[l.job] : m < l.i =>
        Exists(Findings[l.job][m]) \/ \E n \in DOMAIN l.pending : l.pending[n] = Findings[l.job][m]

\* The handler is about to add the finding at p, or has: it is the first of its
\* kind, with an asset, and the context holds nothing but it and those after
\* it that have no asset.
Holds(l, p) ==
    LET f == Findings[l.job] IN
    /\ p \in DOMAIN f
    /\ f[p].asset # None
    /\ \A m \in 1..(p - 1) : f[m] # f[p]
    /\ \/ l.stage = "add" /\ l.i = p /\ l.pending = <<>>
       \/ /\ p < l.i
          /\ \A m \in (p + 1)..(l.i - 1) : f[m].asset = None
          /\ l.pending # <<>> /\ l.pending[1] = f[p]

ContextIsSegment(l) ==
    LET f == Findings[l.job]
        s == l.pending IN
    /\ l.stage = "check" /\ f[l.i].asset # None => s = <<>>
    /\ l.stage = "add" /\ f[l.i].asset # None => Holds(l, l.i)
    /\ \A n \in DOMAIN s : s[n].asset # None =>
          n = 1 /\ \E p \in DOMAIN f : Holds(l, p) /\ p < l.i
    /\ \A n \in DOMAIN s : \A p \in DOMAIN f : Holds(l, p) /\ p < l.i =>
          \E m \in p..(l.i - 1) : m \in DOMAIN f /\ s[n] = f[m]

\* The findings that are saved together with the one at p.
Segment(f, p) ==
    {m \in DOMAIN f : p =< m /\ \A x \in (p + 1)..m : f[x].asset = None}

\* Once another handler has stored it, it has stored the whole segment.
SavedTogether(l) ==
    \A p \in DOMAIN Findings[l.job] : Holds(l, p) /\ Exists(Findings[l.job][p]) =>
        \A m \in Segment(Findings[l.job], p) : Exists(Findings[l.job][m])

LeavesAll(l) == PassedStored(l) /\ ContextIsSegment(l) /\ SavedTogether(l)

\* Nothing of the part was given up for the job that is being acknowledged.
Whole(j, part) == <<j, part>> \notin dropped

\* What the broker's handler has not given up at the end is stored.
EndsStored(l) ==
    l.stage \in {"report", "publish", "ack"} /\ l.job \notin Unknown
        /\ Whole(l.job, "findings") => FindingsIn(l.job)

DoneStored ==
    \A j \in done \ (Unknown \cup Unparsable) : Whole(j, "findings") => FindingsIn(j)

FindingsInv ==
    Undisturbed /\ NoneLeftBehind =>
        /\ AllOpen /\ DoneStored
        /\ \A w \in Workers : Working(w) => LeavesAll(work[w])
        /\ \A w \in Workers : Working(w) /\ holder = w => EndsStored(work[w])

\* The assets a handler counts on: those it has passed, and those it announces.
TreeStored(l) ==
    /\ l.phase = "assets" => \A n \in DOMAIN Tree[l.job] : n < l.i => Tree[l.job][n] \in assets
    /\ l.phase = "findings" /\ l.created > 0 => AssetsIn(l.job)
    /\ l.stage = "ack" /\ l.job \notin Unknown => l.phase = "findings"

\* The tree that the broker's handler has not given up is stored.
TreeEnds(l) == l.phase = "findings" /\ Whole(l.job, "assets") => AssetsIn(l.job)

AssetsInv ==
    Undisturbed =>
        /\ \A j \in done \ (Unknown \cup Unparsable) : Whole(j, "assets") => AssetsIn(j)
        /\ \A w \in Workers : Working(w) => TreeStored(work[w])
        /\ \A w \in Workers : Working(w) /\ holder = w => TreeEnds(work[w])

LEMMA KeysOf ==
    ASSUME NEW l \in Handling
    PROVE  /\ l.pending \in Seq(Keys) /\ \A n \in DOMAIN l.pending : l.pending[n] \in Keys
           /\ Findings[l.job] \in Seq(Keys)
           /\ \A n \in DOMAIN Findings[l.job] : Findings[l.job][n] \in Keys
           /\ DOMAIN Findings[l.job] = 1..Len(Findings[l.job])
           /\ l.i \in Nat \ {0} /\ Len(Findings[l.job]) \in Nat /\ l.job \in Jobs
<1>1. l.pending \in Seq(Keys) /\ Findings[l.job] \in Seq(Keys) /\ l.i \in Nat \ {0} /\ l.job \in Jobs
  BY ItemTypes DEF Handling
<1> QED
  BY <1>1

\* A handler with nothing in its context.
LEMMA EmptyContext ==
    ASSUME NEW m, m.pending = <<>>, m.stage # "add"
    PROVE  ContextIsSegment(m) /\ SavedTogether(m) /\ SavedTogether(m)'
<1>1. \A p : ~Holds(m, p)
  BY DEF Holds
<1> QED
  BY <1>1 DEF ContextIsSegment, SavedTogether

\* At the same item with the same context, it holds the same finding.
LEMMA HoldsOn ==
    ASSUME NEW l, NEW m, m.job = l.job, m.i = l.i, m.pending = l.pending,
           l.stage # "add", m.stage # "add"
    PROVE  \A p : Holds(m, p) <=> Holds(l, p)
BY DEF Holds

\* There is one finding that it holds.
LEMMA HoldsOne ==
    ASSUME NEW l \in Handling, NEW p, NEW q, Holds(l, p), Holds(l, q)
    PROVE  p = q
<1>1. p \in Nat \ {0} /\ q \in Nat \ {0} /\ l.i \in Nat
  BY KeysOf DEF Holds
<1>2. p =< l.i /\ q =< l.i
  BY <1>1 DEF Holds
<1>3. CASE p = l.i \/ q = l.i
  BY <1>1, <1>3 DEF Holds
<1>4. CASE p < l.i /\ q < l.i
  <2>1. Findings[l.job][p] = Findings[l.job][q]
    BY <1>1, <1>4 DEF Holds
  <2> QED
    BY <1>1, <2>1 DEF Holds
<1> QED
  BY <1>1, <1>2, <1>3, <1>4

-------------------------------------------------------------------------------
(* What a transaction does to the rows.                                    *)

WillExist(k) == Exists(k)'

Grows ==
    /\ \A k \in Keys : Exists(k) => WillExist(k)
    /\ AllOpen => AllOpen'

LEMMA RowsStay == rows' = rows => Grows
BY DEF Grows, Exists, WillExist, AllOpen

LEMMA InsertGrows ==
    ASSUME TypeInv, NEW s \in Seq(Keys), rows' = Inserted(s)
    PROVE  /\ Grows
           /\ \A n \in DOMAIN s : WillExist(s[n])
           /\ \A k \in Keys : WillExist(k) => Exists(k) \/ \E n \in DOMAIN s : s[n] = k
<1>1. ASSUME NEW k \in Keys
      PROVE  /\ rows[k].open \in Nat /\ rows[k].closed \in Nat /\ Times(s, k) \in Nat
             /\ rows'[k].open = rows[k].open + Times(s, k)
             /\ rows'[k].closed = rows[k].closed
             /\ (\A n \in DOMAIN s : s[n] # k) => Times(s, k) = 0
             /\ (\E n \in DOMAIN s : s[n] = k) => Times(s, k) > 0
  BY InsertedIs, TimesIs DEF TypeInv, TypeOK
<1>2. Grows
  BY <1>1 DEF Grows, Exists, WillExist, AllOpen
<1>3. ASSUME NEW n \in DOMAIN s PROVE WillExist(s[n])
  <2>1. PICK k \in Keys : k = s[n]
    OBVIOUS
  <2>2. Times(s, k) > 0
    BY <1>1, <2>1
  <2>3. rows'[k].open + rows'[k].closed > 0
    <3>1. PICK a \in Nat, b \in Nat, c \in Nat :
            a = rows[k].open /\ b = rows[k].closed /\ c = Times(s, k)
      BY <1>1
    <3>2. rows'[k].open = a + c /\ rows'[k].closed = b
      BY <1>1, <3>1
    <3>3. c > 0
      BY <2>2, <3>1
    <3> QED
      BY <3>2, <3>3
  <2>4. WillExist(k)
    BY <2>3 DEF Exists, WillExist
  <2> QED
    BY <2>1, <2>4
<1>4. ASSUME NEW k \in Keys, WillExist(k), ~Exists(k) PROVE \E n \in DOMAIN s : s[n] = k
  BY <1>1, <1>4 DEF Exists, WillExist
<1> QED
  BY <1>2, <1>3, <1>4

\* What does not depend on the handler's record survives when rows grow.
LEMMA StillLeaves ==
    ASSUME Grows, NEW l \in Handling, LeavesAll(l), SavedTogether(l)'
    PROVE  LeavesAll(l)'
<1>1. \A n \in DOMAIN Findings[l.job] : Findings[l.job][n] \in Keys
  BY KeysOf
<1> QED
  BY <1>1 DEF Grows, WillExist, LeavesAll, PassedStored, ContextIsSegment, Holds

LEMMA StillDone ==
    ASSUME Grows, TypeInv, DoneStored
    PROVE  \A j \in done \ (Unknown \cup Unparsable) : Whole(j, "findings") => FindingsIn(j)'
<1>1. \A j \in Jobs : \A n \in DOMAIN Findings[j] : Findings[j][n] \in Keys
  <2>1. ASSUME NEW j \in Jobs PROVE Findings[j] \in Seq(Keys)
    BY ResultsAssumption DEF Keys
  <2> QED
    BY <2>1
<1> QED
  BY <1>1 DEF Grows, WillExist, DoneStored, FindingsIn, TypeInv, TypeOK

\* A handler that commits a finding has passed the whole segment by then, so
\* another handler that still holds that finding finds all of it stored.
LEMMA CommitsTogether ==
    ASSUME TypeInv, QueueInv, WorkInv, FindingsInv, Undisturbed, NoneLeftBehind,
           NEW w \in Workers, Working(w), NEW l, l = work[w], l.stage \in {"save", "flush"},
           rows' = Inserted(l.pending),
           NEW v \in Workers, Working(v), NEW o, o = work[v]
    PROVE  SavedTogether(o)'
<1> DEFINE f == Findings[o.job]
<1>1. /\ l \in Handling /\ o \in Handling /\ LeavesAll(l) /\ LeavesAll(o)
      /\ Placed(l) /\ Placed(o)
  BY Working2 DEF FindingsInv, TypeInv
<1>2. /\ Grows /\ \A n \in DOMAIN l.pending : WillExist(l.pending[n])
      /\ \A k \in Keys : WillExist(k) => Exists(k) \/ \E n \in DOMAIN l.pending : l.pending[n] = k
  BY <1>1, KeysOf, InsertGrows
<1>3. SUFFICES ASSUME NEW p \in DOMAIN f, Holds(o, p), WillExist(f[p])
               PROVE  \A m \in Segment(f, p) : WillExist(f[m])
  BY DEF SavedTogether, Holds, Segment, WillExist
<1>4. \A n \in DOMAIN f : f[n] \in Keys
  BY <1>1, KeysOf
<1>a. ASSUME NEW u \in Workers, Working(u), losses = 0 PROVE work[u].job \notin done
  <2>1. holder = u /\ u # None
    BY <1>a, ResultsAssumption DEF WorkInv, Alone
  <2> QED
    BY <2>1, HeadIs DEF TypeInv, TypeOK
<1>b. ASSUME losses # 0, NEW j \in done \ (Unknown \cup Unparsable) PROVE FindingsIn(j)
  BY <1>b DEF FindingsInv, DoneStored, NoneLeftBehind, Whole
<1>5. CASE Exists(f[p])
  <2>1. \A m \in Segment(f, p) : Exists(f[m])
    BY <1>1, <1>3, <1>5 DEF LeavesAll, SavedTogether
  <2> QED
    BY <1>2, <1>4, <2>1 DEF Grows, Segment
<1>6. CASE ~Exists(f[p])
  <2>1. PICK n \in DOMAIN l.pending : l.pending[n] = f[p]
    BY <1>2, <1>3, <1>4, <1>6
  <2>2. PICK q \in DOMAIN Findings[l.job] : n = 1 /\ Holds(l, q) /\ q < l.i
    <3>1. l.pending[n].asset # None
      BY <1>3, <2>1 DEF Holds
    <3> QED
      BY <1>1, <3>1 DEF LeavesAll, ContextIsSegment
  <2>3. Findings[l.job][q] = f[p]
    BY <1>1, <2>1, <2>2, KeysOf DEF Holds
  <2>4. l.job \notin done
    <3>1. l.job \notin Unknown \cup Unparsable
      BY DEF WorkInv, Sifted
    <3> QED
      BY <1>a, <1>b, <1>6, <2>3, <3>1 DEF FindingsIn
  <2>5. o.job \notin Unknown \cup Unparsable
    <3>1. o.stage \notin {"parse", "ack"}
      BY <1>1, <1>3 DEF Holds, Placed
    <3> QED
      BY <3>1 DEF WorkInv, Sifted
  <2>6. CASE o.job \in done
    BY <1>a, <1>b, <1>6, <2>5, <2>6 DEF FindingsIn
  <2>7. CASE o.job \notin done
    <3>1. o.job = l.job
      BY <2>4, <2>7 DEF WorkInv, HeadOrDone
    <3>2. p = q
      <4>1. p \in Nat \ {0} /\ q \in Nat \ {0} /\ f[p] = f[q]
        BY <1>1, <2>2, <2>3, <3>1, KeysOf
      <4>2. (\A m \in 1..(p - 1) : f[m] # f[p]) /\ (\A m \in 1..(q - 1) : f[m] # f[q])
        BY <1>3, <2>2, <3>1 DEF Holds
      <4> QED
        BY <4>1, <4>2
    <3>3. l.phase = "findings"
      BY <1>1, <2>1 DEF Placed, Handling
    <3>4. ASSUME NEW m \in Segment(f, p) PROVE m \in DOMAIN f /\ m < l.i
      <4>1. m \in DOMAIN f /\ p =< m /\ \A x \in (p + 1)..m : f[x].asset = None
        BY DEF Segment
      <4>2. CASE l.stage = "flush"
        BY <1>1, <3>1, <3>3, <4>1, <4>2, KeysOf DEF Placed, Items
      <4>3. CASE l.stage = "save"
        <5>1. f[l.i].asset # None /\ l.i \in Nat /\ p < l.i
          BY <1>1, <2>2, <3>1, <3>2, <3>3, <4>3, KeysOf DEF Placed, AssetOf
        <5>2. l.i \notin (p + 1)..m
          BY <4>1, <5>1
        <5> QED
          BY <1>1, <4>1, <5>1, <5>2, KeysOf
      <4> QED
        BY <4>1, <4>2, <4>3
    <3>5. ASSUME NEW m \in Segment(f, p) PROVE WillExist(f[m])
      <4>1. m \in DOMAIN f /\ m < l.i
        BY <3>4
      <4>2. Exists(f[m]) \/ \E y \in DOMAIN l.pending : l.pending[y] = f[m]
        BY <1>1, <3>1, <3>3, <4>1 DEF LeavesAll, PassedStored
      <4> QED
        BY <1>2, <1>4, <4>1, <4>2 DEF Grows
    <3> QED
      BY <3>5
  <2> QED
    BY <2>6, <2>7
<1> QED
  BY <1>5, <1>6

-------------------------------------------------------------------------------
(* What each step of a handler leaves of it.                               *)

LEMMA LeavesKept ==
    ASSUME rows' = rows, NEW l, LeavesAll(l)
    PROVE  LeavesAll(l)'
BY DEF LeavesAll, PassedStored, ContextIsSegment, SavedTogether, Exists, Holds, Segment

\* A handler that begins with a tree or with the findings.
LEMMA BeginsLeaving ==
    ASSUME NEW m \in Handling, m.pending = <<>>, m.phase = "findings" => m.i = 1,
           Turned(m) \/ m.stage \in {"parse", "ack"}
    PROVE  LeavesAll(m) /\ LeavesAll(m)'
<1>1. m.stage # "add"
  BY DEF Turned
<1>2. PassedStored(m) /\ PassedStored(m)'
  BY KeysOf DEF PassedStored
<1> QED
  BY <1>1, <1>2, EmptyContext DEF LeavesAll, ContextIsSegment, Holds

\* A handler at the end, with nothing in its context.
LEMMA EndLeaves ==
    ASSUME NEW m, m.pending = <<>>, m.stage \in {"report", "publish", "ack"}
    PROVE  LeavesAll(m)'
<1>1. \A p : ~Holds(m, p)
  BY DEF Holds
<1> QED
  BY <1>1 DEF LeavesAll, PassedStored, ContextIsSegment, SavedTogether, Holds

\* The lookup of an asset.
LEMMA FindLeaves ==
    ASSUME NEW l \in Handling, l.stage = "find", LeavesAll(l), NEW m, Same(l, m), m.stage = "save"
    PROVE  LeavesAll(m)
<1>1. \A p : Holds(m, p) <=> Holds(l, p)
  BY HoldsOn DEF Same
<1> QED
  BY <1>1 DEF LeavesAll, PassedStored, ContextIsSegment, SavedTogether, Same

\* A finding that the check does not find.
LEMMA CheckLeaves ==
    ASSUME TypeInv, AllOpen, NEW l \in Handling, Placed(l), l.stage = "check", LeavesAll(l),
           rows[Findings[l.job][l.i]].open = 0, NEW m, Same(l, m), m.stage = "add"
    PROVE  LeavesAll(m)
<1> DEFINE f == Findings[l.job]
           s == l.pending
<1>1. /\ l.phase = "findings" /\ l.i \in DOMAIN f /\ f[l.i] \in Keys /\ l.i \in Nat \ {0}
      /\ DOMAIN f = 1..Len(f) /\ Len(f) \in Nat
  BY ItemTypes, KeysOf DEF Placed
<1>2. m.job = l.job /\ m.i = l.i /\ m.pending = s /\ m.phase = l.phase
  BY DEF Same
<1>3. ~Exists(f[l.i])
  BY <1>1 DEF Exists, AllOpen
<1>4. ASSUME f[l.i].asset # None PROVE Holds(m, l.i)
  <2>1. s = <<>>
    BY <1>4 DEF LeavesAll, ContextIsSegment
  <2>2. \A x \in DOMAIN f : x < l.i => Exists(f[x])
    BY <1>1, <2>1 DEF LeavesAll, PassedStored
  <2>3. \A x \in 1..(l.i - 1) : f[x] # f[l.i]
    BY <1>1, <1>3, <2>2
  <2> QED
    BY <1>1, <1>2, <1>4, <2>1, <2>3 DEF Holds
<1>5. ASSUME NEW p \in DOMAIN f, p < l.i PROVE Holds(m, p) <=> Holds(l, p)
  BY <1>1, <1>2, <1>5 DEF Holds
<1>6. ContextIsSegment(m)
  BY <1>2, <1>4, <1>5 DEF LeavesAll, ContextIsSegment
<1>7. SavedTogether(m)
  <2> SUFFICES ASSUME NEW p \in DOMAIN f, Holds(m, p), Exists(f[p])
               PROVE  \A x \in Segment(f, p) : Exists(f[x])
    BY <1>2 DEF SavedTogether
  <2>1. p < l.i
    BY <1>2, <1>3 DEF Holds
  <2> QED
    BY <1>5, <2>1 DEF LeavesAll, SavedTogether
<1> QED
  BY <1>2, <1>6, <1>7 DEF LeavesAll, PassedStored

\* A finding that is there already.
LEMMA SkipLeaves ==
    ASSUME TypeInv, NEW l \in Handling, Placed(l), l.stage = "check", LeavesAll(l),
           rows[Findings[l.job][l.i]].open > 0,
           NEW m \in Handling, Turned(m), m.job = l.job, m.phase = l.phase, m.i = l.i + 1,
           m.pending = l.pending
    PROVE  LeavesAll(m)
<1> DEFINE f == Findings[l.job]
           s == l.pending
<1>1. /\ l.phase = "findings" /\ l.i \in DOMAIN f /\ f[l.i] \in Keys /\ l.i \in Nat \ {0}
      /\ DOMAIN f = 1..Len(f) /\ Len(f) \in Nat
  BY ItemTypes, KeysOf DEF Placed
<1>2. rows[f[l.i]].open \in Nat /\ rows[f[l.i]].closed \in Nat
  BY <1>1 DEF TypeInv, TypeOK
<1>3. Exists(f[l.i])
  BY <1>2 DEF Exists
<1>4. PassedStored(m)
  BY <1>1, <1>3 DEF LeavesAll, PassedStored
<1>5. s # <<>> => f[l.i].asset = None
  BY DEF LeavesAll, ContextIsSegment
<1>6. ASSUME NEW p \in DOMAIN f, Holds(m, p) PROVE Holds(l, p) /\ p < l.i
  <2>1. p < m.i /\ s # <<>> /\ f[p].asset # None
    BY <1>6 DEF Holds, Turned
  <2>2. p < l.i
    BY <1>1, <1>5, <2>1
  <2>3. (p + 1)..(l.i - 1) \subseteq (p + 1)..(m.i - 1)
    BY <1>1
  <2> QED
    BY <1>6, <2>1, <2>2, <2>3 DEF Holds, Turned
<1>7. ASSUME NEW p \in DOMAIN f, Holds(l, p), p < l.i PROVE Holds(m, p)
  <2>1. s # <<>> /\ \A x \in (p + 1)..(l.i - 1) : f[x].asset = None
    BY <1>1, <1>7 DEF Holds
  <2>2. \A x \in (p + 1)..(m.i - 1) : f[x].asset = None
    BY <1>1, <1>5, <2>1
  <2>3. p < m.i
    BY <1>1, <1>7
  <2> QED
    BY <1>7, <2>1, <2>2, <2>3 DEF Holds
<1>8. ContextIsSegment(m)
  <2>1. m.stage = "check" => f[m.i].asset = None
    BY <1>1 DEF Turned, AssetOf
  <2>2. m.stage # "add"
    BY DEF Turned
  <2>3. ASSUME NEW n \in DOMAIN s, s[n].asset # None
        PROVE  n = 1 /\ \E p \in DOMAIN f : Holds(m, p) /\ p < m.i
    <3>1. n = 1 /\ \E p \in DOMAIN f : Holds(l, p) /\ p < l.i
      BY <2>3 DEF LeavesAll, ContextIsSegment
    <3> QED
      BY <1>1, <1>7, <3>1
  <2>4. ASSUME NEW n \in DOMAIN s, NEW p \in DOMAIN f, Holds(m, p)
        PROVE  \E x \in p..(m.i - 1) : x \in DOMAIN f /\ s[n] = f[x]
    <3>1. \E x \in p..(l.i - 1) : x \in DOMAIN f /\ s[n] = f[x]
      BY <1>6, <2>4 DEF LeavesAll, ContextIsSegment
    <3> QED
      BY <1>1, <3>1
  <2> QED
    BY <2>1, <2>2, <2>3, <2>4 DEF ContextIsSegment
<1>9. SavedTogether(m)
  BY <1>6 DEF LeavesAll, SavedTogether
<1> QED
  BY <1>4, <1>8, <1>9 DEF LeavesAll

\* A finding is added to the context.
LEMMA AddLeaves ==
    ASSUME NEW l \in Handling, Placed(l), l.stage = "add", LeavesAll(l),
           NEW m \in Handling, Turned(m), m.job = l.job, m.phase = l.phase, m.i = l.i + 1,
           m.pending = Append(l.pending, Findings[l.job][l.i])
    PROVE  LeavesAll(m)
<1> DEFINE f == Findings[l.job]
           s == l.pending
           t == m.pending
<1>1. /\ l.phase = "findings" /\ l.i \in DOMAIN f /\ f[l.i] \in Keys /\ l.i \in Nat \ {0}
      /\ DOMAIN f = 1..Len(f) /\ Len(f) \in Nat /\ s \in Seq(Keys)
  BY ItemTypes, KeysOf DEF Placed
<1>2. /\ t \in Seq(Keys) /\ Len(t) = Len(s) + 1 /\ t[Len(s) + 1] = f[l.i]
      /\ \A n \in 1..Len(s) : t[n] = s[n]
      /\ DOMAIN s = 1..Len(s) /\ Len(s) \in Nat /\ DOMAIN t = 1..(Len(s) + 1)
      /\ t # <<>> /\ (s = <<>> <=> Len(s) = 0)
  <2>1. t = Append(s, f[l.i])
    OBVIOUS
  <2>2. DOMAIN s = 1..Len(s) /\ Len(s) \in Nat /\ (s = <<>> <=> Len(s) = 0)
    BY <1>1, EmptySeq
  <2>3. /\ t \in Seq(Keys) /\ t # <<>> /\ Len(t) = Len(s) + 1 /\ t[Len(s) + 1] = f[l.i]
        /\ \A n \in 1..Len(s) : t[n] = s[n]
    <3>1. ASSUME NEW q \in Seq(Keys), NEW k \in Keys
          PROVE  /\ Append(q, k) \in Seq(Keys) /\ Append(q, k) # <<>>
                 /\ Len(Append(q, k)) = Len(q) + 1 /\ Append(q, k)[Len(q) + 1] = k
                 /\ \A n \in 1..Len(q) : Append(q, k)[n] = q[n]
      BY AppendProperties
    <3> QED
      BY <1>1, <2>1, <3>1
  <2>4. DOMAIN t = 1..(Len(s) + 1)
    BY <2>3
  <2> QED
    BY <2>2, <2>3, <2>4
<1> HIDE DEF t
<1>3. f[l.i].asset # None => s = <<>> /\ Holds(l, l.i)
  <2>1. ASSUME f[l.i].asset # None PROVE Holds(l, l.i)
    BY <2>1 DEF LeavesAll, ContextIsSegment
  <2>2. Holds(l, l.i) => s = <<>>
    BY <1>1 DEF Holds
  <2> QED
    BY <2>1, <2>2
<1>4. PassedStored(m)
  <2> SUFFICES ASSUME NEW x \in DOMAIN f, x < m.i
               PROVE  Exists(f[x]) \/ \E n \in DOMAIN t : t[n] = f[x]
    BY DEF PassedStored, t
  <2>1. CASE x = l.i
    BY <1>2, <2>1
  <2>2. CASE x < l.i
    <3>1. Exists(f[x]) \/ \E n \in DOMAIN s : s[n] = f[x]
      BY <1>1, <2>2 DEF LeavesAll, PassedStored
    <3> QED
      BY <1>2, <3>1
  <2> QED
    BY <1>1, <2>1, <2>2
<1>5. ASSUME NEW p \in DOMAIN f, Holds(m, p)
      PROVE  /\ Holds(l, p) /\ f[p].asset # None /\ p < m.i /\ t[1] = f[p]
             /\ \A x \in (p + 1)..l.i : f[x].asset = None
  <2>1. /\ p < m.i /\ f[p].asset # None /\ t[1] = f[p]
        /\ \A x \in (p + 1)..(m.i - 1) : f[x].asset = None
        /\ \A x \in 1..(p - 1) : f[x] # f[p]
    BY <1>5 DEF Holds, Turned, t
  <2>i. p \in Nat /\ l.i \in Nat /\ m.i - 1 = l.i
    BY <1>1
  <2>2. \A x \in (p + 1)..l.i : f[x].asset = None
    BY <2>i, <2>1
  <2>3. CASE p = l.i
    BY <1>3, <2>1, <2>2, <2>3
  <2>4. CASE p < l.i
    <3>1. f[l.i].asset = None
      <4>1. l.i \in (p + 1)..l.i
        BY <2>i, <2>4
      <4> QED
        BY <2>2, <4>1
    <3>2. s # <<>> /\ s[1] = f[p]
      BY <1>2, <2>1, <3>1
    <3>3. \A x \in (p + 1)..(l.i - 1) : f[x].asset = None
      <4>1. \A x \in (p + 1)..(l.i - 1) : x \in (p + 1)..l.i
        BY <2>i
      <4> QED
        BY <2>2, <4>1
    <3> QED
      BY <2>1, <2>2, <2>4, <3>2, <3>3 DEF Holds
  <2> QED
    BY <1>1, <2>1, <2>3, <2>4
<1>6. ASSUME NEW n \in DOMAIN t, t[n].asset # None
      PROVE  n = 1 /\ \E p \in DOMAIN f : Holds(m, p) /\ p < m.i
  <2>1. CASE n = Len(s) + 1
    <3>1. s = <<>> /\ Holds(l, l.i) /\ f[l.i].asset # None
      BY <1>2, <1>3, <1>6, <2>1
    <3>2. n = 1 /\ t[1] = f[l.i]
      BY <1>2, <2>1, <3>1
    <3>3. Holds(m, l.i)
      <4>1. \A x \in 1..(l.i - 1) : f[x] # f[l.i]
        BY <3>1 DEF Holds
      <4>2. l.i < m.i /\ \A x \in (l.i + 1)..(m.i - 1) : f[x].asset = None
        BY <1>1
      <4> QED
        BY <1>1, <1>2, <3>1, <3>2, <4>1, <4>2 DEF Holds, t
    <3> QED
      BY <1>1, <3>2, <3>3
  <2>2. CASE n \in 1..Len(s)
    <3>1. PICK p \in DOMAIN f : n = 1 /\ Holds(l, p) /\ p < l.i
      BY <1>2, <1>6, <2>2 DEF LeavesAll, ContextIsSegment
    <3>2. s # <<>> /\ s[1] = f[p] /\ f[p].asset # None
          /\ (\A x \in 1..(p - 1) : f[x] # f[p])
          /\ \A x \in (p + 1)..(l.i - 1) : f[x].asset = None
      BY <1>1, <3>1 DEF Holds
    <3>3. f[l.i].asset = None
      BY <1>3, <3>2
    <3>4. t[1] = f[p]
      BY <1>2, <2>2, <3>1, <3>2
    <3>5. p < m.i /\ \A x \in (p + 1)..(m.i - 1) : f[x].asset = None
      <4>1. p \in Nat /\ l.i \in Nat /\ m.i = l.i + 1 /\ p < l.i
        BY <1>1, <3>1
      <4>2. \A x \in (p + 1)..(m.i - 1) : x = l.i \/ x \in (p + 1)..(l.i - 1)
        BY <4>1
      <4> QED
        BY <3>2, <3>3, <4>1, <4>2
    <3>6. Holds(m, p)
      <4>1. m.pending # <<>> /\ m.pending[1] = f[p] /\ m.job = l.job
        BY <1>2, <3>4 DEF t
      <4> QED
        BY <3>2, <3>5, <4>1 DEF Holds
    <3> QED
      BY <3>1, <3>5, <3>6
  <2> QED
    BY <1>2, <2>1, <2>2
<1>7. ASSUME NEW n \in DOMAIN t, NEW p \in DOMAIN f, Holds(m, p)
      PROVE  \E x \in p..(m.i - 1) : x \in DOMAIN f /\ t[n] = f[x]
  <2>1. /\ Holds(l, p) /\ f[p].asset # None /\ p < m.i /\ t[1] = f[p]
        /\ \A x \in (p + 1)..l.i : f[x].asset = None
    BY <1>5, <1>7
  <2>2. CASE n = Len(s) + 1
    <3>1. l.i \in p..(m.i - 1)
      BY <1>1, <2>1
    <3> QED
      BY <1>1, <1>2, <2>2, <3>1
  <2>3. CASE n \in 1..Len(s) /\ p < l.i
    <3>1. \E x \in p..(l.i - 1) : x \in DOMAIN f /\ s[n] = f[x]
      BY <1>2, <2>1, <2>3 DEF LeavesAll, ContextIsSegment
    <3> QED
      BY <1>1, <1>2, <2>3, <3>1
  <2>4. CASE n \in 1..Len(s) /\ p = l.i
    BY <1>2, <1>3, <2>1, <2>4
  <2> QED
    BY <1>1, <1>2, <2>1, <2>2, <2>3, <2>4
<1>8. ContextIsSegment(m)
  <2>1. m.stage = "check" => f[m.i].asset = None
    BY <1>1 DEF Turned, AssetOf
  <2>2. m.stage # "add"
    BY DEF Turned
  <2> QED
    BY <1>6, <1>7, <2>1, <2>2 DEF ContextIsSegment, t
<1>9. SavedTogether(m)
  BY <1>5 DEF LeavesAll, SavedTogether
<1> QED
  BY <1>4, <1>8, <1>9 DEF LeavesAll

\* What stops a transaction is that the first of its findings is there; then
\* all of them are.
LEMMA RefusedStored ==
    ASSUME TypeInv, project, NEW l \in Handling, LeavesAll(l), ~Insertable(l.pending)
    PROVE  \A n \in DOMAIN l.pending : Exists(l.pending[n])
<1> DEFINE f == Findings[l.job]
           s == l.pending
<1>1. s \in Seq(Keys) /\ DOMAIN f = 1..Len(f) /\ Len(f) \in Nat /\ l.i \in Nat
  BY KeysOf
<1>2. PICK n \in DOMAIN s : s[n].asset # None /\ (Exists(s[n]) \/ Times(s, s[n]) # 1)
  BY DEF Insertable
<1>3. \A x \in DOMAIN s : s[x].asset # None => x = 1
  BY DEF LeavesAll, ContextIsSegment
<1>4. Times(s, s[n]) = 1
  <2>1. \A x, y \in DOMAIN s : s[x] = s[n] /\ s[y] = s[n] => x = y
    BY <1>2, <1>3
  <2>2. Times(s, s[n]) \in Nat /\ Times(s, s[n]) =< 1 /\ Times(s, s[n]) > 0
    BY <1>1, <2>1, TimesIs
  <2> QED
    BY <2>2
<1>5. PICK p \in DOMAIN f : n = 1 /\ Holds(l, p) /\ p < l.i
  BY <1>2 DEF LeavesAll, ContextIsSegment
<1>6. s[1] = f[p] /\ \A x \in (p + 1)..(l.i - 1) : f[x].asset = None
  BY <1>1, <1>5 DEF Holds
<1>7. \A x \in Segment(f, p) : Exists(f[x])
  BY <1>2, <1>4, <1>5, <1>6 DEF LeavesAll, SavedTogether
<1>8. ASSUME NEW y \in DOMAIN s PROVE Exists(s[y])
  <2>1. PICK x \in p..(l.i - 1) : x \in DOMAIN f /\ s[y] = f[x]
    BY <1>5 DEF LeavesAll, ContextIsSegment
  <2>2. p =< x /\ (p + 1)..x \subseteq (p + 1)..(l.i - 1)
    BY <1>1, <1>5, <2>1
  <2>3. \A k \in (p + 1)..x : f[k].asset = None
    BY <1>6, <2>2
  <2>4. x \in Segment(f, p)
    BY <2>1, <2>2, <2>3 DEF Segment
  <2> QED
    BY <1>7, <2>1, <2>4
<1> QED
  BY <1>8

\* The context is written, or holds nothing that is missing.
LEMMA WritesLeave ==
    ASSUME TypeInv, project, NEW l \in Handling, Placed(l), LeavesAll(l),
           \/ rows' = Inserted(l.pending)
           \/ ~Insertable(l.pending) /\ rows' = rows,
           l.stage \in {"save", "flush"},
           NEW m, m \in Handling, m.job = l.job, m.phase = l.phase, m.pending = <<>>,
           \/ l.phase = "findings" /\ m.i = l.i /\ m.stage \in {"check", "report"}
           \/ l.phase = "assets" /\ Turned(m)
    PROVE  /\ Grows /\ LeavesAll(m)'
           /\ l.stage = "flush" => FindingsIn(l.job)'
<1> DEFINE f == Findings[l.job]
<1>1. l.pending \in Seq(Keys) /\ (\A x \in DOMAIN f : f[x] \in Keys)
      /\ DOMAIN f = 1..Len(f) /\ Len(f) \in Nat /\ l.i \in Nat
      /\ \A n \in DOMAIN l.pending : l.pending[n] \in Keys
  BY KeysOf
<1>2. Grows /\ \A n \in DOMAIN l.pending : WillExist(l.pending[n])
  <2>1. CASE rows' = Inserted(l.pending)
    BY <1>1, <2>1, InsertGrows
  <2>2. CASE ~Insertable(l.pending) /\ rows' = rows
    <3>1. \A n \in DOMAIN l.pending : Exists(l.pending[n])
      BY <2>2, RefusedStored
    <3>2. Grows
      BY <2>2, RowsStay
    <3> QED
      BY <1>1, <3>1, <3>2 DEF Grows
  <2> QED
    BY <2>1, <2>2
<1>3. l.phase = "findings" => \A x \in DOMAIN f : x < l.i => WillExist(f[x])
  BY <1>1, <1>2 DEF LeavesAll, PassedStored, Grows
<1>4. ContextIsSegment(m)' /\ SavedTogether(m)' /\ ContextIsSegment(m)
  <2>1. m.stage # "add"
    BY DEF Turned
  <2>2. \A p : ~Holds(m, p)
    BY <2>1 DEF Holds
  <2> QED
    BY <2>1, <2>2 DEF ContextIsSegment, SavedTogether, Holds
<1>5. PassedStored(m)'
  BY <1>3 DEF PassedStored, WillExist, Placed
<1>6. ASSUME l.stage = "flush" PROVE FindingsIn(l.job)'
  <2>1. l.i = Len(f) + 1 /\ l.phase = "findings"
    BY <1>6 DEF Placed, Items
  <2>2. \A x \in DOMAIN f : WillExist(f[x])
    BY <1>1, <1>3, <2>1
  <2> QED
    BY <2>2 DEF FindingsIn, WillExist
<1> QED
  BY <1>2, <1>4, <1>5, <1>6 DEF LeavesAll

LEMMA AllLeave ==
    ASSUME AllOpen', DoneStored',
           \A w \in Workers : \A o : o = work'[w] /\ o # Resting => LeavesAll(o)',
           \A w \in Workers : \A o : o = work'[w] /\ o # Resting /\ holder' = w => EndsStored(o)'
    PROVE  FindingsInv'
BY DEF FindingsInv, Working, LeavesAll, PassedStored, ContextIsSegment, SavedTogether, EndsStored,
       FindingsIn, Exists, Holds, Segment, Whole

\* The other handlers keep what they have, whatever one of them writes.
LEMMA OthersLeave ==
    ASSUME TypeInv, QueueInv, WorkInv, FindingsInv, Undisturbed, NoneLeftBehind,
           NEW w \in Workers, Working(w),
           \/ rows' = rows
           \/ work[w].stage \in {"save", "flush"} /\ rows' = Inserted(work[w].pending),
           NEW v \in Workers, Working(v), NEW o, o = work[v]
    PROVE  Grows /\ LeavesAll(o)'
<1>1. o \in Handling /\ LeavesAll(o) /\ work[w] \in Handling
  BY Working2 DEF FindingsInv, TypeInv
<1>2. CASE rows' = rows
  BY <1>1, <1>2, LeavesKept, RowsStay
<1>3. CASE work[w].stage \in {"save", "flush"} /\ rows' = Inserted(work[w].pending)
  <2>1. SavedTogether(o)'
    BY <1>3, CommitsTogether
  <2>2. Grows
    BY <1>1, <1>3, KeysOf, InsertGrows
  <2> QED
    BY <1>1, <2>1, <2>2, StillLeaves
<1> QED
  BY <1>2, <1>3

\* What a handler that goes on leaves.
LEMMA HandlerLeaves ==
    ASSUME TypeInv, WorkInv, FindingsInv, Undisturbed, NoneLeftBehind,
           NEW w \in Workers, Handle(w), NEW m, m = work'[w], m # Resting
    PROVE  LeavesAll(m)'
<1> DEFINE l == work[w]
<1>1. /\ l \in Handling /\ Placed(l) /\ Working(w) /\ LeavesAll(l) /\ AllOpen /\ project
  BY HandleMoves DEF FindingsInv, Undisturbed
<1>2. \A st \in Stages : At(w, st) => l.stage = st
  BY SaysOf
<1>3. ASSUME NEW k, GoOn(w, k) PROVE m = k
  BY <1>3 DEF GoOn, TypeInv, TypeOK
<1>r. ~Rest(w)
  BY <1>3 DEF Rest
<1>b. ASSUME NEW k, Abandoned(w, k) PROVE LeavesAll(m)'
  <2>1. m = k
    BY <1>3, <1>b DEF Abandoned
  <2> QED
    BY <1>b, <2>1, BeginsLeaving DEF Abandoned
<1>4. CASE Parse(w)
  <2>1. l.stage = "parse"
    BY <1>2, <1>4 DEF Parse, Stages
  <2>2. /\ Same(l, m)
        /\ m.stage = "ack" \/ Turned(m)
    BY <1>3, <1>4, <1>r, ParseIs
  <2>3. m \in Handling /\ m.pending = <<>> /\ m.phase = "assets"
    BY <1>1, <2>1, <2>2 DEF Same, Placed
  <2> QED
    BY <2>2, <2>3, BeginsLeaving
<1>5. CASE FindAsset(w)
  <2>1. l.stage = "find" /\ rows' = rows
    BY <1>2, <1>5 DEF FindAsset, Stages, store
  <2>2. ASSUME Same(l, m), m.stage = "save" PROVE LeavesAll(m)'
    <3>1. LeavesAll(m)
      BY <1>1, <2>1, <2>2, FindLeaves
    <3> QED
      BY <2>1, <3>1, LeavesKept
  <2> QED
    BY <1>3, <1>5, <1>b, <1>r, <2>2, FindAssetIs
<1>6. CASE SaveAsset(w)
  <2>1. ASSUME m \in Handling, m.job = l.job, m.pending = <<>>, Saves(l),
               \/ Turned(m) /\ l.phase = "assets" /\ m.phase = "assets"
               \/ /\ m.stage = "check" /\ m.i = l.i
                  /\ l.phase = "findings" /\ m.phase = "findings"
        PROVE  LeavesAll(m)'
    <3>1. rows' = Inserted(l.pending) /\ l.stage = "save"
      BY <1>2, <1>6, <2>1 DEF Saves, SaveAsset, Stages
    <3> QED
      BY <1>1, <2>1, <3>1, WritesLeave
  <2> QED
    BY <1>3, <1>6, <1>b, <1>r, <2>1, SaveAssetIs
<1>7. CASE Announce(w)
  <2>1. l.stage = "announce"
    BY <1>2, <1>7 DEF Announce, Stages
  <2>2. m \in Handling /\ Turned(m) /\ m.i = 1 /\ m.pending = l.pending
    BY <1>3, <1>7, <1>r, AnnounceIs
  <2>3. l.pending = <<>>
    BY <1>1, <2>1 DEF Placed, Handling
  <2> QED
    BY <2>2, <2>3, BeginsLeaving
<1>8. CASE Check(w)
  <2>1. l.stage = "check" /\ rows' = rows
    BY <1>2, <1>8 DEF Check, Stages, store
  <2>2. /\ m \in Handling
        /\ \/ Same(l, m) /\ m.stage = "add" /\ rows[Findings[l.job][l.i]].open = 0
           \/ /\ rows[Findings[l.job][l.i]].open > 0 /\ Turned(m)
              /\ m.job = l.job /\ m.phase = l.phase /\ m.i = l.i + 1 /\ m.pending = l.pending
    BY <1>3, <1>8, <1>r, CheckIs
  <2>3. LeavesAll(m)
    BY <1>1, <2>1, <2>2, CheckLeaves, SkipLeaves
  <2> QED
    BY <2>1, <2>3, LeavesKept
<1>9. CASE AddFinding(w)
  <2>1. l.stage = "add" /\ rows' = rows
    BY <1>2, <1>9 DEF AddFinding, Stages, store
  <2>2. /\ m \in Handling /\ Turned(m)
        /\ m.job = l.job /\ m.phase = l.phase /\ m.i = l.i + 1
        /\ m.pending = Append(l.pending, Findings[l.job][l.i])
    BY <1>3, <1>9, AddFindingIs
  <2>3. LeavesAll(m)
    BY <1>1, <2>1, <2>2, AddLeaves
  <2> QED
    BY <2>1, <2>3, LeavesKept
<1>10. CASE Flush(w)
  <2>1. m.stage = "report" /\ m.pending = <<>>
    BY <1>3, <1>10, FlushIs
  <2> QED
    BY <2>1, EndLeaves
<1>11. CASE Report(w) \/ Publish(w)
  <2>1. l.stage \in {"report", "publish"}
    BY <1>2, <1>11 DEF Report, Publish, Stages
  <2>2. Same(l, m) /\ m.stage \in {"publish", "ack"}
    BY <1>3, <1>11, <1>r, ReportIs, PublishIs
  <2>3. m.pending = <<>>
    BY <1>1, <2>1, <2>2 DEF Placed, Same
  <2> QED
    BY <2>2, <2>3, EndLeaves
<1>12. CASE Ack(w)
  BY <1>3, <1>12 DEF Ack
<1> QED
  BY <1>4, <1>5, <1>6, <1>7, <1>8, <1>9, <1>10, <1>11, <1>12 DEF Handle

\* Which rows a handler writes.
LEMMA HandleRows ==
    ASSUME TypeInv, NEW w \in Workers, Handle(w)
    PROVE  /\ \/ rows' = rows
              \/ work[w].stage \in {"save", "flush"} /\ rows' = Inserted(work[w].pending)
           /\ UNCHANGED <<project, edits, opened>>
           /\ assets \subseteq assets'
BY DEF Handle, Parse, FindAsset, SaveAsset, Saves, Announce, Check, AddFinding, Flush, Report,
       Publish, Ack, store, users, At

\* The broker's handler ends with everything stored, or has given it up.
LEMMA HandlerEnds ==
    ASSUME TypeInv, QueueInv, WorkInv, FindingsInv, Undisturbed, NoneLeftBehind,
           NEW w \in Workers, Handle(w), holder = w, NEW m, m = work'[w], m # Resting
    PROVE  EndsStored(m)'
<1> DEFINE l == work[w]
<1>1. /\ l \in Handling /\ Placed(l) /\ Working(w) /\ LeavesAll(l) /\ EndsStored(l) /\ project
  BY HandleMoves DEF FindingsInv, Undisturbed
<1>2. \A st \in Stages : At(w, st) => l.stage = st
  BY SaysOf
<1>3. ASSUME NEW k, GoOn(w, k) PROVE m = k
  BY <1>3 DEF GoOn, TypeInv, TypeOK
<1>r. ~Rest(w)
  BY <1>3 DEF Rest
<1>4. ASSUME Turned(m) PROVE EndsStored(m)'
  BY <1>4 DEF EndsStored, Turned, Items, FindingsIn
<1>5. ASSUME m.stage \in {"save", "check", "add"} PROVE EndsStored(m)'
  BY <1>5 DEF EndsStored
<1>6. ASSUME NEW k, Abandoned(w, k) PROVE EndsStored(m)'
  BY <1>3, <1>4, <1>6 DEF Abandoned
<1>7. CASE Parse(w)
  <2>1. (m.stage = "ack" /\ m.job \in Unknown) \/ Turned(m)
    BY <1>3, <1>7, <1>r, ParseIs
  <2> QED
    BY <1>4, <2>1 DEF EndsStored
<1>8. CASE FindAsset(w) \/ SaveAsset(w) \/ Announce(w) \/ Check(w) \/ AddFinding(w)
  <2>1. CASE FindAsset(w)
    BY <1>3, <1>5, <1>6, <1>r, <2>1, FindAssetIs
  <2>2. CASE SaveAsset(w)
    BY <1>3, <1>4, <1>5, <1>6, <1>r, <2>2, SaveAssetIs
  <2>3. CASE Announce(w)
    BY <1>3, <1>4, <1>r, <2>3, AnnounceIs
  <2>4. CASE Check(w)
    BY <1>3, <1>4, <1>5, <1>r, <2>4, CheckIs
  <2>5. CASE AddFinding(w)
    BY <1>3, <1>4, <2>5, AddFindingIs
  <2> QED
    BY <1>8, <2>1, <2>2, <2>3, <2>4, <2>5
<1>9. CASE Flush(w)
  <2>1. /\ m \in Handling /\ m.stage = "report" /\ m.job = l.job /\ m.phase = l.phase
        /\ m.i = l.i /\ m.pending = <<>>
    BY <1>3, <1>9, FlushIs
  <2>2. l.stage = "flush" /\ l.phase = "findings"
    BY <1>1, <1>2, <1>9 DEF Flush, Stages, Placed
  <2>3. CASE rows' = Inserted(l.pending) \/ (~Insertable(l.pending) /\ rows' = rows)
    <3>1. FindingsIn(l.job)'
      BY <1>1, <2>1, <2>2, <2>3, WritesLeave
    <3> QED
      BY <2>1, <3>1 DEF EndsStored
  <2>4. CASE GiveUp(w, "findings")
    BY <2>1, <2>4 DEF GiveUp, EndsStored, Whole
  <2> QED
    BY <1>9, <2>3, <2>4, FlushIs
<1>10. CASE Report(w) \/ Publish(w)
  <2>1. l.stage \in {"report", "publish"} /\ rows' = rows
    BY <1>2, <1>10 DEF Report, Publish, Stages, store
  <2>2. Same(l, m) /\ m.stage \in {"publish", "ack"} /\ UNCHANGED dropped
    BY <1>3, <1>10, <1>r, ReportIs, PublishIs
  <2> QED
    BY <1>1, <2>1, <2>2 DEF EndsStored, Whole, FindingsIn, Exists, Same
<1>11. CASE Ack(w)
  BY <1>3, <1>11 DEF Ack
<1> QED
  BY <1>7, <1>8, <1>9, <1>10, <1>11 DEF Handle

LEMMA HandleFindings ==
    ASSUME TypeInv, QueueInv, WorkInv, FindingsInv, Undisturbed, NoneLeftBehind,
           NEW w \in Workers, Handle(w)
    PROVE  FindingsInv'
<1> DEFINE l == work[w]
<1>1. /\ l \in Handling /\ Placed(l) /\ Working(w) /\ LeavesAll(l) /\ AllOpen /\ DoneStored
      /\ \A v \in Workers \ {w} : work'[v] = work[v]
  BY HandleMoves DEF FindingsInv
<1>2. \/ rows' = rows
      \/ l.stage \in {"save", "flush"} /\ rows' = Inserted(l.pending)
  BY HandleRows
<1>3. Grows
  BY <1>1, <1>2, OthersLeave
<1>4. AllOpen'
  BY <1>1, <1>3 DEF Grows
<1>d. dropped \subseteq dropped' /\ (holder # w => dropped' = dropped)
  BY HandleDrops DEF GiveUp
<1>5. \A j \in done \ (Unknown \cup Unparsable) : Whole(j, "findings")' => FindingsIn(j)'
  BY <1>1, <1>3, <1>d, StillDone DEF Whole
<1>h. holder' = holder \/ holder' = None
  BY HandleMoves DEF Rest, Ack, Free
<1>6. DoneStored'
  <2>1. CASE done' = done
    BY <1>5, <2>1 DEF DoneStored
  <2>2. CASE Ack(w) /\ holder = w /\ done' = done \cup {l.job}
    <3>1. PICK j : j = l.job
      OBVIOUS
    <3>2. j \notin Unknown /\ Whole(j, "findings")' => FindingsIn(j) /\ rows' = rows
      BY <1>1, <2>2, <3>1 DEF Ack, At, store, FindingsInv, EndsStored, Whole
    <3>3. j \notin Unknown /\ Whole(j, "findings")' => FindingsIn(j)'
      BY <3>2 DEF FindingsIn, Exists
    <3>4. done' = done \cup {j}
      BY <2>2, <3>1
    <3> QED
      BY <1>5, <3>3, <3>4 DEF DoneStored, FindingsIn
  <2> QED
    BY <2>1, <2>2, HandleMoves DEF Ack
<1>7. ASSUME NEW v \in Workers, NEW o, o = work'[v], o # Resting PROVE LeavesAll(o)'
  <2>1. CASE v = w
    BY <1>7, <2>1, HandlerLeaves
  <2>2. CASE v # w
    BY <1>1, <1>2, <1>7, <2>2, OthersLeave DEF Working
  <2> QED
    BY <2>1, <2>2
<1>8. ASSUME NEW v \in Workers, NEW o, o = work'[v], o # Resting, holder' = v PROVE EndsStored(o)'
  <2>1. holder = v
    BY <1>h, <1>8, ResultsAssumption
  <2>2. CASE v = w
    BY <1>8, <2>1, <2>2, HandlerEnds
  <2>3. CASE v # w
    <3>1. o = work[v] /\ Working(v) /\ EndsStored(o) /\ dropped' = dropped
      BY <1>1, <1>d, <1>8, <2>1, <2>3 DEF FindingsInv, Working
    <3>2. \A n \in DOMAIN Findings[o.job] : Findings[o.job][n] \in Keys
      BY <3>1, Working2, KeysOf DEF TypeInv
    <3> QED
      BY <1>3, <3>1, <3>2 DEF Grows, WillExist, EndsStored, FindingsIn, Whole
  <2> QED
    BY <2>2, <2>3
<1> QED
  BY <1>4, <1>6, <1>7, <1>8, AllLeave

LEMMA InitFindings == Init => FindingsInv
BY DEF Init, FindingsInv, Working, AllOpen, DoneStored

\* What was left behind stays so.
LEMMA LeftBehind ==
    ASSUME TypeInv, QueueInv, [Next]_vars, NoneLeftBehind'
    PROVE  NoneLeftBehind
<1>1. ASSUME losses' = 0 => losses = 0, done \subseteq done', dropped \subseteq dropped'
      PROVE  NoneLeftBehind
  BY <1>1 DEF NoneLeftBehind
<1>2. ASSUME NEW w \in Workers, Deliver(w) PROVE NoneLeftBehind
  <2>1. queue # <<>> /\ UNCHANGED <<losses, done>>
        /\ dropped' = {d \in dropped : d[1] # Head(queue)}
    BY <1>2 DEF Deliver, faults
  <2>2. Head(queue) \notin done
    BY <2>1, HeadIs
  <2>3. \A i \in done : <<i, "findings">> \in dropped => <<i, "findings">> \in dropped'
    BY <2>1, <2>2
  <2> QED
    BY <2>1, <2>3 DEF NoneLeftBehind
<1>3. ASSUME NEW w \in Workers, Handle(w) PROVE NoneLeftBehind
  <2>1. dropped \subseteq dropped'
    BY <1>3, HandleDrops DEF GiveUp
  <2>2. losses' = 0 => losses = 0
    BY <1>3, HandleMoves
  <2>3. done \subseteq done'
    BY <1>3, HandleMoves DEF Ack
  <2> QED
    BY <1>1, <2>1, <2>2, <2>3
<1>4. CASE Lose
  BY <1>1, <1>4 DEF Lose, TypeInv, TypeOK
<1>5. CASE \/ \E j \in Jobs : Upload(j)
           \/ \E k \in Keys : CloseFinding(k) \/ ReopenFinding(k) \/ CreateFinding(k)
           \/ \E a \in Assets : CreateAsset(a)
           \/ DeleteProject \/ Stop \/ Exit \/ UNCHANGED vars
  <2>1. UNCHANGED <<losses, done, dropped>>
    BY <1>5 DEF Upload, CloseFinding, ReopenFinding, CreateFinding, CreateAsset, DeleteProject,
                Stop, Exit, vars, broker, faults
  <2> QED
    BY <1>1, <2>1
<1> QED
  BY <1>2, <1>3, <1>4, <1>5 DEF Next

\* Users who write the tables are counted.
LEMMA UsersDisturb ==
    ASSUME TypeInv, Undisturbed',
           \/ \E k \in Keys : CloseFinding(k) \/ CreateFinding(k)
           \/ \E a \in Assets : CreateAsset(a)
           \/ DeleteProject
    PROVE  FALSE
<1>1. edits' # edits + 1
  BY DEF Undisturbed, TypeInv, TypeOK
<1>2. project'
  BY DEF Undisturbed
<1> QED
  BY <1>1, <1>2 DEF CloseFinding, CreateFinding, CreateAsset, DeleteProject, Edits

LEMMA StepFindings ==
    TypeInv /\ QueueInv /\ WorkInv /\ FindingsInv /\ [Next]_vars => FindingsInv'
<1> SUFFICES ASSUME TypeInv, QueueInv, WorkInv, FindingsInv, [Next]_vars,
                    Undisturbed', NoneLeftBehind'
             PROVE  FindingsInv'
  BY DEF FindingsInv
<1>n. NoneLeftBehind
  BY LeftBehind
<1>1. ASSUME NEW w \in Workers, Handle(w) PROVE FindingsInv'
  <2>1. Undisturbed
    BY <1>1, HandleRows DEF Undisturbed
  <2> QED
    BY <1>n, <1>1, <2>1, HandleFindings
<1>2. CASE (\E k \in Keys : CloseFinding(k) \/ CreateFinding(k))
           \/ (\E a \in Assets : CreateAsset(a)) \/ DeleteProject
  BY <1>2, UsersDisturb
<1>3. ASSUME UNCHANGED <<project, rows, edits>>, done' = done,
             \A j \in done : Whole(j, "findings")' => Whole(j, "findings"),
             \A w \in Workers : \A o : o = work'[w] =>
                \/ o = Resting
                \/ o \in Handling /\ o.stage = "parse" /\ o.pending = <<>> /\ o.phase = "assets"
                \/ o = work[w] /\ (holder' = w => holder = w /\ dropped' = dropped)
      PROVE  FindingsInv'
  <2>1. AllOpen' /\ DoneStored' /\ Undisturbed
    BY <1>n, <1>3 DEF FindingsInv, Undisturbed, AllOpen, DoneStored, FindingsIn, Exists
  <2>2. ASSUME NEW v \in Workers, NEW o, o = work'[v], o # Resting
        PROVE  LeavesAll(o)' /\ (holder' = v => EndsStored(o)')
    <3>1. CASE o = work[v] /\ (holder' = v => holder = v /\ dropped' = dropped)
      <4>1. LeavesAll(o) /\ (holder' = v => EndsStored(o))
        BY <1>n, <2>1, <2>2, <3>1 DEF FindingsInv, Working
      <4>2. LeavesAll(o)'
        BY <1>3, <4>1, LeavesKept
      <4>3. holder' = v => EndsStored(o)'
        BY <1>3, <3>1, <4>1 DEF EndsStored, FindingsIn, Exists, Whole
      <4> QED
        BY <4>2, <4>3
    <3>2. CASE o \in Handling /\ o.stage = "parse" /\ o.pending = <<>> /\ o.phase = "assets"
      BY <3>2, BeginsLeaving DEF EndsStored
    <3> QED
      BY <1>3, <2>2, <3>1, <3>2
  <2> QED
    BY <2>1, <2>2, AllLeave
<1>4. ASSUME NEW w \in Workers, Deliver(w) PROVE FindingsInv'
  <2>1. /\ UNCHANGED <<project, rows, edits>> /\ done' = done /\ holder' = w
        /\ dropped' = {d \in dropped : d[1] # Head(queue)}
    BY <1>4 DEF Deliver, store, users
  <2>2. Head(queue) \notin done
    BY <1>4, HeadIs DEF Deliver
  <2>3. \A j \in done : Whole(j, "findings")' => Whole(j, "findings")
    BY <2>1, <2>2 DEF Whole
  <2>4. /\ work'[w] \in Handling /\ work'[w].stage = "parse"
        /\ work'[w].pending = <<>> /\ work'[w].phase = "assets"
        /\ \A v \in Workers \ {w} : work'[v] = work[v]
    BY <1>4, DeliverIs
  <2> QED
    BY <1>3, <2>1, <2>3, <2>4
<1>5. CASE (\E j \in Jobs : Upload(j)) \/ Stop \/ Exit \/ Lose \/ UNCHANGED vars
  <2>1. UNCHANGED <<project, rows, edits, done, dropped>>
    BY <1>5 DEF Upload, Stop, Exit, Lose, vars, store, broker, users
  <2>2. \/ UNCHANGED <<work, holder>> \/ work' = [w \in Workers |-> Resting]
        \/ UNCHANGED work /\ holder' = None
    BY <1>5 DEF Upload, Stop, Exit, Lose, vars, broker
  <2>3. \A w \in Workers : w # None
    BY ResultsAssumption
  <2> QED
    BY <1>3, <2>1, <2>2, <2>3 DEF Whole
<1>6. ASSUME NEW k \in Keys, ReopenFinding(k) PROVE FindingsInv'
  <2>1. Undisturbed
    BY <1>6 DEF ReopenFinding, Undisturbed
  <2>2. rows[k].closed = 0
    BY <1>n, <2>1 DEF FindingsInv, AllOpen
  <2> QED
    BY <1>6, <2>2 DEF ReopenFinding
<1> QED
  BY <1>1, <1>2, <1>4, <1>5, <1>6 DEF Next

LEMMA FindingsHold == Spec => []FindingsInv
BY TypesHold, QueueHolds, WorkHolds, InitFindings, StepFindings, PTL DEF Spec

-------------------------------------------------------------------------------
(* The assets: what a handler has passed of the tree is stored, and the    *)
(* broker's handler has stored the tree or given it up.                    *)

LEMMA HandlerTree ==
    ASSUME TypeInv, NEW w \in Workers, Handle(w), NEW l, l = work[w], TreeStored(l),
           NEW m, m = work'[w], m # Resting
    PROVE  TreeStored(m)' /\ (holder = w /\ TreeEnds(l) => TreeEnds(m)')
<1> DEFINE t == Tree[l.job]
           Keeps == TreeStored(m)' /\ (holder = w /\ TreeEnds(l) => TreeEnds(m)')
<1>1. /\ l \in Handling /\ Placed(l) /\ l.i \in Nat \ {0} /\ l.phase \in {"assets", "findings"}
      /\ DOMAIN t = 1..Len(t) /\ Len(t) \in Nat
  <2>1. l \in Handling /\ Placed(l)
    BY HandleMoves
  <2>2. t \in Seq(Assets)
    BY <2>1, ItemTypes
  <2> QED
    BY <2>1, <2>2 DEF Handling
<1>2. \A st \in Stages : At(w, st) => l.stage = st
  BY SaysOf
<1>3. ASSUME NEW k, GoOn(w, k) PROVE m = k
  BY <1>3 DEF GoOn, TypeInv, TypeOK
<1>r. ~Rest(w)
  BY <1>3 DEF Rest
<1>a. assets \subseteq assets' /\ dropped \subseteq dropped'
  BY HandleRows, HandleDrops DEF GiveUp
<1>4. ASSUME m.job = l.job, m.phase = l.phase, m.created = l.created,
             m.phase = "assets" => m.i = l.i,
             m.stage = "ack" => l.phase = "findings" \/ m.job \in Unknown
      PROVE  Keeps
  BY <1>1, <1>4, <1>a DEF TreeStored, TreeEnds, AssetsIn, Whole
<1>5. ASSUME Same(l, m), m.stage # "ack" PROVE Keeps
  BY <1>4, <1>5 DEF Same
<1>6. ASSUME NEW k, Abandoned(w, k) PROVE Keeps
  <2>1. /\ m.job = l.job /\ m.phase = "findings" /\ m.created = 0 /\ m.stage # "ack"
        /\ GiveUp(w, "assets")
    BY <1>3, <1>6 DEF Abandoned, Turned
  <2>2. holder = w => ~Whole(m.job, "assets")'
    BY <2>1 DEF GiveUp, Whole
  <2> QED
    BY <2>1, <2>2 DEF TreeStored, TreeEnds
<1>7. CASE Parse(w)
  <2>1. Same(l, m) /\ ((m.stage = "ack" /\ m.job \in Unknown) \/ Turned(m))
    BY <1>3, <1>7, <1>r, ParseIs
  <2> QED
    BY <1>4, <2>1 DEF Same, Turned
<1>8. CASE FindAsset(w)
  BY <1>3, <1>5, <1>6, <1>8, <1>r, FindAssetIs
<1>9. CASE SaveAsset(w)
  <2>1. ASSUME m.job = l.job, Saves(l), Turned(m), l.phase = "assets", m.phase = "assets",
               m.i = l.i + 1
        PROVE  Keeps
    <3>1. t[l.i] \in assets'
      BY <2>1 DEF Saves, AssetOf
    <3>2. \A n \in DOMAIN t : n < m.i => n < l.i \/ n = l.i
      BY <1>1, <2>1
    <3>3. \A n \in DOMAIN t : n < m.i => t[n] \in assets'
      BY <1>a, <2>1, <3>1, <3>2 DEF TreeStored
    <3> QED
      BY <2>1, <3>3 DEF TreeStored, TreeEnds, Turned
  <2>2. ASSUME m.job = l.job, m.stage = "check", m.created = l.created,
               l.phase = "findings", m.phase = "findings"
        PROVE  Keeps
    BY <1>4, <2>2
  <2> QED
    BY <1>3, <1>6, <1>9, <1>r, <2>1, <2>2, SaveAssetIs
<1>10. CASE Announce(w)
  <2>1. l.stage = "announce" /\ l.phase = "assets" /\ l.i = Len(t) + 1
    BY <1>1, <1>2, <1>10 DEF Announce, Stages, Placed, Items
  <2>2. m.job = l.job /\ Turned(m)
    BY <1>3, <1>10, <1>r, AnnounceIs
  <2>3. \A n \in DOMAIN t : t[n] \in assets'
    BY <1>1, <1>a, <2>1 DEF TreeStored
  <2> QED
    BY <2>2, <2>3 DEF TreeStored, TreeEnds, AssetsIn, Turned
<1>11. CASE Check(w) \/ AddFinding(w) \/ Flush(w) \/ Report(w) \/ Publish(w)
  <2>1. l.phase = "findings"
    BY <1>1, <1>2, <1>11 DEF Check, AddFinding, Flush, Report, Publish, Stages, Placed
  <2>2. m.job = l.job /\ m.phase = l.phase /\ m.created = l.created
    <3>1. CASE Check(w)
      BY <1>3, <1>r, <3>1, CheckIs DEF Same
    <3>2. CASE AddFinding(w)
      BY <1>3, <3>2, AddFindingIs
    <3>3. CASE Flush(w)
      BY <1>3, <3>3, FlushIs
    <3>4. CASE Report(w)
      BY <1>3, <1>r, <3>4, ReportIs DEF Same
    <3>5. CASE Publish(w)
      BY <1>3, <1>r, <3>5, PublishIs DEF Same
    <3> QED
      BY <1>11, <3>1, <3>2, <3>3, <3>4, <3>5
  <2> QED
    BY <1>4, <2>1, <2>2
<1>12. CASE Ack(w)
  BY <1>3, <1>12 DEF Ack
<1> QED
  BY <1>7, <1>8, <1>9, <1>10, <1>11, <1>12 DEF Handle

LEMMA AllInTree ==
    ASSUME \A j \in done' \ (Unknown \cup Unparsable) : Whole(j, "assets")' => AssetsIn(j)',
           \A w \in Workers : \A o : o = work'[w] /\ o # Resting => TreeStored(o)',
           \A w \in Workers : \A o : o = work'[w] /\ o # Resting /\ holder' = w => TreeEnds(o)'
    PROVE  AssetsInv'
BY DEF AssetsInv, Working, TreeStored, TreeEnds, AssetsIn, Whole

LEMMA HandleAssets ==
    ASSUME TypeInv, AssetsInv, Undisturbed, NEW w \in Workers, Handle(w)
    PROVE  AssetsInv'
<1>1. PICK l : l = work[w]
  OBVIOUS
<1>2. /\ l \in Handling /\ Working(w) /\ TreeStored(l) /\ (holder = w => TreeEnds(l))
      /\ \A v \in Workers \ {w} : work'[v] = work[v]
  BY <1>1, HandleMoves DEF AssetsInv
<1>3. /\ assets \subseteq assets' /\ dropped \subseteq dropped'
      /\ holder # w => dropped' = dropped
  BY HandleRows, HandleDrops DEF GiveUp
<1>4. holder' = holder \/ holder' = None
  BY HandleMoves DEF Rest, Ack, Free
<1>5. \A j \in done \ (Unknown \cup Unparsable) : Whole(j, "assets")' => AssetsIn(j)'
  BY <1>3 DEF AssetsInv, AssetsIn, Whole
<1>6. \A j \in done' \ (Unknown \cup Unparsable) : Whole(j, "assets")' => AssetsIn(j)'
  <2>1. CASE done' = done
    BY <1>5, <2>1
  <2>2. CASE Ack(w) /\ holder = w /\ done' = done \cup {l.job}
    <3>1. l.job \notin Unknown /\ Whole(l.job, "assets") => AssetsIn(l.job)
      BY <1>1, <1>2, <2>2 DEF Ack, At, TreeStored, TreeEnds
    <3>2. l.job \notin Unknown /\ Whole(l.job, "assets")' => AssetsIn(l.job)'
      BY <1>3, <3>1 DEF AssetsIn, Whole
    <3> QED
      BY <1>5, <2>2, <3>2
  <2> QED
    BY <1>1, <2>1, <2>2, HandleMoves DEF Ack
<1>7. ASSUME NEW v \in Workers, NEW o, o = work'[v], o # Resting
      PROVE  TreeStored(o)' /\ (holder' = v => TreeEnds(o)')
  <2>1. holder' = v => holder = v
    BY <1>4, ResultsAssumption
  <2>2. CASE v = w
    BY <1>1, <1>2, <1>7, <2>1, <2>2, HandlerTree
  <2>3. CASE v # w
    <3>1. o = work[v] /\ Working(v) /\ TreeStored(o) /\ (holder' = v => TreeEnds(o))
      BY <1>2, <1>7, <2>1, <2>3 DEF AssetsInv, Working
    <3>2. holder' = v => dropped' = dropped
      BY <1>3, <2>1, <2>3
    <3> QED
      BY <1>3, <3>1, <3>2 DEF TreeStored, TreeEnds, AssetsIn, Whole
  <2> QED
    BY <2>2, <2>3
<1> QED
  BY <1>6, <1>7, AllInTree

LEMMA InitAssets == Init => AssetsInv
BY DEF Init, AssetsInv, Working

LEMMA StepAssets ==
    TypeInv /\ QueueInv /\ AssetsInv /\ [Next]_vars => AssetsInv'
<1> SUFFICES ASSUME TypeInv, QueueInv, AssetsInv, [Next]_vars, Undisturbed'
             PROVE  AssetsInv'
  BY DEF AssetsInv
<1>1. ASSUME NEW w \in Workers, Handle(w) PROVE AssetsInv'
  <2>1. Undisturbed
    BY <1>1, HandleRows DEF Undisturbed
  <2> QED
    BY <1>1, <2>1, HandleAssets
<1>2. CASE (\E k \in Keys : CloseFinding(k) \/ CreateFinding(k))
           \/ (\E a \in Assets : CreateAsset(a)) \/ DeleteProject
  BY <1>2, UsersDisturb
<1>3. ASSUME UNCHANGED <<project, assets, edits>>, done' = done,
             \A j \in done : Whole(j, "assets")' => Whole(j, "assets"),
             \A w \in Workers : \A o : o = work'[w] =>
                \/ o = Resting
                \/ o.stage = "parse" /\ o.phase = "assets" /\ o.i = 1
                   /\ Tree[o.job] \in Seq(Assets)
                \/ o = work[w] /\ (holder' = w => holder = w /\ dropped' = dropped)
      PROVE  AssetsInv'
  <2>1. Undisturbed
    BY <1>3 DEF Undisturbed
  <2>2. \A j \in done' \ (Unknown \cup Unparsable) : Whole(j, "assets")' => AssetsIn(j)'
    BY <1>3, <2>1 DEF AssetsInv, AssetsIn
  <2>3. ASSUME NEW v \in Workers, NEW o, o = work'[v], o # Resting
        PROVE  TreeStored(o)' /\ (holder' = v => TreeEnds(o)')
    <3>1. CASE o = work[v] /\ (holder' = v => holder = v /\ dropped' = dropped)
      <4>1. TreeStored(o) /\ (holder' = v => TreeEnds(o))
        BY <2>1, <2>3, <3>1 DEF AssetsInv, Working
      <4> QED
        BY <1>3, <3>1, <4>1 DEF TreeStored, TreeEnds, AssetsIn, Whole
    <3>2. CASE /\ o.stage = "parse" /\ o.phase = "assets" /\ o.i = 1
               /\ Tree[o.job] \in Seq(Assets)
      BY <3>2 DEF TreeStored, TreeEnds
    <3> QED
      BY <1>3, <2>3, <3>1, <3>2
  <2> QED
    BY <2>2, <2>3, AllInTree
<1>4. ASSUME NEW w \in Workers, Deliver(w) PROVE AssetsInv'
  <2>1. /\ UNCHANGED <<project, assets, edits>> /\ done' = done /\ holder' = w
        /\ dropped' = {d \in dropped : d[1] # Head(queue)}
    BY <1>4 DEF Deliver, store, users
  <2>2. Head(queue) \notin done
    BY <1>4, HeadIs DEF Deliver
  <2>3. \A j \in done : Whole(j, "assets")' => Whole(j, "assets")
    BY <2>1, <2>2 DEF Whole
  <2>4. /\ work'[w].stage = "parse" /\ work'[w].phase = "assets" /\ work'[w].i = 1
        /\ Tree[work'[w].job] \in Seq(Assets)
        /\ \A v \in Workers \ {w} : work'[v] = work[v]
    BY <1>4, DeliverIs, ItemTypes
  <2> QED
    BY <1>3, <2>1, <2>3, <2>4
<1>5. CASE \/ \E j \in Jobs : Upload(j)
           \/ \E k \in Keys : ReopenFinding(k)
           \/ Stop \/ Exit \/ Lose \/ UNCHANGED vars
  <2>1. UNCHANGED <<project, assets, edits, done, dropped>>
    BY <1>5 DEF Upload, ReopenFinding, Stop, Exit, Lose, vars, store, broker, users
  <2>2. \/ UNCHANGED <<work, holder>> \/ work' = [w \in Workers |-> Resting]
        \/ UNCHANGED work /\ holder' = None
    BY <1>5 DEF Upload, ReopenFinding, Stop, Exit, Lose, vars, broker
  <2>3. \A w \in Workers : w # None
    BY ResultsAssumption
  <2> QED
    BY <1>3, <2>1, <2>2, <2>3 DEF Whole
<1> QED
  BY <1>1, <1>2, <1>4, <1>5 DEF Next

LEMMA AssetsHold == Spec => []AssetsInv
BY TypesHold, QueueHolds, InitAssets, StepAssets, PTL DEF Spec

\* A job that is done, and that nobody still works on, has left a row for each
\* of its findings and each asset of its tree, except what the handler that
\* acknowledged it gave up, as long as nobody else wrote the tables: through
\* restarts, crashes, lost connections, handlers of the same job side by side,
\* and transactions that the constraints refuse.
THEOREM OutputsAreStored == Spec => []OutputStored
<1>1. FindingsInv /\ AssetsInv => OutputStored
  BY DEF FindingsInv, AssetsInv, OutputStored, Settled, DoneStored, FindingsIn, AssetsIn, Whole
<1> QED
  BY <1>1, FindingsHold, AssetsHold, PTL

-------------------------------------------------------------------------------
(* Announcements.                                                          *)

SaidOnce(j) ==
    /\ \A n \in Notices : notices[j][n] =< 1
    /\ notices[j]["assets"] > 0 => AssetsIn(j)
    /\ notices[j]["findings"] > 0 => FindingsIn(j)
    /\ notices[j]["signal"] > 0 => AssetsIn(j) /\ FindingsIn(j)

\* What a handler counts has not been announced.
CountsNews(l) ==
    l.job \notin Anonymous =>
        /\ l.phase = "assets" /\ l.created > 0 => notices[l.job]["assets"] = 0
        /\ l.stage \notin {"publish", "ack"} /\ l.added > 0 => notices[l.job]["findings"] = 0
        /\ l.stage # "ack" /\ (l.created > 0 \/ l.added > 0) => notices[l.job]["signal"] = 0

\* What a handler has read is still so, because nobody else writes.
ReadsTrue(l) ==
    /\ l.stage = "add" => ~Exists(Findings[l.job][l.i])
    /\ l.stage = "save" => (l.found <=> AssetOf(l) \in assets)

Marked(l) == \E part \in Parts : ~Whole(l.job, part)

\* A handler gives something up only when the API stops; its notification of
\* findings is then cancelled too, and the message that follows it.
GivesUpLast(l) ==
    /\ Marked(l) => stopping
    /\ ~Whole(l.job, "findings") \/ l.pending # <<>> => l.added > 0
    /\ l.stage \in {"publish", "ack"} /\ l.added > 0 /\ l.job \notin Anonymous => ~Marked(l)

NoticesInv ==
    Undisturbed /\ losses = 0 /\ errors = 0 =>
        /\ \A j \in Jobs \ Anonymous : SaidOnce(j)
        /\ \A w \in Workers : Working(w) =>
              CountsNews(work[w]) /\ ReadsTrue(work[w]) /\ GivesUpLast(work[w])

LEMMA AllSaid ==
    ASSUME \A j \in Jobs \ Anonymous : SaidOnce(j)',
           \A w \in Workers : \A o : o = work'[w] /\ o # Resting =>
               CountsNews(o)' /\ ReadsTrue(o)' /\ GivesUpLast(o)'
    PROVE  NoticesInv'
BY DEF NoticesInv, Working, CountsNews, ReadsTrue, GivesUpLast, Marked, Whole, Exists, AssetOf

LEMMA StillSaid ==
    ASSUME TypeInv, Grows, assets \subseteq assets', notices' = notices,
           NEW j \in Jobs, SaidOnce(j)
    PROVE  SaidOnce(j)'
<1>1. \A n \in DOMAIN Findings[j] : Findings[j][n] \in Keys
  <2>1. Findings[j] \in Seq(Keys)
    BY ResultsAssumption DEF Keys
  <2> QED
    BY <2>1
<1>2. FindingsIn(j) => FindingsIn(j)'
  BY <1>1 DEF Grows, WillExist, FindingsIn
<1>3. AssetsIn(j) => AssetsIn(j)'
  BY DEF AssetsIn
<1> QED
  BY <1>2, <1>3 DEF SaidOnce

\* The first notification of its kind, when what it announces is there.
LEMMA SaidFirst ==
    ASSUME TypeInv, UNCHANGED store, NEW j \in Jobs, NEW n \in Notices,
           notices' = [notices EXCEPT ![j][n] = @ + 1],
           NEW i \in Jobs, SaidOnce(i),
           i = j => /\ notices[j][n] = 0
                    /\ n \in {"assets", "signal"} => AssetsIn(j)
                    /\ n \in {"findings", "signal"} => FindingsIn(j)
    PROVE  SaidOnce(i)'
<1>1. /\ notices'[j][n] = notices[j][n] + 1
      /\ \A k \in Notices : i # j \/ k # n => notices'[i][k] = notices[i][k]
  BY NoticeIs DEF TypeInv
<1>2. (AssetsIn(i) => AssetsIn(i)') /\ (FindingsIn(i) => FindingsIn(i)')
  BY DEF AssetsIn, FindingsIn, Exists, store
<1>3. \A k \in Notices : notices'[i][k] =< 1
  BY <1>1 DEF SaidOnce
<1>4. /\ notices'[i]["assets"] > 0 => AssetsIn(i)'
      /\ notices'[i]["findings"] > 0 => FindingsIn(i)'
      /\ notices'[i]["signal"] > 0 => AssetsIn(i)' /\ FindingsIn(i)'
  BY <1>1, <1>2 DEF SaidOnce, Notices
<1> QED
  BY <1>3, <1>4 DEF SaidOnce

\* A job with something missing has announced nothing of that kind.
LEMMA NothingSaid ==
    ASSUME TypeInv, NEW j \in Jobs, SaidOnce(j)
    PROVE  /\ ~AssetsIn(j) => notices[j]["assets"] = 0 /\ notices[j]["signal"] = 0
           /\ ~FindingsIn(j) => notices[j]["findings"] = 0 /\ notices[j]["signal"] = 0
<1>1. \A n \in Notices : notices[j][n] \in Nat
  BY DEF TypeInv, TypeOK
<1> QED
  BY <1>1 DEF SaidOnce, Notices

LEMMA HandlerReads ==
    ASSUME TypeInv, AllOpen, NEW w \in Workers, Handle(w), NEW l, l = work[w],
           NEW m, m = work'[w], m # Resting
    PROVE  ReadsTrue(m)'
<1>1. l \in Handling /\ Placed(l) /\ \A st \in Stages : At(w, st) => l.stage = st
  BY HandleMoves, SaysOf
<1>2. ASSUME NEW k, GoOn(w, k) PROVE m = k
  BY <1>2 DEF GoOn, TypeInv, TypeOK
<1>r. ~Rest(w)
  BY <1>2 DEF Rest
<1>3. ASSUME m.stage \notin {"add", "save"} PROVE ReadsTrue(m)'
  BY <1>3 DEF ReadsTrue
<1>4. ASSUME NEW k, Turned(m) \/ Abandoned(w, k) PROVE ReadsTrue(m)'
  BY <1>2, <1>3, <1>4 DEF Turned, Abandoned
<1>5. CASE FindAsset(w)
  <2>1. ASSUME Same(l, m), m.stage = "save", m.found <=> AssetOf(l) \in assets
        PROVE  ReadsTrue(m)'
    <3>1. AssetOf(m) = AssetOf(l) /\ UNCHANGED store
      BY <1>5, <2>1 DEF FindAsset, AssetOf, Same
    <3> QED
      BY <2>1, <3>1 DEF ReadsTrue, AssetOf, store
  <2> QED
    BY <1>2, <1>4, <1>5, <1>r, <2>1, FindAssetIs
<1>6. CASE Check(w)
  <2>1. ASSUME Same(l, m), m.stage = "add", rows[Findings[l.job][l.i]].open = 0
        PROVE  ReadsTrue(m)'
    <3>1. l.stage = "check" /\ rows' = rows
      BY <1>1, <1>6 DEF Check, Stages, store
    <3>2. Findings[l.job][l.i] \in Keys
      BY <1>1, <3>1, ItemTypes DEF Placed
    <3>3. ~Exists(Findings[m.job][m.i])
      BY <2>1, <3>2 DEF Exists, AllOpen, Same
    <3> QED
      BY <2>1, <3>1, <3>3 DEF ReadsTrue, Exists
  <2> QED
    BY <1>2, <1>4, <1>6, <1>r, <2>1, CheckIs
<1>7. CASE Parse(w)
  BY <1>2, <1>3, <1>4, <1>7, <1>r, ParseIs
<1>8. CASE SaveAsset(w)
  BY <1>2, <1>3, <1>4, <1>8, <1>r, SaveAssetIs
<1>9. CASE Announce(w) \/ AddFinding(w)
  BY <1>2, <1>4, <1>9, <1>r, AnnounceIs, AddFindingIs
<1>10. CASE Flush(w) \/ Report(w) \/ Publish(w)
  BY <1>2, <1>3, <1>10, <1>r, FlushIs, ReportIs, PublishIs
<1>11. CASE Ack(w)
  BY <1>2, <1>11 DEF Ack
<1> QED
  BY <1>5, <1>6, <1>7, <1>8, <1>9, <1>10, <1>11 DEF Handle

\* Without errors, only an API that stops makes a handler give something up.
LEMMA KeepsAll ==
    ASSUME TypeInv, project, errors' = 0, NEW w \in Workers, Handle(w), ReadsTrue(work[w])
    PROVE  UNCHANGED dropped \/ stopping
<1> SUFFICES ASSUME ~stopping PROVE UNCHANGED dropped
  OBVIOUS
<1>1. ~Fails /\ ~Breaks
  BY DEF Fails, Breaks, TypeInv, TypeOK
<1>2. CASE SaveAsset(w)
  <2>1. work[w] \in Handling /\ Placed(work[w]) /\ work[w].stage = "save"
    BY <1>2, SaysOf DEF SaveAsset, Stages
  <2>2. work[w].phase = "assets" => Allowed(work[w])
    BY <2>1 DEF Placed, Allowed, Insertable, ReadsTrue
  <2>3. work[w].phase # "assets" /\ Abandon(w) => UNCHANGED dropped
    BY DEF Abandon, Rest
  <2> QED
    BY <1>1, <1>2, <2>2, <2>3 DEF SaveAsset
<1>3. CASE FindAsset(w) \/ Flush(w)
  BY <1>1, <1>3 DEF FindAsset, Flush
<1>4. CASE Parse(w) \/ Announce(w) \/ Check(w) \/ AddFinding(w) \/ Report(w) \/ Publish(w) \/ Ack(w)
  BY <1>4 DEF Parse, Announce, Check, AddFinding, Report, Publish, Ack, Rest, broker
<1> QED
  BY <1>2, <1>3, <1>4 DEF Handle

LEMMA HandlerGivesUp ==
    ASSUME TypeInv, project, errors' = 0, NEW w \in Workers, Handle(w), NEW l, l = work[w],
           ReadsTrue(l), GivesUpLast(l), NEW m, m = work'[w], m # Resting
    PROVE  GivesUpLast(m)'
<1>1. /\ l \in Handling /\ Placed(l) /\ m \in Handling /\ m.job = l.job
      /\ l.added \in Nat /\ l.phase \in {"assets", "findings"}
      /\ \A st \in Stages : At(w, st) => l.stage = st
  BY HandleMoves, SaysOf DEF Handling, Ack
<1>2. ASSUME NEW k, GoOn(w, k) PROVE m = k
  BY <1>2 DEF GoOn, TypeInv, TypeOK
<1>r. ~Rest(w)
  BY <1>2 DEF Rest
<1>s. UNCHANGED stopping /\ (UNCHANGED dropped \/ stopping)
  <2>1. UNCHANGED stopping
    BY DEF Handle, Parse, FindAsset, SaveAsset, Announce, Check, AddFinding, Flush, Report,
           Publish, Ack, faults
  <2> QED
    BY <2>1, KeepsAll
<1>3. Marked(m)' => stopping'
  BY <1>1, <1>s DEF GivesUpLast, Marked, Whole
<1>4. ASSUME UNCHANGED dropped \/ GiveUp(w, "assets"),
             m.pending # <<>> => m.added > 0, l.added > 0 => m.added > 0,
             m.stage \notin {"publish", "ack"} \/ m.added = 0
      PROVE  GivesUpLast(m)'
  <2>1. Whole(l.job, "findings")' <=> Whole(l.job, "findings")
    BY <1>4 DEF GiveUp, Whole
  <2> QED
    BY <1>1, <1>3, <1>4, <2>1 DEF GivesUpLast, Whole
<1>5. ASSUME UNCHANGED dropped, Same(l, m), m.stage \notin {"publish", "ack"} PROVE GivesUpLast(m)'
  BY <1>4, <1>5 DEF GivesUpLast, Same
<1>6. ASSUME NEW k, Abandoned(w, k) PROVE GivesUpLast(m)'
  <2>1. /\ GiveUp(w, "assets") /\ l.phase = "assets" /\ m.added = l.added /\ m.pending = <<>>
    BY <1>2, <1>6 DEF Abandoned
  <2>2. l.added = 0
    BY <1>1, <2>1 DEF Placed
  <2> QED
    BY <1>4, <2>1, <2>2
<1>7. CASE Parse(w)
  <2>1. Same(l, m) /\ UNCHANGED dropped
    BY <1>2, <1>7, <1>r, ParseIs
  <2>2. l.added = 0 /\ l.pending = <<>>
    BY <1>1, <1>7 DEF Parse, Stages, Placed
  <2> QED
    BY <1>4, <2>1, <2>2 DEF Same
<1>8. CASE FindAsset(w)
  BY <1>2, <1>5, <1>6, <1>8, <1>r, FindAssetIs
<1>9. CASE SaveAsset(w)
  <2>1. ASSUME UNCHANGED dropped, m.pending = <<>>, m.added = l.added,
               m.stage = "check" \/ (Turned(m) /\ m.phase = "assets")
        PROVE  GivesUpLast(m)'
    BY <1>4, <2>1 DEF Turned
  <2> QED
    BY <1>2, <1>6, <1>9, <1>r, <2>1, SaveAssetIs
<1>10. CASE Announce(w)
  <2>1. UNCHANGED dropped /\ m.pending = l.pending /\ m.added = l.added
    BY <1>2, <1>10, <1>r, AnnounceIs
  <2>2. l.added = 0 /\ l.pending = <<>>
    BY <1>1, <1>10 DEF Announce, Stages, Placed
  <2> QED
    BY <1>4, <2>1, <2>2
<1>11. CASE Check(w) \/ AddFinding(w)
  <2>1. l.stage \in {"check", "add"} /\ UNCHANGED dropped
    BY <1>1, <1>11, <1>r DEF Check, AddFinding, Stages, broker
  <2>2. l.phase = "findings" /\ Len(Items(l)) > 0
    BY <1>1, <2>1, ItemTypes DEF Placed, Handling
  <2>3. /\ m.stage \notin {"publish", "ack"}
        /\ \/ m.pending = l.pending /\ m.added = l.added
           \/ m.added = l.added + 1
    <3>1. ASSUME Turned(m), m.phase = l.phase PROVE m.stage \notin {"publish", "ack"}
      <4>1. Items(m) # <<>>
        BY <1>1, <2>2, <3>1 DEF Items
      <4> QED
        BY <3>1, <4>1 DEF Turned
    <3>2. CASE Check(w)
      BY <1>2, <1>r, <3>1, <3>2, CheckIs DEF Same
    <3>3. CASE AddFinding(w)
      BY <1>2, <3>1, <3>3, AddFindingIs
    <3> QED
      BY <1>11, <3>2, <3>3
  <2>4. /\ m.pending # <<>> => m.added > 0
        /\ l.added > 0 => m.added > 0
    BY <1>1, <2>3 DEF GivesUpLast
  <2> QED
    BY <1>4, <2>1, <2>3, <2>4
<1>12. CASE Flush(w)
  <2>1. m.stage = "report" /\ m.added = l.added /\ m.pending = <<>>
    BY <1>2, <1>12, FlushIs
  <2>2. UNCHANGED dropped \/ l.added > 0
    BY <1>12, FlushIs DEF GivesUpLast
  <2> QED
    BY <1>1, <1>3, <2>1, <2>2 DEF GivesUpLast, Whole
<1>13. CASE Report(w)
  <2>1. UNCHANGED dropped /\ Same(l, m)
    BY <1>2, <1>13, <1>r, ReportIs
  <2>2. l.added > 0 /\ l.job \notin Anonymous => ~stopping
    BY <1>13, <1>r DEF Report
  <2> QED
    BY <1>1, <1>3, <2>1, <2>2 DEF GivesUpLast, Marked, Whole, Same
<1>14. CASE Publish(w)
  <2>1. UNCHANGED dropped /\ Same(l, m) /\ l.stage = "publish"
    BY <1>1, <1>2, <1>14, <1>r, PublishIs DEF Publish, Stages
  <2> QED
    BY <1>1, <1>3, <2>1 DEF GivesUpLast, Marked, Whole, Same
<1>15. CASE Ack(w)
  BY <1>2, <1>15 DEF Ack
<1> QED
  BY <1>7, <1>8, <1>9, <1>10, <1>11, <1>12, <1>13, <1>14, <1>15 DEF Handle

LEMMA HandlerCounts ==
    ASSUME TypeInv, NEW w \in Workers, Handle(w), NEW l, l = work[w], l.job \notin Anonymous,
           SaidOnce(l.job), CountsNews(l), ReadsTrue(l), NEW m, m = work'[w], m # Resting
    PROVE  CountsNews(m)'
<1>1. /\ l \in Handling /\ Placed(l) /\ l.i \in Nat \ {0} /\ l.job \in Jobs
      /\ l.created \in Nat /\ l.added \in Nat /\ l.phase \in {"assets", "findings"}
      /\ \A st \in Stages : At(w, st) => l.stage = st
  BY HandleMoves, SaysOf DEF Handling
<1>2. ASSUME NEW k, GoOn(w, k) PROVE m = k
  BY <1>2 DEF GoOn, TypeInv, TypeOK
<1>r. ~Rest(w)
  BY <1>2 DEF Rest
<1>3. ASSUME notices' = notices, m.job = l.job, l.stage \notin {"publish", "ack"},
             m.created = l.created, m.added = l.added, m.phase = "assets" => l.phase = "assets"
      PROVE  CountsNews(m)'
  BY <1>3 DEF CountsNews
<1>4. ASSUME m.created = 0, m.added = 0 PROVE CountsNews(m)'
  BY <1>4 DEF CountsNews
<1>5. ASSUME NEW k, Abandoned(w, k) PROVE CountsNews(m)'
  BY <1>1, <1>2, <1>4, <1>5 DEF Abandoned, Placed
<1>6. CASE Parse(w)
  <2>1. Same(l, m)
    BY <1>2, <1>6, <1>r, ParseIs
  <2>2. l.created = 0 /\ l.added = 0
    BY <1>1, <1>6 DEF Parse, Stages, Placed
  <2> QED
    BY <1>4, <2>1, <2>2 DEF Same
<1>7. CASE FindAsset(w)
  <2>1. l.stage = "find" /\ notices' = notices
    BY <1>1, <1>7 DEF FindAsset, Stages
  <2>2. ASSUME Same(l, m) PROVE CountsNews(m)'
    BY <1>3, <2>1, <2>2 DEF Same
  <2> QED
    BY <1>2, <1>5, <1>7, <1>r, <2>2, FindAssetIs
<1>8. CASE SaveAsset(w)
  <2>1. l.stage = "save" /\ notices' = notices
    BY <1>1, <1>8 DEF SaveAsset, Stages
  <2>2. ASSUME m.job = l.job, m.added = l.added, m.phase = "findings", m.created = l.created
        PROVE  CountsNews(m)'
    BY <1>3, <2>1, <2>2
  <2>3. ASSUME m.job = l.job, m.added = l.added, l.phase = "assets", m.phase = "assets",
               m.created = IF l.found THEN l.created ELSE l.created + 1
        PROVE  CountsNews(m)'
    <3>1. CASE l.found
      BY <1>3, <2>1, <2>3, <3>1
    <3>2. CASE ~l.found
      <4>1. ~AssetsIn(l.job)
        <5>1. AssetOf(l) \notin assets
          BY <2>1, <3>2 DEF ReadsTrue
        <5>2. l.i \in DOMAIN Tree[l.job] /\ AssetOf(l) = Tree[l.job][l.i]
          BY <1>1, <2>1, <2>3, ItemTypes DEF Placed
        <5> QED
          BY <5>1, <5>2 DEF AssetsIn
      <4>2. notices[l.job]["assets"] = 0 /\ notices[l.job]["signal"] = 0
        BY <1>1, <4>1, NothingSaid
      <4>3. m.added = 0
        BY <1>1, <2>3 DEF Placed
      <4> QED
        BY <2>1, <2>3, <4>2, <4>3 DEF CountsNews
    <3> QED
      BY <3>1, <3>2
  <2> QED
    BY <1>2, <1>5, <1>8, <1>r, <2>2, <2>3, SaveAssetIs
<1>9. CASE Announce(w)
  <2>1. l.stage = "announce" /\ l.phase = "assets" /\ l.added = 0
    BY <1>1, <1>9 DEF Announce, Stages, Placed
  <2>2. m.job = l.job /\ m.phase = "findings" /\ m.created = l.created /\ m.added = l.added
    BY <1>2, <1>9, <1>r, AnnounceIs
  <2>3. \/ notices' = notices
        \/ notices' = [notices EXCEPT ![l.job]["assets"] = @ + 1]
    BY <1>9 DEF Announce, Notified
  <2>4. notices'[l.job]["signal"] = notices[l.job]["signal"]
    BY <1>1, <2>3, NoticeIs DEF TypeInv, Notices
  <2> QED
    BY <2>1, <2>2, <2>4 DEF CountsNews
<1>10. CASE Check(w)
  <2>1. l.stage = "check" /\ l.phase = "findings" /\ notices' = notices
    BY <1>1, <1>10 DEF Check, Stages, Placed
  <2>2. m.job = l.job /\ m.phase = l.phase /\ m.created = l.created /\ m.added = l.added
    BY <1>2, <1>10, <1>r, CheckIs DEF Same
  <2> QED
    BY <1>3, <2>1, <2>2
<1>11. CASE AddFinding(w)
  <2>1. l.stage = "add" /\ l.phase = "findings" /\ notices' = notices
    BY <1>1, <1>11 DEF AddFinding, Stages, Placed
  <2>2. m.job = l.job /\ m.phase = l.phase
    BY <1>2, <1>11, AddFindingIs
  <2>3. ~FindingsIn(l.job)
    <3>1. l.i \in DOMAIN Findings[l.job]
      BY <1>1, <2>1, ItemTypes DEF Placed
    <3> QED
      BY <2>1, <3>1 DEF ReadsTrue, FindingsIn
  <2>4. notices[l.job]["findings"] = 0 /\ notices[l.job]["signal"] = 0
    BY <1>1, <2>3, NothingSaid
  <2> QED
    BY <2>1, <2>2, <2>4 DEF CountsNews
<1>12. CASE Flush(w)
  <2>1. l.stage = "flush" /\ notices' = notices
    BY <1>1, <1>12 DEF Flush, Stages
  <2>2. m.job = l.job /\ m.created = l.created /\ m.added = l.added /\ m.phase = l.phase
    BY <1>2, <1>12, FlushIs
  <2> QED
    BY <1>3, <2>1, <2>2
<1>13. CASE Report(w)
  <2>1. l.stage = "report" /\ l.phase = "findings"
    BY <1>1, <1>13 DEF Report, Stages, Placed
  <2>2. Same(l, m) /\ m.stage = "publish"
    BY <1>2, <1>13, <1>r, ReportIs
  <2>3. \/ notices' = notices
        \/ notices' = [notices EXCEPT ![l.job]["findings"] = @ + 1]
    BY <1>13 DEF Report, Notified
  <2>4. notices'[l.job]["signal"] = notices[l.job]["signal"]
    BY <1>1, <2>3, NoticeIs DEF TypeInv, Notices
  <2> QED
    BY <2>1, <2>2, <2>4 DEF CountsNews, Same
<1>14. CASE Publish(w)
  <2>1. l.phase = "findings"
    BY <1>1, <1>14 DEF Publish, Stages, Placed
  <2>2. Same(l, m) /\ m.stage = "ack"
    BY <1>2, <1>14, <1>r, PublishIs
  <2> QED
    BY <2>1, <2>2 DEF CountsNews, Same
<1>15. CASE Ack(w)
  BY <1>2, <1>15 DEF Ack
<1> QED
  BY <1>6, <1>7, <1>8, <1>9, <1>10, <1>11, <1>12, <1>13, <1>14, <1>15 DEF Handle

\* What a notification is about is stored by then.
LEMMA HandlerSays ==
    ASSUME TypeInv, NEW w \in Workers, Handle(w), NEW l, l = work[w], Sifted(l), Grows,
           CountsNews(l), GivesUpLast(l), TreeStored(l), TreeEnds(l), EndsStored(l),
           NEW i \in Jobs \ Anonymous, SaidOnce(i)
    PROVE  SaidOnce(i)'
<1>1. /\ l \in Handling /\ Placed(l) /\ l.job \in Jobs /\ l.created \in Nat /\ l.added \in Nat
      /\ \A st \in Stages : At(w, st) => l.stage = st
  BY HandleMoves, SaysOf DEF Handling
<1>2. notices' = notices => SaidOnce(i)'
  BY HandleRows, StillSaid
<1>3. CASE Announce(w)
  <2>1. UNCHANGED store /\ l.stage = "announce" /\ l.phase = "assets"
        /\ l.i = Len(Tree[l.job]) + 1
    BY <1>1, <1>3 DEF Announce, Stages, Placed, Items
  <2>2. CASE l.created > 0 /\ notices' = [notices EXCEPT ![l.job]["assets"] = @ + 1]
    <3>1. AssetsIn(l.job)
      <4>1. Tree[l.job] \in Seq(Assets)
        BY <1>1, ItemTypes
      <4> QED
        BY <2>1, <4>1 DEF TreeStored, AssetsIn
    <3>2. i = l.job => notices[l.job]["assets"] = 0
      BY <2>1, <2>2 DEF CountsNews
    <3> QED
      BY <1>1, <2>1, <2>2, <3>1, <3>2, SaidFirst DEF Notices
  <2> QED
    BY <1>2, <1>3, <2>2 DEF Announce, Notified
<1>4. CASE Report(w)
  <2>1. UNCHANGED store /\ l.stage = "report"
    BY <1>1, <1>4 DEF Report, Stages
  <2>2. CASE /\ l.added > 0 /\ ~stopping
             /\ notices' = [notices EXCEPT ![l.job]["findings"] = @ + 1]
    <3>1. FindingsIn(l.job)
      BY <2>1, <2>2 DEF GivesUpLast, Marked, EndsStored, Sifted
    <3>2. i = l.job => notices[l.job]["findings"] = 0
      BY <2>1, <2>2 DEF CountsNews
    <3> QED
      BY <1>1, <2>1, <2>2, <3>1, <3>2, SaidFirst DEF Notices
  <2> QED
    BY <1>2, <1>4, <2>2 DEF Report, Notified
<1>5. CASE Publish(w)
  <2>1. UNCHANGED store /\ l.stage = "publish" /\ l.phase = "findings"
    BY <1>1, <1>5 DEF Publish, Stages, Placed
  <2>2. CASE /\ l.created > 0 \/ l.added > 0
             /\ notices' = [notices EXCEPT ![l.job]["signal"] = @ + 1]
    <3>1. ASSUME i = l.job PROVE FindingsIn(l.job) /\ AssetsIn(l.job)
      <4>1. l.added > 0 => ~Marked(l)
        BY <2>1, <3>1 DEF GivesUpLast
      <4>2. Whole(l.job, "findings")
        BY <4>1 DEF GivesUpLast, Marked
      <4>3. l.created > 0 \/ Whole(l.job, "assets")
        BY <2>2, <4>1 DEF Marked
      <4> QED
        BY <2>1, <4>2, <4>3 DEF EndsStored, Sifted, TreeStored, TreeEnds
    <3>2. i = l.job => notices[l.job]["signal"] = 0
      BY <2>1, <2>2 DEF CountsNews
    <3> QED
      BY <1>1, <2>1, <2>2, <3>1, <3>2, SaidFirst DEF Notices
  <2> QED
    BY <1>2, <1>5, <2>2 DEF Publish, Notified
<1>6. CASE Parse(w) \/ FindAsset(w) \/ SaveAsset(w) \/ Check(w) \/ AddFinding(w) \/ Flush(w) \/ Ack(w)
  BY <1>2, <1>6 DEF Parse, FindAsset, SaveAsset, Check, AddFinding, Flush, Ack
<1> QED
  BY <1>3, <1>4, <1>5, <1>6 DEF Handle

LEMMA HandleNotices ==
    ASSUME TypeInv, QueueInv, WorkInv, FindingsInv, AssetsInv, NoticesInv,
           Undisturbed, losses = 0, errors = 0, errors' = 0, NEW w \in Workers, Handle(w)
    PROVE  NoticesInv'
<1>1. PICK l : l = work[w]
  OBVIOUS
<1>2. /\ l \in Handling /\ Working(w) /\ l.job \in Jobs
      /\ \A v \in Workers \ {w} : work'[v] = work[v]
      /\ \/ work'[w] = Resting
         \/ work'[w].job = l.job
  BY <1>1, HandleMoves DEF Handling
<1>3. NoneLeftBehind /\ holder = w /\ Sifted(l) /\ \A v \in Workers \ {w} : work'[v] = Resting
  <2>1. \A v \in Workers : Working(v) => holder = v
    BY DEF WorkInv, Alone
  <2> QED
    BY <1>1, <1>2, <2>1 DEF WorkInv, NoneLeftBehind, Working
<1>4. /\ AllOpen /\ EndsStored(l) /\ TreeStored(l) /\ TreeEnds(l)
      /\ CountsNews(l) /\ ReadsTrue(l) /\ GivesUpLast(l) /\ project
      /\ \A j \in Jobs \ Anonymous : SaidOnce(j)
  BY <1>1, <1>2, <1>3 DEF FindingsInv, AssetsInv, NoticesInv, Undisturbed
<1>5. Grows
  BY <1>2, <1>3, OthersLeave, HandleRows
<1>6. \A j \in Jobs \ Anonymous : SaidOnce(j)'
  BY <1>1, <1>3, <1>4, <1>5, HandlerSays
<1>7. ASSUME NEW v \in Workers, NEW o, o = work'[v], o # Resting
      PROVE  CountsNews(o)' /\ ReadsTrue(o)' /\ GivesUpLast(o)'
  <2>1. v = w /\ o = work'[w] /\ o.job = l.job
    BY <1>2, <1>3, <1>7
  <2>2. ReadsTrue(o)'
    BY <1>1, <1>4, <1>7, <2>1, HandlerReads
  <2>3. GivesUpLast(o)'
    BY <1>1, <1>4, <1>7, <2>1, HandlerGivesUp
  <2>4. CASE l.job \in Anonymous
    BY <2>1, <2>2, <2>3, <2>4 DEF CountsNews
  <2>5. CASE l.job \notin Anonymous
    <3>1. SaidOnce(l.job)
      BY <1>2, <1>4, <2>5
    <3>2. CountsNews(o)'
      BY <1>1, <1>4, <1>7, <2>1, <2>5, <3>1, HandlerCounts
    <3> QED
      BY <2>2, <2>3, <3>2
  <2> QED
    BY <2>4, <2>5
<1> QED
  BY <1>6, <1>7, AllSaid

LEMMA InitNotices == Init => NoticesInv
BY DEF Init, NoticesInv, SaidOnce, Working, Notices

LEMMA StepNotices ==
    TypeInv /\ QueueInv /\ WorkInv /\ FindingsInv /\ AssetsInv /\ NoticesInv /\ [Next]_vars
        => NoticesInv'
<1> SUFFICES ASSUME TypeInv, QueueInv, WorkInv, FindingsInv, AssetsInv, NoticesInv, [Next]_vars,
                    Undisturbed', losses' = 0, errors' = 0
             PROVE  NoticesInv'
  BY DEF NoticesInv
<1>1. ASSUME NEW w \in Workers, Handle(w) PROVE NoticesInv'
  <2>1. Undisturbed /\ losses = 0 /\ errors = 0
    BY <1>1, HandleRows, HandleMoves DEF Undisturbed
  <2> QED
    BY <1>1, <2>1, HandleNotices
<1>2. CASE (\E k \in Keys : CloseFinding(k) \/ CreateFinding(k))
           \/ (\E a \in Assets : CreateAsset(a)) \/ DeleteProject
  BY <1>2, UsersDisturb
<1>3. ASSUME UNCHANGED <<store, notices, edits, losses, errors>>,
             \A w \in Workers : \A o : o = work'[w] =>
                 \/ o = Resting
                 \/ o = work[w] /\ dropped' = dropped /\ (stopping => stopping')
                 \/ /\ o.stage = "parse" /\ o.created = 0 /\ o.added = 0 /\ o.pending = <<>>
                    /\ \A part \in Parts : Whole(o.job, part)'
      PROVE  NoticesInv'
  <2>1. /\ Undisturbed /\ losses = 0 /\ errors = 0
        /\ \A j \in Jobs \ Anonymous : SaidOnce(j)'
    BY <1>3 DEF NoticesInv, Undisturbed, store, SaidOnce, AssetsIn, FindingsIn, Exists
  <2>2. ASSUME NEW v \in Workers, NEW o, o = work'[v], o # Resting
        PROVE  CountsNews(o)' /\ ReadsTrue(o)' /\ GivesUpLast(o)'
    <3>1. CASE o = work[v] /\ dropped' = dropped /\ (stopping => stopping')
      <4>1. CountsNews(o) /\ ReadsTrue(o) /\ GivesUpLast(o)
        BY <2>1, <2>2, <3>1 DEF NoticesInv, Working
      <4>2. CountsNews(o)' /\ ReadsTrue(o)'
        BY <1>3, <4>1 DEF CountsNews, ReadsTrue, Exists, AssetOf, store
      <4>3. GivesUpLast(o)'
        BY <3>1, <4>1 DEF GivesUpLast, Marked, Whole
      <4> QED
        BY <4>2, <4>3
    <3>2. CASE /\ o.stage = "parse" /\ o.created = 0 /\ o.added = 0 /\ o.pending = <<>>
               /\ \A part \in Parts : Whole(o.job, part)'
      <4>1. CountsNews(o)' /\ ReadsTrue(o)'
        BY <3>2 DEF CountsNews, ReadsTrue
      <4>2. GivesUpLast(o)'
        BY <3>2 DEF GivesUpLast, Marked, Whole
      <4> QED
        BY <4>1, <4>2
    <3> QED
      BY <1>3, <2>2, <3>1, <3>2
  <2> QED
    BY <2>1, <2>2, AllSaid
<1>4. ASSUME NEW w \in Workers, Deliver(w) PROVE NoticesInv'
  <2>1. /\ UNCHANGED <<store, notices, edits, losses, errors>>
        /\ dropped' = {d \in dropped : d[1] # Head(queue)}
    BY <1>4 DEF Deliver, faults, users
  <2>2. \A v \in Workers : work[v] = Resting
    BY <1>4, <2>1, ResultsAssumption DEF Deliver, WorkInv, Alone, Working
  <2>3. PICK m : m = work'[w]
    OBVIOUS
  <2>4. /\ m.stage = "parse" /\ m.created = 0 /\ m.added = 0 /\ m.pending = <<>>
        /\ m.job = Head(queue) /\ \A v \in Workers \ {w} : work'[v] = Resting
    BY <1>4, <2>2, <2>3, DeliverIs
  <2>5. \A part \in Parts : Whole(m.job, part)'
    BY <2>1, <2>4 DEF Whole
  <2> QED
    BY <1>3, <2>1, <2>3, <2>4, <2>5
<1>5. CASE (\E j \in Jobs : Upload(j)) \/ Stop \/ Exit \/ UNCHANGED vars
  <2>1. UNCHANGED <<store, notices, edits, losses, errors, dropped>>
    BY <1>5 DEF Upload, Stop, Exit, vars, broker, users, faults
  <2>2. \/ UNCHANGED work /\ (stopping => stopping')
        \/ work' = [w \in Workers |-> Resting]
    BY <1>5 DEF Upload, Stop, Exit, vars, faults
  <2> QED
    BY <1>3, <2>1, <2>2
<1>6. CASE Lose
  BY <1>6 DEF Lose, TypeInv, TypeOK
<1>7. ASSUME NEW k \in Keys, ReopenFinding(k) PROVE NoticesInv'
  <2>1. Undisturbed /\ NoneLeftBehind
    BY <1>7 DEF ReopenFinding, Undisturbed, NoneLeftBehind, faults
  <2>2. rows[k].closed = 0
    BY <2>1 DEF FindingsInv, AllOpen
  <2> QED
    BY <1>7, <2>2 DEF ReopenFinding
<1> QED
  BY <1>1, <1>2, <1>4, <1>5, <1>6, <1>7 DEF Next

\* A job announces its assets, its findings and the change of the project to
\* its user at most once, however often the API restarts under it, told to stop
\* or not, as long as nobody else writes the tables and no connection,
\* publication, read or database call fails.
THEOREM AnnouncedAtMostOnce == Spec => []AnnouncedOnce
<1>1. NoticesInv => AnnouncedOnce
  BY DEF NoticesInv, AnnouncedOnce, SaidOnce
<1> QED
  BY <1>1, TypesHold, QueueHolds, WorkHolds, FindingsHold, AssetsHold, InitNotices, StepNotices, PTL
  DEF Spec

===============================================================================
