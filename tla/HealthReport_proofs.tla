-------------------------- MODULE HealthReport_proofs --------------------------
(***************************************************************************)
(* What holds of the three health reports for any objects, kinds, calls,   *)
(* failures and changes of the server: nothing that was wrong all along is *)
(* missed, nothing that was right is reported, and deletions are put down  *)
(* to what holds them up.                                                  *)
(*                                                                         *)
(* The promises are about the answer.  The inductive invariant HealthInv   *)
(* says them of the sections that are over (SoFar), of the kinds of the    *)
(* section at hand that were listed (Underway), and of the search for      *)
(* usages (Progress, from UsageSearch_proofs), which is over before the    *)
(* first section of a report that needs it begins.                         *)
(*                                                                         *)
(* Of objects that change meanwhile the promises say nothing, but the      *)
(* reports implement Census: what is counted was so at one instant.        *)
(***************************************************************************)
EXTENDS HealthReport, UsageSearch_proofs, WellFoundedInduction

HealthTyped ==
  /\ args \in Arguments
  /\ objects \in [Objects -> State \cup {Gone}]
  /\ steady \subseteq Objects
  /\ plan \subseteq Sections
  /\ pending \subseteq Kinds
  /\ reading \in BOOLEAN

\* What a list returned: of an object nothing happened to, how it still is.
Honest(r) ==
  /\ r.obj \in Objects /\ r.state \in State \ {Gone}
  /\ r.obj \in steady => r.state = objects[r.obj]
  /\ r.why = Explain(r.obj, r.state)
Distinct(S) == \A r, s \in S : r.obj = s.obj => r = s

\* A section: its kinds that are not pending were listed, or are unread.
Underway ==
  /\ Now \in plan /\ InScope(Now) /\ Ready
  /\ \A k \in pending : SectionOf[k] = Now
  /\ Distinct(got)
  /\ \A r \in got : Honest(r) /\ SectionOf[KindOf[r.obj]] = Now /\ KindOf[r.obj] \notin pending
  /\ \A o \in steady :
       objects[o] # Gone /\ SectionOf[KindOf[o]] = Now /\ KindOf[o] \notin pending \cup unread
       => \E r \in got : r.obj = o

\* The report so far: what it should have of the sections that are over.
Past(o) == InScope(SectionOf[KindOf[o]]) /\ SectionOf[KindOf[o]] \notin plan
SoFar ==
  /\ rows # {} => Ready
  /\ Distinct(rows)
  /\ \A r \in rows : Honest(r) /\ Past(r.obj) /\ Picks(r.state)
  /\ stage # "panicked" =>
       \A o \in steady :
         objects[o] # Gone /\ Past(o) /\ Picks(objects[o])
         /\ {KindOf[o], SectionOf[KindOf[o]]} \cap unread = {}
         => \E r \in rows : r.obj = o

HealthInv ==
  /\ HealthTyped
  /\ Progress
  /\ outcome = "usages" \/ outcome = "none" \/ found = {}
  /\ \A s \in plan : InScope(s)
  /\ reading => Underway
  /\ ~reading => pending = {}
  /\ stage \in {"reading", "panicked", "answered"}
  /\ stage = "answered" => plan = {} /\ ~reading
  /\ SoFar
------------------------------------------------------------------------------
\* A set of numbers has a least element.
LEMMA LeastOf == ASSUME NEW S, S \subseteq Nat, S # {}  PROVE \E x \in S : \A y \in S : x <= y
<1> DEFINE R == OpToRel(<, Nat)
<1>1. IsWellFoundedOn(R, Nat)
  BY NatLessThanWellFounded
<1> HIDE DEF R
<1>2. PICK x \in S : \A y \in S : ~(<<y, x>> \in R)
  BY <1>1, WFMin
<1>3. \A y \in S : x <= y
  <2> SUFFICES ASSUME NEW y \in S, y < x  PROVE FALSE
    OBVIOUS
  <2>1. <<y, x>> \in R
    BY DEF R, OpToRel
  <2> QED  BY <1>2, <2>1
<1> QED  BY <1>3

\* While there are sections to be searched, it is the turn of one of them.
LEMMA NowIsPlanned == plan \subseteq Sections /\ plan # {} => Now \in plan
<1> SUFFICES ASSUME plan \subseteq Sections, plan # {}  PROVE Now \in plan
  OBVIOUS
<1>1. \A s \in Sections : Position[s] \in Nat
  BY DEF Sections, Position
<1> DEFINE P == {Position[s] : s \in plan}
<1>2. P \subseteq Nat /\ P # {}
  BY <1>1
<1>3. \E x \in P : \A y \in P : x <= y
  BY <1>2, LeastOf
<1>4. \E s \in plan : \A t \in plan : Position[s] <= Position[t]
  BY <1>3
<1> QED  BY <1>4 DEF Now

\* What the arguments and what was found decide stays as it is.
LEMMA ArgumentsDecide ==
  ASSUME UNCHANGED args
  PROVE  /\ \A s : InScope(s)' = InScope(s)
         /\ \A state : Picks(state)' = Picks(state)
  BY DEF InScope, Picks

LEMMA FindingsDecide ==
  ASSUME UNCHANGED <<args, outcome, found>>
  PROVE  \A o, state : Explain(o, state)' = Explain(o, state)
  BY DEF Explain

\* The search for usages is over when it has an outcome.
LEMMA SearchIsOver == ASSUME Progress, outcome # "none", Search  PROVE FALSE
<1>1. asking = KindCount + 1 /\ KindCount = 3 /\ asking \notin 1..KindCount /\ installed \subseteq 1..KindCount
  BY DEF Progress, KindCount
<1> QED  BY <1>1 DEF Search, KindIsMissing, ListFails, ListSucceeds, ReturnUsages

LEMMA ProgressInReport == Progress /\ [Next]_vars => Progress'
<1> SUFFICES ASSUME Progress, [Next]_vars  PROVE Progress'
  OBVIOUS
<1>1. CASE [SearchNext]_usageVars
  BY <1>1, ProgressGoesOn
<1>2. CASE UNCHANGED <<protection, search>>
  BY <1>2 DEF Progress, Findable, protection, search
<1>3. CASE SectionFails \/ \E k \in Kinds : KindFails(k)
  BY <1>2, <1>3 DEF SectionFails, KindFails
<1>4. CASE \E o \in Objects : ObjectChanges(o)
  BY <1>2, <1>4 DEF ObjectChanges
<1>5. CASE LooksUpUsages \/ UsagesChange
  BY <1>1, <1>5 DEF LooksUpUsages, SearchNext
<1>6. CASE UNCHANGED usageVars
  BY <1>1, <1>6
<1> QED
  BY <1>3, <1>4, <1>5, <1>6
  DEF Next, Step, SectionOpens, KindIsListed, SectionCloses, SectionPanics, Return, TimePasses, vars
------------------------------------------------------------------------------
\* Of an object nothing happened to, rows stay true.
LEMMA StaysHonest ==
  ASSUME UNCHANGED <<args, outcome, found>>, steady' \subseteq steady, \A o \in steady' : objects'[o] = objects[o],
         NEW r, Honest(r)
  PROVE  Honest(r)'
<1>1. Explain(r.obj, r.state)' = Explain(r.obj, r.state)
  BY FindingsDecide
<1> QED  BY <1>1 DEF Honest

\* A step beside the report.
LEMMA SameReport ==
  ASSUME HealthInv, UNCHANGED <<args, plan, reading, pending, got, rows, unread, outcome, found>>,
         steady' \subseteq steady, \A o \in steady' : objects'[o] = objects[o],
         objects' \in [Objects -> State \cup {Gone}], Progress',
         \/ stage' = stage
         \/ stage = "reading" /\ stage' = "answered" /\ plan = {} /\ ~reading
  PROVE  HealthInv'
<1>1. HealthTyped'
  BY DEF HealthInv, HealthTyped
<1>2. \A s : InScope(s)' = InScope(s)
  BY ArgumentsDecide
<1>3. \A state : Picks(state)' = Picks(state)
  BY ArgumentsDecide
<1>4. Now' = Now /\ Ready' = Ready /\ \A o : Past(o)' = Past(o)
  BY <1>2 DEF Now, Ready, Past
<1>5. \A r : Honest(r) => Honest(r)'
  BY StaysHonest
<1>6. reading => Underway'
  BY <1>2, <1>4, <1>5 DEF HealthInv, Underway, Distinct
<1>7. SoFar'
  BY <1>3, <1>4, <1>5 DEF HealthInv, SoFar, Distinct
<1> QED  BY <1>1, <1>2, <1>6, <1>7 DEF HealthInv

LEMMA LookingUpKeeps == ASSUME HealthInv, LooksUpUsages, Progress'  PROVE HealthInv'
<1>1. ~Ready /\ UNCHANGED <<objects, steady, args, plan, reading, pending, got, rows, unread, stage>>
  BY SearchIsOver DEF LooksUpUsages, call, HealthInv, Ready
<1>2. rows = {} /\ ~reading
  BY <1>1 DEF HealthInv, SoFar, Underway
<1>3. outcome' = "usages" \/ outcome' = "none" \/ found' = {}
  <2>1. outcome = "none"
    BY <1>1 DEF Ready
  <2> QED  BY <2>1 DEF LooksUpUsages, Search, KindIsMissing, ListFails, ListSucceeds, ReturnUsages
<1>4. HealthTyped'
  BY <1>1 DEF HealthInv, HealthTyped
<1>5. SoFar'
  BY <1>1, <1>2, ArgumentsDecide DEF HealthInv, SoFar, Distinct, Past
<1>6. \A s \in plan : InScope(s)'
  BY <1>1, ArgumentsDecide DEF HealthInv
<1> QED  BY <1>1, <1>2, <1>3, <1>4, <1>5, <1>6 DEF HealthInv

LEMMA FailingSectionKeeps == ASSUME HealthInv, SectionFails, Progress'  PROVE HealthInv'
<1>1. /\ Ready /\ ~reading /\ plan' = plan \ {Now} /\ unread' = unread \cup {Now}
      /\ UNCHANGED <<outcome, found, objects, steady, args, reading, pending, got, rows, stage>>
  BY DEF SectionFails, search
<1>2. HealthTyped'
  BY <1>1 DEF HealthInv, HealthTyped
<1>3. \A s : InScope(s)' = InScope(s)
  BY <1>1, ArgumentsDecide
<1>4. \A state : Picks(state)' = Picks(state)
  BY <1>1, ArgumentsDecide
<1>5. \A r : Honest(r) => Honest(r)'
  BY <1>1, StaysHonest
<1>6. Ready' = Ready
  BY <1>1 DEF Ready
<1>7. \A o : Past(o) => Past(o)'
  BY <1>1, <1>3 DEF Past
<1>8. \A o : Past(o)' => Past(o) \/ SectionOf[KindOf[o]] \in unread'
  BY <1>1, <1>3 DEF Past
<1>9. SoFar'
  <2>1. \A r \in rows' : Honest(r)' /\ Past(r.obj)' /\ Picks(r.state)'
    BY <1>1, <1>4, <1>5, <1>7 DEF HealthInv, SoFar
  <2>2. stage' # "panicked" =>
          \A o \in steady' : objects'[o] # Gone /\ Past(o)' /\ Picks(objects[o])'
                             /\ {KindOf[o], SectionOf[KindOf[o]]} \cap unread' = {} => \E r \in rows' : r.obj = o
    BY <1>1, <1>4, <1>8 DEF HealthInv, SoFar
  <2> QED  BY <1>1, <1>6, <2>1, <2>2 DEF HealthInv, SoFar, Distinct
<1> QED  BY <1>1, <1>2, <1>3, <1>9 DEF HealthInv

LEMMA OpeningKeeps == ASSUME HealthInv, SectionOpens, Progress'  PROVE HealthInv'
<1>1. /\ Ready /\ ~reading /\ plan # {} /\ reading' = TRUE /\ got' = {}
      /\ pending' = {k \in Kinds : SectionOf[k] = Now}
      /\ UNCHANGED <<outcome, found, objects, steady, args, plan, rows, unread, stage>>
  BY DEF SectionOpens, usageVars, search
<1>2. HealthTyped'
  BY <1>1 DEF HealthInv, HealthTyped
<1>3. \A s : InScope(s)' = InScope(s)
  BY <1>1, ArgumentsDecide
<1>4. \A state : Picks(state)' = Picks(state)
  BY <1>1, ArgumentsDecide
<1>5. \A r : Honest(r) => Honest(r)'
  BY <1>1, StaysHonest
<1>6. Now' = Now /\ Ready' = Ready /\ \A o : Past(o)' = Past(o)
  BY <1>1, <1>3 DEF Now, Ready, Past
<1>7. Now \in plan /\ InScope(Now)
  BY <1>1, NowIsPlanned DEF HealthInv, HealthTyped
<1>8. \A o \in Objects : KindOf[o] \in Kinds
  BY ObjectsAssumption
<1>9. Underway'
  <2>1. \A o \in steady' : SectionOf[KindOf[o]] = Now => KindOf[o] \in pending'
    BY <1>1, <1>8 DEF HealthInv, HealthTyped
  <2> QED  BY <1>1, <1>3, <1>6, <1>7, <2>1 DEF Underway, Distinct
<1>10. SoFar'
  BY <1>1, <1>4, <1>5, <1>6 DEF HealthInv, SoFar, Distinct
<1>11. stage' # "answered"
  BY <1>1 DEF HealthInv
<1> QED  BY <1>1, <1>2, <1>3, <1>9, <1>10, <1>11 DEF HealthInv

LEMMA ListingKeeps == ASSUME HealthInv, NEW k \in Kinds, KindIsListed(k), Progress'  PROVE HealthInv'
<1> DEFINE New == {p \in Objects : KindOf[p] = k /\ objects[p] # Gone}
<1>1. /\ k \in pending /\ pending' = pending \ {k} /\ got' = got \cup {Row(o, objects[o]) : o \in New}
      /\ UNCHANGED <<outcome, found, objects, steady, args, plan, reading, rows, unread, stage>>
  BY DEF KindIsListed, usageVars, search
<1>2. HealthTyped' /\ reading
  BY <1>1 DEF HealthInv, HealthTyped
<1>3. \A s : InScope(s)' = InScope(s)
  BY <1>1, ArgumentsDecide
<1>4. \A state : Picks(state)' = Picks(state)
  BY <1>1, ArgumentsDecide
<1>5. \A r : Honest(r) => Honest(r)'
  BY <1>1, StaysHonest
<1>6. Now' = Now /\ Ready' = Ready /\ \A o : Past(o)' = Past(o)
  BY <1>1, <1>3 DEF Now, Ready, Past
<1>7. SoFar'
  BY <1>1, <1>4, <1>5, <1>6 DEF HealthInv, SoFar, Distinct
<1>8. \A o \in New : /\ Row(o, objects[o]).obj = o /\ Row(o, objects[o]).state = objects[o]
                     /\ Row(o, objects[o]).why = Explain(o, objects[o])
  BY DEF Row
<1>9. \A o \in New : Honest(Row(o, objects[o])) /\ SectionOf[KindOf[o]] = Now /\ KindOf[o] = k
  BY <1>1, <1>2, <1>8 DEF HealthInv, HealthTyped, Underway, Honest
<1>10. \A r \in got' : r \in got \/ \E o \in New : r = Row(o, objects[o])
  BY <1>1
<1>11. \A r \in got' : Honest(r)' /\ SectionOf[KindOf[r.obj]] = Now /\ KindOf[r.obj] \notin pending'
  BY <1>1, <1>2, <1>5, <1>8, <1>9, <1>10 DEF HealthInv, Underway
<1>12. Distinct(got')
  <2>1. ASSUME NEW r \in got', NEW s \in got', r.obj = s.obj  PROVE r = s
    <3>1. \A q \in got : KindOf[q.obj] # k
      BY <1>1, <1>2 DEF HealthInv, Underway
    <3>2. \A q \in got' : KindOf[q.obj] # k => q \in got
      BY <1>8, <1>9, <1>10
    <3>3. \A q \in got' : KindOf[q.obj] = k => q = Row(q.obj, objects[q.obj])
      BY <1>8, <1>10, <3>1
    <3>4. CASE KindOf[r.obj] = k
      BY <2>1, <3>3, <3>4
    <3>5. CASE KindOf[r.obj] # k
      BY <1>2, <2>1, <3>2, <3>5 DEF HealthInv, Underway, Distinct
    <3> QED  BY <3>4, <3>5
  <2> QED  BY <2>1 DEF Distinct
<1>13. \A o \in steady' :
         objects'[o] # Gone /\ SectionOf[KindOf[o]] = Now /\ KindOf[o] \notin pending' \cup unread'
         => \E r \in got' : r.obj = o
  <2> SUFFICES ASSUME NEW o \in steady, objects[o] # Gone, SectionOf[KindOf[o]] = Now,
                      KindOf[o] \notin pending', KindOf[o] \notin unread
               PROVE  \E r \in got' : r.obj = o
    BY <1>1
  <2>1. CASE KindOf[o] = k
    <3>1. o \in New
      BY <2>1 DEF HealthInv, HealthTyped
    <3> QED  BY <1>1, <1>8, <3>1
  <2>2. CASE KindOf[o] # k
    <3>1. \E r \in got : r.obj = o
      BY <1>1, <1>2, <2>2 DEF HealthInv, Underway
    <3> QED  BY <1>1, <3>1
  <2> QED  BY <2>1, <2>2
<1>14. Underway'
  <2>1. Now \in plan /\ InScope(Now) /\ Ready /\ \A l \in pending : SectionOf[l] = Now
    BY <1>2 DEF HealthInv, Underway
  <2>2. Now' \in plan' /\ InScope(Now)' /\ Ready' /\ \A l \in pending' : SectionOf[l] = Now'
    BY <1>1, <1>3, <1>6, <2>1
  <2>3. Distinct(got)'
    BY <1>12 DEF Distinct
  <2> QED  BY <1>6, <1>11, <1>13, <2>2, <2>3 DEF Underway
<1> QED  BY <1>1, <1>2, <1>3, <1>7, <1>14 DEF HealthInv

LEMMA FailingKindKeeps == ASSUME HealthInv, NEW k \in Kinds, KindFails(k), Progress'  PROVE HealthInv'
<1>1. /\ k \in pending /\ pending' = pending \ {k} /\ unread' = unread \cup {k}
      /\ UNCHANGED <<outcome, found, objects, steady, args, plan, reading, got, rows, stage>>
  BY DEF KindFails, search
<1>2. HealthTyped' /\ reading
  BY <1>1 DEF HealthInv, HealthTyped
<1>3. \A s : InScope(s)' = InScope(s)
  BY <1>1, ArgumentsDecide
<1>4. \A state : Picks(state)' = Picks(state)
  BY <1>1, ArgumentsDecide
<1>5. \A r : Honest(r) => Honest(r)'
  BY <1>1, StaysHonest
<1>6. Now' = Now /\ Ready' = Ready /\ \A o : Past(o)' = Past(o)
  BY <1>1, <1>3 DEF Now, Ready, Past
<1>7. SoFar'
  BY <1>1, <1>4, <1>5, <1>6 DEF HealthInv, SoFar, Distinct
<1>8. Underway'
  BY <1>1, <1>2, <1>3, <1>5, <1>6 DEF HealthInv, Underway, Distinct
<1> QED  BY <1>1, <1>2, <1>3, <1>7, <1>8 DEF HealthInv

LEMMA ClosingKeeps == ASSUME HealthInv, SectionCloses, Progress'  PROVE HealthInv'
<1> DEFINE picked == {r \in got : Picks(r.state)}
<1>1. /\ reading /\ pending = {} /\ ~reading' /\ reading' \in BOOLEAN
      /\ plan' = plan \ {Now} /\ rows' = rows \cup picked
      /\ UNCHANGED <<outcome, found, objects, steady, args, pending, unread, stage>>
  BY DEF SectionCloses, usageVars, search
<1>2. HealthTyped' /\ Underway
  BY <1>1 DEF HealthInv, HealthTyped
<1>3. \A s : InScope(s)' = InScope(s)
  BY <1>1, ArgumentsDecide
<1>4. \A state : Picks(state)' = Picks(state)
  BY <1>1, ArgumentsDecide
<1>5. \A r : Honest(r) => Honest(r)'
  BY <1>1, StaysHonest
<1>6. Ready /\ Ready'
  BY <1>1, <1>2 DEF Underway, Ready
<1>7. \A o : Past(o)' <=> Past(o) \/ (SectionOf[KindOf[o]] = Now)
  BY <1>1, <1>2, <1>3 DEF Past, Underway
<1>8. \A r \in rows : Honest(r)' /\ Past(r.obj)' /\ Picks(r.state)' /\ SectionOf[KindOf[r.obj]] # Now
  BY <1>2, <1>4, <1>5, <1>7 DEF HealthInv, SoFar, Underway, Past
<1>9. \A r \in picked : Honest(r)' /\ Past(r.obj)' /\ Picks(r.state)' /\ SectionOf[KindOf[r.obj]] = Now
  BY <1>2, <1>4, <1>5, <1>7 DEF Underway
<1>10. Distinct(rows)'
  <2>1. ASSUME NEW r \in rows', NEW s \in rows', r.obj = s.obj  PROVE r = s
    <3>1. CASE SectionOf[KindOf[r.obj]] = Now
      BY <1>1, <1>2, <1>8, <2>1, <3>1 DEF Underway, Distinct
    <3>2. CASE SectionOf[KindOf[r.obj]] # Now
      BY <1>1, <1>9, <2>1, <3>2 DEF HealthInv, SoFar, Distinct
    <3> QED  BY <3>1, <3>2
  <2> QED  BY <2>1 DEF Distinct
<1>11. stage' # "panicked" =>
         \A o \in steady' : objects'[o] # Gone /\ Past(o)' /\ Picks(objects[o])'
                            /\ {KindOf[o], SectionOf[KindOf[o]]} \cap unread' = {} => \E r \in rows' : r.obj = o
  <2> SUFFICES ASSUME stage # "panicked", NEW o \in steady, objects[o] # Gone, Past(o)', Picks(objects[o]),
                      {KindOf[o], SectionOf[KindOf[o]]} \cap unread = {}
               PROVE  \E r \in rows' : r.obj = o
    BY <1>1, <1>4
  <2>1. CASE Past(o)
    <3>1. \E r \in rows : r.obj = o
      BY <2>1 DEF HealthInv, SoFar
    <3> QED  BY <1>1, <3>1
  <2>2. CASE SectionOf[KindOf[o]] = Now
    <3>1. PICK r \in got : r.obj = o
      BY <1>1, <1>2, <2>2 DEF Underway
    <3>2. r.state = objects[o]
      BY <1>2, <3>1 DEF Underway, Honest
    <3> QED  BY <1>1, <3>1, <3>2
  <2> QED  BY <1>7, <2>1, <2>2
<1>12. SoFar'
  <2>1. \A r \in rows' : Honest(r)' /\ Past(r.obj)' /\ Picks(r.state)'
    BY <1>1, <1>8, <1>9
  <2> HIDE DEF picked
  <2> QED  BY <1>6, <1>10, <1>11, <2>1 DEF SoFar
<1>13. stage' # "answered"
  BY <1>1 DEF HealthInv
<1> QED  BY <1>1, <1>2, <1>3, <1>12, <1>13 DEF HealthInv

\* A report that breaks off has said nothing untrue.
LEMMA PanickingKeeps == ASSUME HealthInv, SectionPanics, Progress'  PROVE HealthInv'
<1>1. /\ reading /\ pending = {} /\ ~reading' /\ reading' \in BOOLEAN /\ stage' = "panicked" /\ plan' = {}
      /\ UNCHANGED <<outcome, found, objects, steady, args, pending, rows, unread>>
  BY DEF SectionPanics, usageVars, search
<1>2. HealthTyped'
  BY <1>1 DEF HealthInv, HealthTyped
<1>3. \A s : InScope(s)' = InScope(s)
  BY <1>1, ArgumentsDecide
<1>4. \A state : Picks(state)' = Picks(state)
  BY <1>1, ArgumentsDecide
<1>5. \A r : Honest(r) => Honest(r)'
  BY <1>1, StaysHonest
<1>6. Ready' = Ready /\ \A o : Past(o) => Past(o)'
  BY <1>1, <1>3 DEF Past, Ready
<1>7. SoFar'
  BY <1>1, <1>4, <1>5, <1>6 DEF HealthInv, SoFar, Distinct
<1> QED  BY <1>1, <1>2, <1>3, <1>7 DEF HealthInv

LEMMA ReturningKeeps == ASSUME HealthInv, Return, Progress'  PROVE HealthInv'
<1>1. /\ UNCHANGED <<args, plan, reading, pending, got, rows, unread, outcome, found, objects, steady>>
      /\ stage = "reading" /\ stage' = "answered" /\ plan = {} /\ ~reading
  BY DEF Return, usageVars, search
<1> QED  BY <1>1, SameReport DEF HealthInv, HealthTyped

\* What happens to an object leaves the other ones as they are.
LEMMA ChangingKeeps ==
  ASSUME HealthInv, NEW o \in Objects, ObjectChanges(o) \/ TimePasses(o), Progress'  PROVE HealthInv'
<1>1. UNCHANGED <<args, plan, reading, pending, got, rows, unread, outcome, found, stage>> /\ steady' = steady \ {o}
  BY DEF ObjectChanges, TimePasses, usageVars, search, call
<1>2. \E state \in State \cup {Gone} : objects' = [objects EXCEPT ![o] = state]
  <2>1. CASE ObjectChanges(o)
    <3>1. args.tool \in Tools
      BY ArgumentsAssumption DEF HealthInv, HealthTyped
    <3>2. StatesFor[args.tool] \subseteq State \cup {Gone}
      BY <3>1, ArgumentsAssumption
    <3> QED  BY <2>1, <3>2 DEF ObjectChanges
  <2>2. CASE TimePasses(o)
    <3>1. objects[o] \in State \cup {Gone} /\ objects[o].leaving = "recent"
      BY <2>2 DEF TimePasses, HealthInv, HealthTyped
    <3>2. objects[o] \in State
      BY <3>1 DEF Gone
    <3>3. [objects[o] EXCEPT !.leaving = "stuck"] \in State
      BY <3>2 DEF State
    <3>4. objects' = [objects EXCEPT ![o] = [objects[o] EXCEPT !.leaving = "stuck"]]
      BY <2>2 DEF TimePasses
    <3> QED  BY <3>3, <3>4
  <2> QED  BY <2>1, <2>2
<1>3. objects' \in [Objects -> State \cup {Gone}] /\ \A p \in steady' : objects'[p] = objects[p]
  BY <1>1, <1>2 DEF HealthInv, HealthTyped
<1> QED  BY <1>1, <1>3, SameReport

LEMMA HealthGoesOn == HealthInv /\ [Next]_vars => HealthInv'
<1> SUFFICES ASSUME HealthInv, [Next]_vars  PROVE HealthInv'
  OBVIOUS
<1>1. Progress'
  BY ProgressInReport DEF HealthInv
<1>2. CASE Step
  BY <1>1, <1>2, LookingUpKeeps, FailingSectionKeeps, OpeningKeeps, ListingKeeps, FailingKindKeeps, ClosingKeeps,
     PanickingKeeps, ReturningKeeps DEF Step
<1>3. ASSUME NEW o \in Objects, ObjectChanges(o) \/ TimePasses(o)  PROVE HealthInv'
  BY <1>1, <1>3, ChangingKeeps
<1>4. CASE UsagesChange /\ UNCHANGED <<objects, steady, call>>
  BY <1>1, <1>4, SameReport DEF UsagesChange, search, call, HealthInv, HealthTyped
<1>5. CASE UNCHANGED vars
  BY <1>1, <1>5, SameReport DEF vars, usageVars, search, call, HealthInv, HealthTyped
<1> QED  BY <1>2, <1>3, <1>4, <1>5 DEF Next

LEMMA HealthBegins == Init => HealthInv
<1> SUFFICES ASSUME Init  PROVE HealthInv
  OBVIOUS
<1>1. Progress /\ outcome = "none"
  BY ProgressBegins DEF Init, SearchInit
<1>2. args.tool \in Tools
  BY ArgumentsAssumption DEF Init
<1>3. StatesFor[args.tool] \subseteq State \cup {Gone}
  BY <1>2, ArgumentsAssumption
<1>4. HealthTyped
  BY <1>3 DEF Init, HealthTyped
<1>5. \A o \in Objects : SectionOf[KindOf[o]] \in Sections
  BY ObjectsAssumption
<1>6. SoFar
  BY <1>5 DEF Init, SoFar, Distinct, Past
<1> QED  BY <1>1, <1>4, <1>6 DEF Init, HealthInv

THEOREM ReportInvariant == Spec => []HealthInv
BY HealthBegins, HealthGoesOn, PTL DEF Spec

LEMMA PicksWhatIsPromised ==
  ASSUME HealthInv, NEW o  PROVE ToBeReported(o) <=> objects[o] # Gone /\ Picks(objects[o])
<1>1. args.tool \in {"status", "unhealthy", "deleting"}
  BY ArgumentsAssumption DEF HealthInv, HealthTyped, Tools
<1> QED  BY <1>1 DEF ToBeReported, Picks, Healthy

\* Nothing that was wrong from beginning to end is missed, whatever else of the
\* report fails and for any objects, kinds and calls (diagnostics.go:183-275,
\* protection.go:158-177).
THEOREM WrongIsReported == Spec => []NothingWrongIsMissed
<1>1. HealthInv => NothingWrongIsMissed
  <2> SUFFICES ASSUME HealthInv, stage = "answered", NEW o \in steady, ToBeReported(o), Searched(o)
               PROVE  \E r \in rows : r.obj = o
    BY DEF NothingWrongIsMissed
  <2>1. plan = {} /\ stage # "panicked" /\ objects[o] # Gone /\ Picks(objects[o])
    BY PicksWhatIsPromised DEF HealthInv
  <2>2. Past(o) /\ {KindOf[o], SectionOf[KindOf[o]]} \cap unread = {}
    BY <2>1 DEF Past, Searched
  <2> QED  BY <2>1, <2>2 DEF HealthInv, SoFar
<1> QED  BY <1>1, ReportInvariant, PTL

\* No object is counted twice, nor one that was well all along.
THEOREM RightIsNotReported == Spec => []NothingRightIsReported
<1>1. HealthInv => NothingRightIsReported
  <2> SUFFICES ASSUME HealthInv, NEW r \in rows
               PROVE  /\ \A s \in rows : r.obj = s.obj => r = s
                      /\ InScope(SectionOf[KindOf[r.obj]])
                      /\ r.obj \in steady => r.state = objects[r.obj] /\ ToBeReported(r.obj)
    BY DEF NothingRightIsReported
  <2>1. Distinct(rows) /\ Honest(r) /\ Past(r.obj) /\ Picks(r.state)
    BY DEF HealthInv, SoFar
  <2>2. ToBeReported(r.obj) <=> objects[r.obj] # Gone /\ Picks(objects[r.obj])
    BY PicksWhatIsPromised
  <2> QED  BY <2>1, <2>2 DEF Distinct, Honest, Past
<1> QED  BY <1>1, ReportInvariant, PTL

\* A deletion a usage refuses all along is put down to it, and none to a usage
\* that never was there, for any failures and changes (protection.go:192-218).
THEOREM ReasonsAreTrue == Spec => []WhyIsTrue
<1>1. HealthInv => WhyIsTrue
  <2> SUFFICES ASSUME HealthInv, args.tool = "deleting", NEW r \in rows
               PROVE  /\ (\E u \in Findable : Protected[u] = r.obj) => r.why = "usage"
                      /\ r.why = "usage" => r.state.hold = "usage" \/ \E u \in ever : Protected[u] = r.obj
    BY DEF WhyIsTrue
  <2>1. r.why = Explain(r.obj, r.state) /\ outcome # "none" /\ Progress
    BY DEF HealthInv, SoFar, Honest, Ready
  <2>2. Findable \subseteq found /\ found \subseteq ever /\ (outcome = "usages" \/ found = {})
    BY <2>1, SearchHasFound DEF HealthInv
  <2>3. r.state.hold \in {"none", "composite", "managed", "usage", "other"}
    <3>1. r.state \in State
      BY DEF HealthInv, SoFar, Honest
    <3> QED  BY <3>1 DEF State, Holds
  <2> QED  BY <2>1, <2>2, <2>3 DEF Explain
<1> QED  BY <1>1, ReportInvariant, PTL
------------------------------------------------------------------------------
(***************************************************************************)
(* The reports are censuses.  CensusInv says what the mapping needs beside *)
(* HealthInv: between sections nothing is left over from the last one, a   *)
(* report that broke off does nothing more, and what could not be read is  *)
(* behind it.                                                              *)
(***************************************************************************)
CensusInv ==
  /\ stage = "panicked" => plan = {} /\ ~reading
  /\ stage = "reading" /\ ~reading => got = {}
  /\ \A k \in InReport \ Settled : ~Unreadable(k)

\* What is counted, and where, goes by the arguments.
LEMMA ArgumentsFrame ==
  ASSUME UNCHANGED args
  PROVE  /\ InReport' = InReport /\ Countable' = Countable
         /\ \A state : Picks(state)' = Picks(state)
<1>1. \A s : InScope(s)' = InScope(s)
  BY ArgumentsDecide
<1>2. \A state : Picks(state)' = Picks(state)
  BY ArgumentsDecide
<1> QED  BY <1>1, <1>2 DEF InReport, Countable

\* As long as there is anything to do the report is under way.
LEMMA StillReading ==
  ASSUME HealthInv, CensusInv, plan # {} \/ reading
  PROVE  stage = "reading"
BY DEF HealthInv, CensusInv

LEMMA NobodySeesCensus ==
  ASSUME CensusInv, UNCHANGED <<objects, args, stage, plan, reading, pending, got, rows, unread>>
  PROVE  UNCHANGED Counting!vars /\ CensusInv'
<1>1. InReport' = InReport /\ Countable' = Countable /\ \A state : Picks(state)' = Picks(state)
  BY ArgumentsFrame
<1>2. Now' = Now
  BY DEF Now
<1>3. Settled' = Settled /\ \A k : Unreadable(k)' = Unreadable(k)
  BY <1>1, <1>2 DEF Settled, Unreadable
<1>4. Missing' = Missing /\ Counted' = Counted
  BY <1>1, <1>3 DEF Missing, Counted, Picked
<1> QED  BY <1>1, <1>3, <1>4 DEF Counting!vars, CensusInv

\* Names that are both are no reason to mistake one for the other.
LEMMA NamesAreTold ==
  ASSUME NEW k \in Kinds, NEW l \in Kinds, SectionOf[k] = l \/ (l \in Sections /\ k = l)
  PROVE  SectionOf[l] = l /\ l \notin Categories
BY ObjectsAssumption

LEMMA SectionFailsPasses ==
  ASSUME HealthInv, CensusInv, SectionFails
  PROVE  (\E S \in SUBSET Kinds : Counting!PassOver(S)) /\ CensusInv'
<1> DEFINE S == {k \in InReport : SectionOf[k] = Now}
<1>1. /\ ~reading /\ plan # {} /\ plan' = plan \ {Now} /\ unread' = unread \cup {Now}
      /\ UNCHANGED <<objects, args, reading, pending, got, rows, stage>>
  BY DEF SectionFails
<1>2. Now \in plan /\ stage = "reading" /\ Now \in Sections
  BY <1>1, NowIsPlanned, StillReading DEF HealthInv, HealthTyped
<1>3. InReport' = InReport /\ Countable' = Countable /\ \A state : Picks(state)' = Picks(state)
  BY <1>1, ArgumentsFrame
<1>4. Settled = {k \in InReport : SectionOf[k] \notin plan}
  BY <1>1 DEF Settled
<1>5. Settled' = Settled \cup S
  BY <1>1, <1>2, <1>3, <1>4 DEF Settled
<1>6. \A k \in InReport : k \notin S => (Unreadable(k)' <=> Unreadable(k))
  <2> SUFFICES ASSUME NEW k \in InReport, k \notin S  PROVE k # Now /\ SectionOf[k] # Now
    BY <1>1 DEF Unreadable
  <2>1. k \in Kinds
    BY DEF InReport
  <2> QED  BY <1>2, <2>1, NamesAreTold
<1>7. \A k \in S : Unreadable(k)'
  BY <1>1 DEF Unreadable
<1>8. S \cap Settled = {}
  BY <1>2, <1>4
<1>9. Missing' = Missing \cup S
  <2>0. Settled \subseteq InReport /\ S \subseteq InReport
    BY <1>4
  <2> HIDE DEF S
  <2> QED  BY <1>5, <1>6, <1>7, <1>8, <2>0 DEF Missing
<1>10. Counted' = Counted
  BY <1>1, <1>3 DEF Counted, Picked
<1>11. CensusInv'
  BY <1>1, <1>2, <1>3, <1>5, <1>6 DEF CensusInv
<1>12. S \in SUBSET Kinds
  BY DEF InReport
<1>13. \A k \in S : k \in InReport \ Settled
  BY <1>8
<1> HIDE DEF S
<1>14. Counting!PassOver(S)
  BY <1>1, <1>2, <1>3, <1>5, <1>9, <1>10, <1>13 DEF Counting!PassOver, Counting!Open
<1> QED  BY <1>11, <1>12, <1>14

LEMMA OpeningIsUnseen ==
  ASSUME HealthInv, CensusInv, SectionOpens
  PROVE  UNCHANGED Counting!vars /\ CensusInv'
<1>1. /\ ~reading /\ plan # {} /\ reading' = TRUE /\ got' = {} /\ pending' = {k \in Kinds : SectionOf[k] = Now}
      /\ UNCHANGED <<objects, args, plan, rows, unread, stage>>
  BY DEF SectionOpens
<1>2. stage = "reading" /\ got = {}
  BY <1>1, StillReading DEF CensusInv
<1>3. InReport' = InReport /\ Countable' = Countable /\ \A state : Picks(state)' = Picks(state)
  BY <1>1, ArgumentsFrame
<1>4. Now' = Now
  BY <1>1 DEF Now
<1>5. Settled' = Settled
  BY <1>1, <1>3, <1>4 DEF Settled, InReport
<1>6. \A k : Unreadable(k)' = Unreadable(k)
  BY <1>1 DEF Unreadable
<1>7. Missing' = Missing /\ Counted' = Counted
  BY <1>1, <1>2, <1>3, <1>5, <1>6 DEF Missing, Counted, Picked
<1>8. CensusInv'
  BY <1>1, <1>2, <1>3, <1>5, <1>6 DEF CensusInv
<1> QED  BY <1>1, <1>3, <1>5, <1>7, <1>8 DEF Counting!vars

\* Settling one kind of the section at hand.
LEMMA SettlesOne ==
  ASSUME HealthInv, CensusInv, NEW k \in Kinds, k \in pending, pending' = pending \ {k},
         UNCHANGED <<args, plan, reading>>
  PROVE  /\ reading /\ stage = "reading" /\ SectionOf[k] = Now
         /\ k \in InReport \ Settled /\ Settled' = Settled \cup {k} /\ InReport' = InReport
<1>1. reading
  BY DEF HealthInv
<1>2. stage = "reading" /\ SectionOf[k] = Now /\ Now \in plan /\ InScope(Now)
  BY <1>1, StillReading DEF HealthInv, Underway
<1>3. InReport' = InReport /\ Now' = Now
  BY ArgumentsFrame DEF Now
<1>4. k \in InReport \ Settled
  BY <1>2 DEF InReport, Settled
<1>5. Settled' = Settled \cup {k}
  BY <1>1, <1>2, <1>3, <1>4 DEF Settled
<1> QED  BY <1>1, <1>2, <1>3, <1>4, <1>5

LEMMA ListingLooksAt ==
  ASSUME HealthInv, CensusInv, NEW k \in Kinds, KindIsListed(k)
  PROVE  Counting!LookAt(k) /\ CensusInv'
<1> DEFINE New == {p \in Objects : KindOf[p] = k /\ objects[p] # Gone}
           Seen == {p \in Objects : KindOf[p] = k /\ objects[p] \in Countable}
<1>1. /\ k \in pending /\ pending' = pending \ {k} /\ got' = got \cup {Row(o, objects[o]) : o \in New}
      /\ UNCHANGED <<objects, args, plan, reading, rows, unread, stage>>
  BY DEF KindIsListed
<1>2. /\ reading /\ stage = "reading" /\ k \in InReport \ Settled
      /\ Settled' = Settled \cup {k} /\ InReport' = InReport
  BY <1>1, SettlesOne
<1>3. Countable' = Countable /\ \A state : Picks(state)' = Picks(state)
  BY <1>1, ArgumentsFrame
<1>4. \A l : Unreadable(l)' = Unreadable(l)
  BY <1>1 DEF Unreadable
<1>5. Missing' = Missing
  BY <1>2, <1>4 DEF Missing, CensusInv
<1>6. \A o \in New : Row(o, objects[o]).obj = o /\ Row(o, objects[o]).state = objects[o]
  BY DEF Row
<1>7. \A o : o \in Seen <=> o \in New /\ Picks(objects[o])
  BY DEF HealthInv, HealthTyped, Countable, State, Gone
<1>8. Picked' = Picked \cup {Row(o, objects[o]) : o \in Seen}
  <2>1. Picked' = rows \cup {r \in got' : Picks(r.state)}
    BY <1>1, <1>3 DEF Picked
  <2> HIDE DEF New, Seen
  <2>2. \A r : r \in got' /\ Picks(r.state) <=> (r \in got /\ Picks(r.state)) \/ \E o \in Seen : r = Row(o, objects[o])
    BY <1>1, <1>6, <1>7
  <2> QED  BY <2>1, <2>2 DEF Picked
<1>9. Counted' = Counted \cup {[obj |-> o, state |-> objects[o]] : o \in Seen}
  <2> DEFINE Entry(r) == [obj |-> r.obj, state |-> r.state]
  <2>1. Counted = {Entry(r) : r \in Picked} /\ Counted' = {Entry(r) : r \in Picked'}
    BY DEF Counted
  <2>2. \A o \in Seen : Entry(Row(o, objects[o])) = [obj |-> o, state |-> objects[o]]
    BY <1>6, <1>7
  <2> HIDE DEF Entry, Seen
  <2> QED  BY <1>8, <2>1, <2>2
<1>10. CensusInv'
  BY <1>1, <1>2, <1>4 DEF CensusInv
<1> QED  BY <1>1, <1>2, <1>3, <1>5, <1>9, <1>10 DEF Counting!LookAt, Counting!Open

LEMMA FailingPassesOver ==
  ASSUME HealthInv, CensusInv, NEW k \in Kinds, KindFails(k)
  PROVE  Counting!PassOver({k}) /\ CensusInv'
<1>1. /\ k \in pending /\ pending' = pending \ {k} /\ unread' = unread \cup {k} /\ SectionOf[k] \in Categories
      /\ UNCHANGED <<objects, args, plan, reading, got, rows, stage>>
  BY DEF KindFails
<1>2. /\ reading /\ stage = "reading" /\ k \in InReport \ Settled
      /\ Settled' = Settled \cup {k} /\ InReport' = InReport
  BY <1>1, SettlesOne
<1>3. Countable' = Countable /\ \A state : Picks(state)' = Picks(state)
  BY <1>1, ArgumentsFrame
<1>4. \A l \in Kinds : SectionOf[l] # k
  BY <1>1, NamesAreTold
<1>5. \A l \in InReport : Unreadable(l)' <=> Unreadable(l) \/ l = k
  BY <1>1, <1>4 DEF Unreadable, InReport
<1>6. Settled \subseteq InReport
  BY DEF Settled
<1>7. Missing' = Missing \cup {k}
  BY <1>2, <1>5, <1>6 DEF Missing
<1>8. Counted' = Counted
  BY <1>1, <1>3 DEF Counted, Picked
<1>9. CensusInv'
  BY <1>1, <1>2, <1>5 DEF CensusInv
<1> QED  BY <1>1, <1>2, <1>3, <1>7, <1>8, <1>9 DEF Counting!PassOver, Counting!Open

LEMMA ClosingIsUnseen ==
  ASSUME HealthInv, CensusInv, SectionCloses
  PROVE  UNCHANGED Counting!vars /\ CensusInv'
<1>1. /\ reading /\ pending = {} /\ reading' = FALSE /\ got' = {} /\ plan' = plan \ {Now}
      /\ rows' = rows \cup {r \in got : Picks(r.state)}
      /\ UNCHANGED <<objects, args, unread, stage>>
  BY DEF SectionCloses
<1>2. InReport' = InReport /\ Countable' = Countable /\ \A state : Picks(state)' = Picks(state)
  BY <1>1, ArgumentsFrame
<1>3. Settled' = Settled
  BY <1>1, <1>2 DEF Settled
<1>4. \A k : Unreadable(k)' = Unreadable(k)
  BY <1>1 DEF Unreadable
<1>5. Picked' = Picked
  BY <1>1, <1>2 DEF Picked
<1>6. Missing' = Missing /\ Counted' = Counted
  BY <1>3, <1>4, <1>5 DEF Missing, Counted
<1>7. CensusInv'
  BY <1>1, <1>2, <1>3, <1>4, StillReading DEF CensusInv
<1> QED  BY <1>1, <1>2, <1>3, <1>6, <1>7 DEF Counting!vars

LEMMA PanickingBreaksOff ==
  ASSUME HealthInv, CensusInv, SectionPanics
  PROVE  Counting!BreakOff /\ CensusInv'
<1>1. /\ reading /\ reading' = FALSE /\ plan' = {} /\ stage' = "panicked"
      /\ UNCHANGED <<objects, args, got, rows, unread>>
  BY DEF SectionPanics
<1>2. InReport' = InReport /\ Countable' = Countable /\ \A state : Picks(state)' = Picks(state)
  BY <1>1, ArgumentsFrame
<1>3. Settled' = InReport
  BY <1>1, <1>2 DEF Settled
<1>4. \A k : Unreadable(k)' = Unreadable(k)
  BY <1>1 DEF Unreadable
<1>5. Settled \subseteq InReport
  BY DEF Settled
<1>6. Missing' = Missing
  BY <1>3, <1>4, <1>5 DEF Missing, CensusInv
<1>7. Counted' = Counted
  BY <1>1, <1>2 DEF Counted, Picked
<1>8. CensusInv'
  BY <1>1, <1>2, <1>3 DEF CensusInv
<1>9. stage = "reading"
  BY <1>1, StillReading
<1> QED  BY <1>1, <1>2, <1>3, <1>6, <1>7, <1>8, <1>9 DEF Counting!BreakOff

LEMMA ReturningAnswers ==
  ASSUME HealthInv, CensusInv, Return
  PROVE  Counting!Answer /\ CensusInv'
<1>1. /\ ~reading /\ plan = {} /\ stage = "reading" /\ stage' = "answered"
      /\ UNCHANGED <<objects, args, plan, reading, pending, got, rows, unread>>
  BY DEF Return
<1>2. InReport' = InReport /\ Countable' = Countable /\ \A state : Picks(state)' = Picks(state)
  BY <1>1, ArgumentsFrame
<1>3. Settled = InReport /\ Settled' = InReport
  BY <1>1, <1>2 DEF Settled
<1>4. \A k : Unreadable(k)' = Unreadable(k)
  BY <1>1 DEF Unreadable
<1>5. Missing' = Missing /\ Counted' = Counted
  BY <1>1, <1>2, <1>3, <1>4 DEF Missing, Counted, Picked
<1>6. CensusInv'
  BY <1>1, <1>2, <1>3 DEF CensusInv
<1> QED  BY <1>1, <1>2, <1>3, <1>5, <1>6 DEF Counting!Answer

LEMMA ChangesAreTheWorlds ==
  ASSUME HealthInv', CensusInv, NEW o \in Objects, ObjectChanges(o) \/ TimePasses(o)
  PROVE  Counting!WorldChanges /\ CensusInv'
<1>1. UNCHANGED <<args, stage, plan, reading, pending, got, rows, unread>>
  BY DEF ObjectChanges, TimePasses, call
<1>2. InReport' = InReport /\ Countable' = Countable /\ \A state : Picks(state)' = Picks(state)
  BY <1>1, ArgumentsFrame
<1>3. Now' = Now
  BY <1>1 DEF Now
<1>4. Settled' = Settled /\ \A k : Unreadable(k)' = Unreadable(k)
  BY <1>1, <1>2, <1>3 DEF Settled, Unreadable
<1>5. Missing' = Missing /\ Counted' = Counted
  BY <1>1, <1>2, <1>4 DEF Missing, Counted, Picked
<1>6. objects' \in Counting!Worlds
  BY DEF HealthInv, HealthTyped, Counting!Worlds
<1>7. CensusInv'
  BY <1>1, <1>2, <1>4 DEF CensusInv
<1> QED  BY <1>1, <1>2, <1>4, <1>5, <1>6, <1>7 DEF Counting!WorldChanges

LEMMA NextImplementsCensus ==
  HealthInv /\ HealthInv' /\ CensusInv /\ [Next]_vars => [Counting!Next]_(Counting!vars) /\ CensusInv'
<1> SUFFICES ASSUME HealthInv, HealthInv', CensusInv, [Next]_vars
             PROVE  (Counting!Next \/ UNCHANGED Counting!vars) /\ CensusInv'
  OBVIOUS
<1>1. CASE LooksUpUsages \/ (UsagesChange /\ UNCHANGED <<objects, steady, call>>) \/ UNCHANGED vars
  <2>1. UNCHANGED <<objects, args, stage, plan, reading, pending, got, rows, unread>>
    BY <1>1 DEF LooksUpUsages, vars, call
  <2> QED  BY <2>1, NobodySeesCensus
<1>2. CASE SectionFails
  BY <1>2, SectionFailsPasses DEF Counting!Next
<1>3. CASE SectionOpens \/ SectionCloses
  BY <1>3, OpeningIsUnseen, ClosingIsUnseen
<1>4. ASSUME NEW k \in Kinds, KindIsListed(k) \/ KindFails(k)
      PROVE  (Counting!Next \/ UNCHANGED Counting!vars) /\ CensusInv'
  <2>1. {k} \in SUBSET Kinds
    OBVIOUS
  <2> QED  BY <1>4, <2>1, ListingLooksAt, FailingPassesOver DEF Counting!Next
<1>5. CASE SectionPanics \/ Return
  BY <1>5, PanickingBreaksOff, ReturningAnswers DEF Counting!Next
<1>6. ASSUME NEW o \in Objects, ObjectChanges(o) \/ TimePasses(o)
      PROVE  (Counting!Next \/ UNCHANGED Counting!vars) /\ CensusInv'
  BY <1>6, ChangesAreTheWorlds DEF Counting!Next
<1> QED  BY <1>1, <1>2, <1>3, <1>4, <1>5, <1>6 DEF Next, Step

LEMMA InitImplementsCensus == Init => Counting!Init /\ CensusInv
<1> SUFFICES ASSUME Init  PROVE Counting!Init /\ CensusInv
  OBVIOUS
<1>1. HealthInv
  BY HealthBegins
<1>2. Settled = {}
  <2>1. \A k \in Kinds : SectionOf[k] \in Sections
    BY ObjectsAssumption
  <2> QED  BY <2>1 DEF Init, Settled, InReport
<1>3. Missing = {} /\ Counted = {}
  BY <1>2 DEF Init, Missing, Counted, Picked
<1>4. InReport \subseteq Kinds /\ Countable \subseteq State /\ objects \in Counting!Worlds /\ stage = "reading"
  BY <1>1 DEF Init, InReport, Countable, HealthInv, HealthTyped, Counting!Worlds
<1>5. CensusInv
  BY DEF Init, CensusInv, Unreadable
<1> QED  BY <1>2, <1>3, <1>4, <1>5 DEF Counting!Init

\* Every report is a census, for any control plane, arguments, failures and
\* changes: what it counts is there in that state when its kind is looked at,
\* no kind is looked at twice, and it answers when none is left to be looked
\* at (diagnostics.go:63-166, 168-283; protection.go:148-190).
THEOREM ReportsAreCensuses == Spec => ImplementsCensus
<1>1. Spec => [][Counting!Next]_(Counting!vars)
  BY ReportInvariant, InitImplementsCensus, NextImplementsCensus, PTL DEF Spec
<1> QED  BY <1>1, InitImplementsCensus, PTL DEF Spec, ImplementsCensus, Counting!Spec
==============================================================================
