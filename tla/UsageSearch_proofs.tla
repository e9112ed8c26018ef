-------------------------- MODULE UsageSearch_proofs --------------------------
(***************************************************************************)
(* The search for usages is complete, for any usages, any failures and any *)
(* changes of the server: SearchFindsAll.  That alone is not inductive:    *)
(* Progress says in addition what has been found part way through.         *)
(***************************************************************************)
EXTENDS UsageSearch, TLAPS

\* What is there all along, of the kinds the loop is past and did not miss, has
\* been found.
Progress ==
  /\ asking \in 1..(KindCount + 1)
  /\ installed \subseteq 1..KindCount
  /\ defined \subseteq Usages
  /\ \A u \in defined : UsageKind[u] \in installed
  /\ lasting \subseteq defined /\ defined \subseteq ever
  /\ found \subseteq ever
  /\ \A u \in Findable : UsageKind[u] < asking => u \in found
  /\ outcome # "none" => asking = KindCount + 1

LEMMA ProgressBegins == SearchInit => Progress
  BY UsagesAssumption DEF SearchInit, Progress, Findable, KindCount

LEMMA ProgressGoesOn == Progress /\ [SearchNext]_usageVars => Progress'
<1> SUFFICES ASSUME Progress, [SearchNext]_usageVars  PROVE Progress'
  OBVIOUS
<1> USE DEF Progress, KindCount
<1>0. \A u \in Usages : UsageKind[u] \in 1..KindCount
  BY UsagesAssumption
<1>1. ASSUME asking \in 1..KindCount, asking' = asking + 1, UNCHANGED <<protection, outcome>>, found \subseteq found',
             found' \subseteq ever, missed \subseteq missed',
             \A u \in Findable : UsageKind[u] = asking => u \in found' \/ asking \in missed'
      PROVE  Progress'
  <2>1. Findable' \subseteq Findable
    BY <1>1 DEF Findable, protection
  <2>2. ASSUME NEW u \in Findable', UsageKind[u] < asking + 1  PROVE u \in found'
    <3>1. u \in Findable /\ u \in Usages /\ UsageKind[u] \notin missed'
      BY <2>1, <2>2 DEF Findable
    <3>2. UsageKind[u] < asking \/ UsageKind[u] = asking
      BY <1>0, <1>1, <2>2, <3>1
    <3> QED  BY <1>1, <3>1, <3>2
  <2>3. asking' \in 1..(KindCount + 1) /\ outcome' = "none"
    BY <1>1
  <2> QED  BY <1>1, <2>2, <2>3 DEF protection
<1>2. CASE KindIsMissing \/ ListFails
  <2>1. /\ asking \in 1..KindCount /\ asking' = asking + 1 /\ UNCHANGED <<protection, found, outcome>>
        /\ (missed' = missed /\ asking \notin installed) \/ missed' = missed \cup {asking}
    BY <1>2 DEF KindIsMissing, ListFails, Fails
  <2>2. \A u \in Findable : UsageKind[u] \in installed
    BY DEF Findable
  <2> QED  BY <1>1, <2>1, <2>2
<1>3. CASE ListSucceeds
  <2>1. /\ asking \in 1..KindCount /\ asking' = asking + 1 /\ UNCHANGED <<protection, outcome, missed>>
        /\ found' = found \cup Held(asking)
    BY <1>3 DEF ListSucceeds
  <2>2. Held(asking) \subseteq ever /\ \A u \in Findable : UsageKind[u] = asking => u \in Held(asking)
    BY DEF Held, Findable
  <2> QED  BY <1>1, <2>1, <2>2
<1>4. CASE ReturnUsages
  BY <1>4 DEF ReturnUsages, protection, Findable
<1>5. CASE UsagesChange
  <2>1. /\ lasting' = lasting \cap defined' /\ ever' = ever \cup defined'
        /\ UNCHANGED <<asking, found, outcome, missed>>
    BY <1>5 DEF UsagesChange, search
  <2>2. installed' \subseteq 1..KindCount /\ defined' \subseteq Usages
        /\ \A u \in defined' : UsageKind[u] \in installed'
    <3>1. CASE \E u \in Usages : /\ UsageKind[u] \in installed
                                 /\ defined' = IF u \in defined THEN defined \ {u} ELSE defined \cup {u}
                                 /\ UNCHANGED installed
      BY <3>1
    <3>2. CASE \E k \in 1..KindCount :
                 /\ installed' = IF k \in installed THEN installed \ {k} ELSE installed \cup {k}
                 /\ defined' = defined \ Held(k)
      BY <3>2 DEF Held
    <3> QED  BY <1>5, <3>1, <3>2 DEF UsagesChange
  <2>3. Findable' \subseteq Findable
    BY <2>1 DEF Findable
  <2> QED  BY <2>1, <2>2, <2>3
<1>6. CASE UNCHANGED usageVars
  BY <1>6 DEF usageVars, protection, search, Findable
<1> QED  BY <1>2, <1>3, <1>4, <1>5, <1>6 DEF SearchNext, Search

LEMMA SearchHasFound ==
  ASSUME Progress, outcome # "none"  PROVE Findable \subseteq found /\ found \subseteq ever
<1>1. \A u \in Findable : u \in Usages /\ UsageKind[u] < KindCount + 1
  BY UsagesAssumption DEF Progress, Findable, KindCount
<1> QED  BY <1>1 DEF Progress

\* A search finds every usage that is there all along and whose kind it could
\* search, and none that never was, for any usages and kinds, failures and
\* changes (Client.Usages, protection.go:52-92).
THEOREM SearchIsComplete == SearchSpec => []SearchFindsAll
<1>1. Progress => SearchFindsAll
  BY SearchHasFound DEF SearchFindsAll
<1> QED  BY ProgressBegins, ProgressGoesOn, <1>1, PTL DEF SearchSpec
==============================================================================
