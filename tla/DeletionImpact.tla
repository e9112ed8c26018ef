--------------------------- MODULE DeletionImpact ---------------------------
(***************************************************************************)
(* crossplane_impact (pkg/toolsets/diagnostics/impact.go): what would go   *)
(* if a resource were deleted.  It walks the composition tree, searches    *)
(* for usages, and sorts these into those that would block the deletion    *)
(* and those that would be left dangling.                                  *)
(*                                                                         *)
(* It composes the walk of CompositionTree with the search of UsageSearch: *)
(* one after the other, over an API server that changes under both.        *)
(*                                                                         *)
(* A label stands for a kind and a name in lower case, the two things      *)
(* usages are matched by; objects with the same label live in different    *)
(* namespaces.                                                             *)
(***************************************************************************)
EXTENDS CompositionTree, UsageSearch

CONSTANTS
  LabelOf,        (* kind and name of each object                             *)
  NsOf,           (* the namespace of each object, NoNs if cluster scoped     *)
  OfLabel,        (* spec.of of each usage: the label of what it protects     *)
  ByLabel,        (* spec.by of each usage: the label of what needs that      *)
  UsageNs         (* the namespace of each usage, NoNs for a ClusterUsage     *)

NoNs == ""
NoLabel == "none"

ASSUME LabelsAssumption ==
  /\ DOMAIN LabelOf = Objects /\ DOMAIN NsOf = Objects
  /\ DOMAIN OfLabel = Usages /\ DOMAIN ByLabel = Usages /\ DOMAIN UsageNs = Usages
  /\ \A o \in Objects : LabelOf[o] # NoLabel

VARIABLE report     \* impactReport, once the call is answered

impactVars == <<treeVars, usageVars, report>>

NoReport == [blockedBy |-> {}, dangling |-> {}, verdict |-> "none"]

ImpactInit ==
  /\ TreeInit
  /\ SearchInit
  /\ report = NoReport

------------------------------------------------------------------------------
(***************************************************************************)
(* collectDoomed: the nodes of the tree, all of them.  The external name   *)
(* of a doomed resource is never filled in, so none is counted.            *)
(***************************************************************************)
DoomedLabels == {LabelOf[nodes[i].obj] : i \in DOMAIN nodes}
ExternalCount == 0

\* Mutated form: only a usage that protects the resource itself blocks.
BlockingRootOnly(usages) == {u \in usages : OfLabel[u] = LabelOf[Root]}

\* classifyUsages, its first two cases and its third.
Blocking(usages) == {u \in usages : OfLabel[u] = LabelOf[Root] \/ OfLabel[u] \in DoomedLabels}

\* Mutated form: a usage is put under both headings.
DanglingToo(usages) == {u \in usages : ByLabel[u] \in DoomedLabels}

Dangling(usages) == {u \in usages \ Blocking(usages) : ByLabel[u] # NoLabel /\ ByLabel[u] \in DoomedLabels}

\* Mutated form: a tree of two is taken for a lone resource.
VerdictOffByOne(blockedBy) ==
  CASE blockedBy # {}    -> "blocked"
    [] blockedBy = {} /\ ExternalCount > 0 -> "infrastructure"
    [] blockedBy = {} /\ ExternalCount = 0 /\ Len(nodes) > 2 -> "tree"
    [] OTHER -> "alone"

\* impactVerdict
Verdict(blockedBy) ==
  CASE blockedBy # {}    -> "blocked"
    [] blockedBy = {} /\ ExternalCount > 0 -> "infrastructure"
    [] blockedBy = {} /\ ExternalCount = 0 /\ Len(nodes) > 1 -> "tree"
    [] OTHER -> "alone"

\* Usages is called when the tree is complete.
SearchStep ==
  /\ stage = "walked"
  /\ Search
  /\ UNCHANGED <<treeVars, report>>

\* Its error leaves both lists of usages empty.
Report ==
  /\ stage = "walked"
  /\ outcome # "none"
  /\ stage' = "answered"
  /\ LET usages == IF outcome = "usages" THEN found ELSE {}
     IN  report' = [blockedBy |-> Blocking(usages), dangling |-> Dangling(usages),
                    verdict |-> Verdict(Blocking(usages))]
  /\ UNCHANGED <<server, mishaps, nodes, stack, seen, usageVars>>

ImpactNext ==
  \/ TreeNext /\ UNCHANGED <<usageVars, report>>
  \/ SearchStep
  \/ UsagesChange /\ UNCHANGED <<treeVars, report>>
  \/ Report

ImpactSpec == ImpactInit /\ [][ImpactNext]_impactVars
------------------------------------------------------------------------------
(***************************************************************************)
(* The objects that go: those of the tree that was read, and all that is   *)
(* below the resource if every Get on the way was answered, nothing        *)
(* changed during the walk and its depth was enough.                       *)
(***************************************************************************)
TreeIsWhole == mishaps = 0 /\ CutAbove
Doomed == {nodes[i].obj : i \in DOMAIN nodes} \cup {o \in Reachable(Root) : TreeIsWhole}

\* Whether a usage makes Crossplane refuse to delete an object, as the other
\* tool that answers this question has it (Usage.protects, protection.go:39-45).
Protects(u, o) == OfLabel[u] = LabelOf[o] /\ UsageNs[u] \in {NoNs, NsOf[o]}

\* A usage that protects anything that goes is reported as blocking, however deep
\* in the tree that is, if it is there all along and its kind could be searched,
\* whatever fails or comes and goes beside it (impact.go:138-159).
NothingProtectedIsMissed ==
  stage = "answered" =>
    \A u \in Findable : (\E o \in Doomed : Protects(u, o)) => u \in report.blockedBy

\* A usage is under one heading, and one that is said to be left dangling
\* protects nothing that goes away with its other end.
DanglingIsLeftBehind ==
  stage = "answered" =>
    /\ report.blockedBy \cap report.dangling = {}
    /\ \A u \in report.dangling : \A i \in DOMAIN nodes : ~Protects(u, nodes[i].obj)

\* "Nothing else depends on this resource. Deleting it affects only itself."
\* (impact.go:174) is true when it is said: of the tree if that is whole, and of
\* the usages that are there all along, however many of their kinds are missed.
AloneMeansAlone ==
  stage = "answered" /\ report.verdict = "alone" =>
    /\ TreeIsWhole => Reachable(Root) = {Root}
    /\ \A u \in Findable : ~Protects(u, Root)
==============================================================================
