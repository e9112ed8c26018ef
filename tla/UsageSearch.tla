----------------------------- MODULE UsageSearch -----------------------------
(***************************************************************************)
(* Client.Usages (pkg/crossplane/protection.go): three kinds of objects    *)
(* may protect others from deletion, Usage and ClusterUsage in one group   *)
(* and Usage in an older one; they are listed one after the other.  A kind *)
(* that is not there and a list that fails are both remembered as the last *)
(* error, and otherwise passed over.  crossplane_usages_list, crossplane_  *)
(* deleting_resources and crossplane_impact rely on the outcome.           *)
(*                                                                         *)
(* The API server is external.  Usages come and go during the search, and  *)
(* a list may fail, because the kind cannot be read with the permissions   *)
(* this server has, or for lack of an answer.  ResolveKind goes by what    *)
(* discovery returned, which may be old or in part: it may fail to find a  *)
(* kind that is installed, and this counts as a failure here.              *)
(***************************************************************************)
EXTENDS Naturals, FiniteSets

CONSTANTS
  Usages,         (* the Usage and ClusterUsage objects there may be          *)
  UsageKind,      (* which of the three kinds each is of                      *)
  MaxFailures,    (* requests that fail, at most                              *)
  MaxChanges      (* changes of the server, at most                           *)

KindCount == 3

ASSUME UsagesAssumption == UsageKind \in [Usages -> 1..KindCount]
ASSUME TroubleAssumption == MaxFailures \in Nat /\ MaxChanges \in Nat

VARIABLES
  installed,  (* the API server: which of the kinds it serves                 *)
  defined,    (* the API server: the usages it holds                          *)
  lasting,    (* the usages that were there since the call began              *)
  ever,       (* those that were there at any time since                      *)
  failures,   (* how many requests failed                                     *)
  changes,    (* how often the server changed                                 *)
  asking,     (* the kind the loop is at, past KindCount when it is over      *)
  found,      (* usages, and their keys in seen                               *)
  lastErr,    (* lastErr: none, that a kind is not there, or another error    *)
  outcome,    (* what Usages returned                                         *)
  missed      (* the installed kinds it could not search                      *)

protection == <<installed, defined, lasting, ever>>
search == <<asking, found, lastErr, outcome, missed>>
usageVars == <<protection, failures, changes, search>>

Held(k) == {u \in defined : UsageKind[u] = k}

SearchInit ==
  /\ installed \in SUBSET (1..KindCount)
  /\ defined \in {S \in SUBSET Usages : \A u \in S : UsageKind[u] \in installed}
  /\ lasting = defined
  /\ ever = defined
  /\ failures = 0
  /\ changes = 0
  /\ asking = 1
  /\ found = {}
  /\ lastErr = "none"
  /\ outcome = "none"
  /\ missed = {}

------------------------------------------------------------------------------
\* Mutated form: the loop ends at the first kind that is not installed.
StopAtMissing ==
  /\ asking \in 1..KindCount
  /\ asking \notin installed
  /\ lastErr' = "not found"
  /\ asking' = KindCount + 1
  /\ UNCHANGED <<protection, failures, changes, found, outcome, missed>>

Fails ==
  /\ failures < MaxFailures
  /\ failures' = failures + 1
  /\ missed' = missed \cup {asking}

\* ResolveKind does not find the kind: it is not there, or not in the snapshot.
KindIsMissing ==
  /\ asking \in 1..KindCount
  /\ \/ asking \notin installed /\ UNCHANGED <<failures, missed>>
     \/ asking \in installed /\ Fails
  /\ lastErr' = "not found"
  /\ asking' = asking + 1
  /\ UNCHANGED <<protection, changes, found, outcome>>

\* Discovery or the list fails.
ListFails ==
  /\ asking \in 1..KindCount
  /\ Fails
  /\ lastErr' = "failed"
  /\ asking' = asking + 1
  /\ UNCHANGED <<protection, changes, found, outcome>>

ListSucceeds ==
  /\ asking \in installed
  /\ found' = found \cup Held(asking)
  /\ asking' = asking + 1
  /\ UNCHANGED <<protection, failures, changes, lastErr, outcome, missed>>

\* Only when nothing was found does the last error count, and of those only
\* that the kind is not there: every other one is dropped.
ReturnUsages ==
  /\ asking = KindCount + 1
  /\ outcome = "none"
  /\ outcome' = IF found = {} /\ lastErr = "not found" THEN "unsupported" ELSE "usages"
  /\ UNCHANGED <<protection, failures, changes, asking, found, lastErr, missed>>

Search == KindIsMissing \/ ListFails \/ ListSucceeds \/ ReturnUsages

\* A usage is created or deleted, or its kind installed or removed.
UsagesChange ==
  /\ changes < MaxChanges
  /\ changes' = changes + 1
  /\ \/ \E u \in Usages : /\ UsageKind[u] \in installed
                          /\ defined' = IF u \in defined THEN defined \ {u} ELSE defined \cup {u}
                          /\ UNCHANGED installed
     \/ \E k \in 1..KindCount : /\ installed' = IF k \in installed THEN installed \ {k} ELSE installed \cup {k}
                                /\ defined' = defined \ Held(k)
  /\ lasting' = lasting \cap defined'
  /\ ever' = ever \cup defined'
  /\ UNCHANGED <<failures, search>>

SearchNext == Search \/ UsagesChange

SearchSpec == SearchInit /\ [][SearchNext]_usageVars
------------------------------------------------------------------------------
\* The usages a search has to find.
Findable == {u \in lasting : UsageKind[u] \notin missed}

\* Whatever comes and goes meanwhile, and whatever else cannot be searched, a
\* search finds every usage that is there all along and of a kind that could be
\* searched, and none that never was, whichever of the three kinds a control
\* plane part way through an upgrade serves (protection.go:49-51, 58-81).
SearchFindsAll ==
  outcome # "none" => Findable \subseteq found /\ found \subseteq ever
==============================================================================
