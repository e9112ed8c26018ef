------------------------------ MODULE FieldDiff ------------------------------
(***************************************************************************)
(* The comparison crossplane_drift_detect makes for one managed resource   *)
(* (pkg/toolsets/resources/drift.go): diffFields walks spec.forProvider    *)
(* and reports the paths whose value under status.atProvider differs.      *)
(*                                                                         *)
(* A document is the function from its paths, sequences of keys, to what   *)
(* is there: Map, or a leaf, which a list is as well.  What a report says  *)
(* of a path, the two values rendered, is left out.                        *)
(***************************************************************************)
EXTENDS Integers, SequencesExt

CONSTANTS
  Keys,             (* the keys documents use, in the order of sort.Strings  *)
  MaxDriftFields    (* maxDriftFields, 25 in the code                        *)

ASSUME DriftAssumption ==
  /\ Keys \in Seq(Range(Keys)) /\ IsInjective(Keys)
  /\ MaxDriftFields \in Nat \ {0}

Map == "map"

\* Whatever is below the root is in a map.
IsDocument(d) ==
  /\ IsFiniteSet(DOMAIN d) /\ DOMAIN d \subseteq Seq(Range(Keys))
  /\ <<>> \in DOMAIN d /\ d[<<>>] = Map
  /\ \A p \in DOMAIN d : \A i \in 0..(Len(p) - 1) :
       SubSeq(p, 1, i) \in DOMAIN d /\ d[SubSeq(p, 1, i)] = Map

Capped(drifts) == IF Len(drifts) > MaxDriftFields THEN SubSeq(drifts, 1, MaxDriftFields) ELSE drifts

Levels(desired, observed) ==
  {p \in DOMAIN desired \cap DOMAIN observed : desired[p] = Map /\ observed[p] = Map}

\* Mutated form: a field the provider does not report back has drifted.
DriftsAtMissing(path, desired, observed, below) ==
  IF path \notin DOMAIN desired THEN <<>>
  ELSE IF path \in Levels(desired, observed) THEN below[path]
  ELSE IF path \in DOMAIN observed /\ desired[path] = observed[path] THEN <<>>
  ELSE <<path>>

\* The drifts of the declared keys in order; a key the provider does not
\* report back is none, and two maps are compared field by field.  The cap
\* holds on every level.
DriftsAt(path, desired, observed, below) ==
  IF path \notin DOMAIN desired \/ path \notin DOMAIN observed THEN <<>>
  ELSE IF path \in Levels(desired, observed) THEN below[path]
  ELSE IF desired[path] = observed[path] THEN <<>>
  ELSE <<path>>

DriftsOf(prefix, desired, observed, below) ==
  Capped(FlattenSeq([i \in DOMAIN Keys |-> DriftsAt(Append(prefix, Keys[i]), desired, observed, below)]))

DiffFields(desired, observed) ==
  LET walk[prefix \in Levels(desired, observed)] == DriftsOf(prefix, desired, observed, walk)
  IN walk[<<>>]

------------------------------------------------------------------------------
(***************************************************************************)
(* What a drift is, without a walk: a path that both documents have and    *)
(* where they differ.                                                      *)
(***************************************************************************)
DriftedPaths(desired, observed) ==
  {p \in DOMAIN desired \cap DOMAIN observed : desired[p] # observed[p]}

\* p comes before q in a report.
Place(key) == CHOOSE i \in DOMAIN Keys : Keys[i] = key
Before(p, q) ==
  \E i \in DOMAIN p \cap DOMAIN q :
    /\ SubSeq(p, 1, i - 1) = SubSeq(q, 1, i - 1)
    /\ Place(p[i]) < Place(q[i])
==============================================================================
