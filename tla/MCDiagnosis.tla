---------------------------- MODULE MCDiagnosis ----------------------------
(***************************************************************************)
(* Small graphs for Diagnosis: a claim, its composite and what that has    *)
(* composed.  Where references turn in a circle, as they do only by        *)
(* mistake, every status is Absent to begin with: it is the walk that      *)
(* matters there.                                                          *)
(***************************************************************************)
EXTENDS Diagnosis

\* Every way the objects refer to each other.
AllGraphs == [Objects -> SUBSET Objects]

\* References only lead on, as from a claim to a composite to what it composes.
Downward == {g \in AllGraphs : \A o \in Objects : \A p \in g[o] : o < p}

MCInit == Init /\ (refs \in Downward \/ ready = [o \in Objects |-> Absent])

\* The second mishap, and every change of references, comes where it matters:
\* the one after the walk, the others before its end.
MCNext ==
  /\ Next
  /\ mishaps' = 2 /\ mishaps = 1 => stage \notin {"start", "walking"}
  /\ stage \notin {"start", "walking"} => UNCHANGED refs

\* FairSpec, from those states.
MCSpec == MCInit /\ [][MCNext]_vars /\ WF_treeVars(Walk)
=============================================================================
