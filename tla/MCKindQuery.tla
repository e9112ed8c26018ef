---------------------------- MODULE MCKindQuery ----------------------------
(* Bounds for KindQuery: more kinds than tokens, one object per kind.      *)
EXTENDS KindQuery, TLC

Symmetry == Permutations(Kinds)
============================================================================
