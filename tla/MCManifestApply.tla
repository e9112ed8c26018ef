-------------------------- MODULE MCManifestApply --------------------------
(***************************************************************************)
(* Small instances of ManifestApply: a cluster scoped kind, a namespaced   *)
(* one and one this server must not write.                                 *)
(***************************************************************************)
EXTENDS ManifestApply, TLC

Xrd(v) == [kind |-> "xrd", ns |-> "team", value |-> v]
Claim(n, v) == [kind |-> "claim", ns |-> n, value |-> v]
Secret == [kind |-> "secret", ns |-> "default", value |-> "v1"]

MCKinds == {"xrd", "claim", "secret"}
MCWritable == {"xrd", "claim"}
MCNamespaced == {"claim", "secret"}

Empty == {[a \in Address |-> Absent]}

\* Nothing, or a claim another manager already made.
SomeClaims == Empty \cup
  {[a \in Address |-> IF a \in S THEN [owners |-> {Other}, value |-> "v2"] ELSE Absent] :
     S \in SUBSET {<<"claim", "team">>, <<"claim", "default">>}}

\* Several documents, one of them refused or incomplete, in different orders.
ManyManifests ==
  {<<Xrd("v1"), Claim(NoNs, "v1")>>,
   <<Claim("team", "v2"), Secret>>,
   <<Claim(NoNs, "v1"), Incomplete>>}
============================================================================
