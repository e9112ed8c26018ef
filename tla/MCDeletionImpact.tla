-------------------------- MODULE MCDeletionImpact --------------------------
(***************************************************************************)
(* A claim, the bucket below it, another bucket of the same name in        *)
(* another namespace, and three usages.                                    *)
(***************************************************************************)
EXTENDS DeletionImpact

MCLabelOf == <<"claim", "bucket", "bucket">>
MCNsOf == <<"a", "a", "b">>

\* A Usage of namespace b by which the claim there keeps the bucket there, a
\* ClusterUsage that protects the claim, and an old Usage that keeps a queue
\* for the bucket.
MCUsages == 1..3
MCUsageKind == <<1, 2, 3>>
MCOfLabel == <<"bucket", "claim", "queue">>
MCByLabel == <<"claim", "none", "bucket">>
MCUsageNs == <<"b", "", "">>

AllGraphs == [Objects -> SUBSET Objects]
Downward == {g \in AllGraphs : \A o \in Objects : \A p \in g[o] : o < p}
=============================================================================
