--------------------------- MODULE MCHealthReport ---------------------------
(***************************************************************************)
(* A provider, two managed resources of different kinds, and a usage that  *)
(* protects one of them.  The section of composites is empty.              *)
(***************************************************************************)
EXTENDS HealthReport

MCObjects == {"provider", "bucket", "queue"}
MCKindOf == [provider |-> "Provider", bucket |-> "Bucket", queue |-> "Queue"]
MCSectionOf == [Provider |-> "Provider", Bucket |-> "managed", Queue |-> "managed"]
MCUsages == {1}
MCUsageKind == <<2>>
MCProtected == <<"bucket">>

Call(tool, scope, limit, includeRecent) ==
  [tool |-> tool, scope |-> scope, limit |-> limit, includeRecent |-> includeRecent]

MCArguments ==
  {Call("status", "all", 0, FALSE),
   Call("unhealthy", "all", 1, FALSE), Call("unhealthy", "managed", -1, FALSE),
   Call("deleting", "all", 0, FALSE), Call("deleting", "all", 0, TRUE)}

Sound == [ready |-> "True", leaving |-> "no", hold |-> "none"]
Leaving(since) == [ready |-> "True", leaving |-> since, hold |-> "managed"]

\* Conditions matter to two of the tools, deletions to the third.
MCStatesFor ==
  [status    |-> {Sound, [Sound EXCEPT !.ready = "-"], Gone},
   unhealthy |-> {Sound, [Sound EXCEPT !.ready = "False"], [Sound EXCEPT !.ready = "-"], Gone},
   deleting  |-> {Sound, Leaving("recent"), Leaving("stuck")}]
=============================================================================
