------------------------------ MODULE Diagnosis ------------------------------
(***************************************************************************)
(* crossplane_diagnose (pkg/toolsets/resources/diagnose.go): walk the tree *)
(* below a resource that is not Ready, take the deepest failures in it,    *)
(* read each of them again for the details, ask whether the Composition    *)
(* and the providers are healthy, and say in one sentence what is at       *)
(* fault.                                                                  *)
(*                                                                         *)
(* The second reading happens later than the first, so that an object may  *)
(* have recovered or gone in between.  Of a cause only what the verdict    *)
(* depends on is kept: the node, and what the second reading said.         *)
(***************************************************************************)
EXTENDS CompositionTree

CONSTANT MaxRootCauses     \* maxRootCauses, 5 in the code

ASSUME MaxRootCausesAssumption == MaxRootCauses \in Nat \ {0}
ASSUME TrueAssumption == "True" \in Statuses

VARIABLES
  suspects,  (* indexes of the nodes that are still to be read again          *)
  causes,    (* rootCauses: the node, and its status when it was read again   *)
  verdict    (* the verdict: whom it blames                                   *)

vars == <<treeVars, suspects, causes, verdict>>

NoVerdict == [blames |-> "none", node |-> 0, count |-> 0]

Init ==
  /\ TreeInit
  /\ suspects = <<>>
  /\ causes = <<>>
  /\ verdict = NoVerdict

------------------------------------------------------------------------------
(***************************************************************************)
(* deepestUnready, on the tree in preorder: the recursion returns what it  *)
(* found below a node if there is anything, else the node if it is unready.*)
(***************************************************************************)
Unready(i) == nodes[i].ready # "True"

\* Mutated form: only the next level down is looked at.
DeepestByChildren ==
  {i \in DOMAIN nodes : Unready(i) /\ \A j \in DOMAIN nodes : ChildOf(i, j) => ~Unready(j)}

\* Mutated form: a status that is not there is not a failure.
DeepestReported ==
  {i \in DOMAIN nodes : nodes[i].ready \notin {"True", Absent}
                        /\ \A j \in DOMAIN nodes : Below(i, j) => nodes[j].ready \in {"True", Absent}}

DeepestUnready ==
  {i \in DOMAIN nodes : Unready(i) /\ \A j \in DOMAIN nodes : Below(i, j) => ~Unready(j)}

\* The elements of a set of numbers in their order, the first n of them.
InOrder(S, n) ==
  LET smaller(x) == Cardinality({y \in S : y < x})
  IN  [k \in 1..(IF Cardinality(S) < n THEN Cardinality(S) ELSE n) |->
         CHOOSE x \in S : smaller(x) = k - 1]

\* The object was Ready when Get returned it: nothing to diagnose.
AnswerReady ==
  /\ stage = "walked"
  /\ ~Unready(1)
  /\ stage' = "answered"
  /\ verdict' = [NoVerdict EXCEPT !.blames = "nobody"]
  /\ UNCHANGED <<server, mishaps, nodes, stack, seen, suspects, causes>>

\* investigate keeps the first maxRootCauses of the deepest failures.
Investigate ==
  /\ stage = "walked"
  /\ Unready(1)
  /\ stage' = "investigating"
  /\ suspects' = InOrder(DeepestUnready, MaxRootCauses)
  /\ UNCHANGED <<server, mishaps, nodes, stack, seen, causes, verdict>>

\* One of them is read again, or cannot be.
ReRead ==
  /\ stage = "investigating"
  /\ suspects # <<>>
  /\ suspects' = Tail(suspects)
  /\ LET o == nodes[Head(suspects)].obj
     IN  \/ /\ o \in alive
            /\ causes' = Append(causes, [node |-> Head(suspects), now |-> ready[o]])
            /\ UNCHANGED mishaps
         \/ /\ IF o \in alive THEN mishaps < MaxMishaps /\ mishaps' = mishaps + 1 ELSE UNCHANGED mishaps
            /\ causes' = Append(causes, [node |-> Head(suspects), now |-> "unread"])
  /\ UNCHANGED <<server, walk, verdict>>

\* verdictFor, after providerCheck: an unhealthy provider outweighs every cause.
Conclude ==
  /\ stage = "investigating"
  /\ suspects = <<>>
  /\ stage' = "answered"
  /\ \E providersHealthy \in BOOLEAN :
       verdict' =
         IF ~providersHealthy THEN [NoVerdict EXCEPT !.blames = "provider"]
         ELSE IF causes = <<>> THEN [NoVerdict EXCEPT !.blames = "itself"]
         ELSE [blames |-> "cause", node |-> causes[1].node, count |-> Len(causes)]
  /\ UNCHANGED <<server, mishaps, nodes, stack, seen, suspects, causes>>

Tool == AnswerReady \/ Investigate \/ ReRead \/ Conclude

Next ==
  \/ TreeNext /\ UNCHANGED <<suspects, causes, verdict>>
  \/ Tool

Spec == Init /\ [][Next]_vars

\* The goroutine of the call runs, and every Get returns: with an answer, or
\* with an error when the call's deadline passes.
FairSpec == Spec /\ WF_treeVars(Walk)

------------------------------------------------------------------------------
\* A resource that is not Ready is never left unexplained: the branch of
\* verdictFor for "nothing below it is failing" is not reached, because the
\* root itself is a failure when nothing below it is (diagnose.go:98-114, 228-235).
SomebodyIsBlamed == verdict.blames # "itself"

\* The causes are the deepest failures in the order of the tree, the deepest
\* of them is not passed over for the one above it, and none is listed twice:
\* no cause lies below another one.
CausesAreApart ==
  \A i, j \in DOMAIN causes : i < j =>
    /\ causes[i].node < causes[j].node
    /\ ~Below(causes[i].node, causes[j].node)

\* Status of an object as a reader of the whole graph sees it.
StatusOf(o) == IF o \in alive THEN ready[o] ELSE Absent

\* What "deepest failure" means on the graph itself, without a walk.
DeepestFailures ==
  {o \in Reachable(Root) : StatusOf(o) # "True"
     /\ \A p \in Reachable(o) \ {o} : StatusOf(p) = "True"}

Complete == Len(causes) < MaxRootCauses
Blamed == {nodes[causes[i].node].obj : i \in DOMAIN causes}

\* If nobody disturbed the call, no object is reached twice and no limit cut
\* it off, the causes are exactly the deepest failures of the graph.
CausesAreDeepest ==
  stage = "answered" /\ ~(verdict.blames \in {"none", "nobody"}) /\ mishaps = 0
    /\ CutAbove /\ EachOnce /\ Complete
  => Blamed = DeepestFailures

\* "crossplane_diagnose finds the deepest failure, not the symptom at the top"
\* (README.md:106), said of every tree nobody disturbed.
NoSymptomIsBlamed ==
  stage = "answered" /\ mishaps = 0 /\ CutAbove /\ Complete /\ verdict.blames = "cause"
  => Blamed \subseteq DeepestFailures
==============================================================================
