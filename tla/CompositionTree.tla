--------------------------- MODULE CompositionTree ---------------------------
(***************************************************************************)
(* Client.Tree (pkg/crossplane/tree.go): the walk from a claim or          *)
(* composite along its resource references, one Get per reference, down to *)
(* the managed resources.  The tools crossplane_resource_tree,             *)
(* crossplane_diagnose and crossplane_impact start with it.                *)
(*                                                                         *)
(* The API server is external: while the walk goes on, controllers create, *)
(* delete and reconcile objects and compose others, and a Get may fail.    *)
(* References are free to form cycles or to meet again further down.       *)
(*                                                                         *)
(* An object is a number, its position in the order of kind and name that  *)
(* references are followed in.  The recursion is an explicit stack; the    *)
(* tree is kept as its nodes in preorder, each with its depth.             *)
(***************************************************************************)
EXTENDS Integers, Sequences, FiniteSets

CONSTANTS
  Objects,         (* the objects there may be, as numbers                   *)
  Root,            (* the one the tool was asked about                       *)
  Statuses,        (* what a Ready condition may say, and Absent              *)
  Graphs,          (* the references objects may have before the call        *)
  MaxTreeDepth,    (* maxTreeDepth, 10 in the code                           *)
  MaxMishaps       (* changes of the server and failed Gets, at most         *)

ASSUME ObjectsAssumption == Objects \subseteq Nat /\ IsFiniteSet(Objects) /\ Root \in Objects
ASSUME GraphsAssumption == Graphs \subseteq [Objects -> SUBSET Objects]
ASSUME BoundsAssumption == MaxTreeDepth \in Nat \ {0} /\ MaxMishaps \in Nat

Absent == "-"     \* StatusAbsent, and what a node that could not be read shows

ASSUME StatusesAssumption == Absent \in Statuses

VARIABLES
  alive,     (* the API server: the objects that exist                       *)
  refs,      (* the API server: the references each of them publishes        *)
  ready,     (* the API server: the status of each one's Ready condition     *)
  mishaps,   (* how often the server changed, or a Get failed                *)
  stage,     (* where the call is                                            *)
  nodes,     (* the tree so far, in preorder                                 *)
  stack,     (* the activations of treeNode, the innermost one first         *)
  seen       (* the objects treeNode has gone below                          *)

server == <<alive, refs, ready>>
walk == <<stage, nodes, stack, seen>>
treeVars == <<server, mishaps, walk>>

Least(S) == CHOOSE x \in S : \A y \in S : x <= y

------------------------------------------------------------------------------
TreeInit ==
  /\ alive \in {S \in SUBSET Objects : Root \in S}
  /\ refs \in Graphs
  /\ ready \in [Objects -> Statuses]
  /\ mishaps = 0
  /\ stage = "start"
  /\ nodes = <<>>
  /\ stack = <<>>
  /\ seen = {}

\* Mutated form: an object may be gone below again.
CutAtDepthOnly(o, depth) == depth >= MaxTreeDepth

\* treeNode returns before it looks at the references.
Cut(o, depth) == depth >= MaxTreeDepth \/ o \in seen

\* treeNode for an object that was read, called by the activations in "callers".
Visit(o, depth, callers) ==
  /\ nodes' = Append(nodes, [obj |-> o, depth |-> depth, ready |-> ready[o], found |-> TRUE])
  /\ IF Cut(o, depth)
       THEN /\ stack' = callers
            /\ UNCHANGED seen
       ELSE /\ stack' = <<[depth |-> depth, todo |-> refs[o]]>> \o callers
            /\ seen' = seen \cup {o}

\* resolveResource reads the root, and Tree starts with it.
ReadRoot ==
  /\ stage = "start"
  /\ Root \in alive
  /\ stage' = "walking"
  /\ Visit(Root, 0, <<>>)
  /\ UNCHANGED <<server, mishaps>>

\* The root cannot be read: the tool answers with the error.
ReadRootFails ==
  /\ stage = "start"
  /\ Root \notin alive
  /\ stage' = "failed"
  /\ UNCHANGED <<server, mishaps, nodes, stack, seen>>

Next1 == Least(Head(stack).todo)
Popped == <<[Head(stack) EXCEPT !.todo = @ \ {Next1}]>> \o Tail(stack)

Following ==
  /\ stage = "walking"
  /\ stack # <<>>
  /\ Head(stack).todo # {}

\* GetByReference finds the next child, and treeNode is called for it.
FollowReference ==
  /\ Following
  /\ Next1 \in alive
  /\ Visit(Next1, Head(stack).depth + 1, Popped)
  /\ UNCHANGED <<server, mishaps, stage>>

\* Mutated form: a child that cannot be read ends the loop over the children.
GiveUpChildren ==
  /\ Following
  /\ \/ Next1 \notin alive /\ UNCHANGED mishaps
     \/ mishaps < MaxMishaps /\ mishaps' = mishaps + 1
  /\ nodes' = Append(nodes, [obj |-> Next1, depth |-> Head(stack).depth + 1, ready |-> Absent, found |-> FALSE])
  /\ stack' = <<[Head(stack) EXCEPT !.todo = {}]>> \o Tail(stack)
  /\ UNCHANGED <<server, stage, seen>>

\* Mutated form: a Get that fails is tried again.
RetryReference ==
  /\ Following
  /\ UNCHANGED treeVars

\* It is not there, or the Get fails: a node with the error takes its place.
ReferenceFails ==
  /\ Following
  /\ \/ Next1 \notin alive /\ UNCHANGED mishaps
     \/ mishaps < MaxMishaps /\ mishaps' = mishaps + 1
  /\ nodes' = Append(nodes, [obj |-> Next1, depth |-> Head(stack).depth + 1, ready |-> Absent, found |-> FALSE])
  /\ stack' = Popped
  /\ UNCHANGED <<server, stage, seen>>

\* treeNode returns, the outermost one to Tree.
ReturnNode ==
  /\ stage = "walking"
  /\ stack # <<>>
  /\ Head(stack).todo = {}
  /\ stack' = Tail(stack)
  /\ stage' = IF Tail(stack) = <<>> THEN "walked" ELSE "walking"
  /\ UNCHANGED <<server, mishaps, nodes, seen>>

Walk == ReadRoot \/ ReadRootFails \/ FollowReference \/ ReferenceFails \/ ReturnNode

\* A controller or a user creates, deletes or updates an object.
ServerChanges ==
  /\ mishaps < MaxMishaps
  /\ mishaps' = mishaps + 1
  /\ \E o \in Objects :
       \/ /\ alive' = IF o \in alive THEN alive \ {o} ELSE alive \cup {o}
          /\ UNCHANGED <<refs, ready>>
       \/ /\ \E S \in SUBSET Objects : refs' = [refs EXCEPT ![o] = S]
          /\ UNCHANGED <<alive, ready>>
       \/ /\ \E s \in Statuses : ready' = [ready EXCEPT ![o] = s]
          /\ UNCHANGED <<alive, refs>>
  /\ UNCHANGED walk

TreeNext == Walk \/ ServerChanges

------------------------------------------------------------------------------
(***************************************************************************)
(* The shape of a tree given by its nodes in preorder.                     *)
(***************************************************************************)
Below(i, j) == i < j /\ \A k \in (i+1)..j : nodes[k].depth > nodes[i].depth
ChildOf(i, j) == Below(i, j) /\ nodes[j].depth = nodes[i].depth + 1
IsLeaf(i) == i = Len(nodes) \/ nodes[i+1].depth <= nodes[i].depth

InTree == {nodes[i].obj : i \in DOMAIN nodes}
CutAbove == \A i \in DOMAIN nodes : nodes[i].depth < MaxTreeDepth
EachOnce == \A i, j \in DOMAIN nodes : nodes[i].obj = nodes[j].obj => i = j

(***************************************************************************)
(* What is below an object, said without a walk: the least set that holds  *)
(* it and is closed under the references of objects that exist.            *)
(***************************************************************************)
Closed(S) == \A o \in S \cap alive : refs[o] \subseteq S
Reachable(o) == {p \in Objects : \A S \in SUBSET Objects : o \in S /\ Closed(S) => p \in S}

\* No object is gone below twice, however references meet or turn in a circle
\* and whatever changes meanwhile: of the nodes of one object, one at most has
\* children (tree.go:12-14, 59-63).
ExpandedOnce ==
  \A i, j \in DOMAIN nodes :
    nodes[i].obj = nodes[j].obj /\ ~IsLeaf(i) /\ ~IsLeaf(j) => i = j

\* A tree nobody disturbed, and that the depth limit did not cut, shows
\* exactly what is below the root, the references to missing objects among it.
TreeIsComplete ==
  stage = "walked" /\ mishaps = 0 /\ CutAbove => InTree = Reachable(Root)

(***************************************************************************)
(* What is still to be done of a walk.  Going below an object costs at     *)
(* most a return and a Get for each of the objects there are, and there is *)
(* no object it is done for twice.                                         *)
(***************************************************************************)
Count == Cardinality(Objects)

\* The references that activations of treeNode have yet to follow, by depth.
Pending(s) == {p \in (0..(Len(s) - 1)) \X Objects : p[2] \in s[Len(s) - p[1]].todo}

Ahead ==
  (Count + 1) * Cardinality(Objects \ seen) + Cardinality(Pending(stack)) + Len(stack)
  + (IF stage = "start" THEN 1 ELSE 0)

\* Whatever controllers do meanwhile to objects and references, a walk makes at
\* most one Get for each pair of objects and one for the root, and goes no
\* deeper than maxTreeDepth (tree.go:12-20, 59-63).
WalkIsBounded ==
  /\ Len(nodes) <= 1 + Count * Count
  /\ \A i \in DOMAIN nodes : nodes[i].depth <= MaxTreeDepth

\* Every Get and every return brings the walk closer to its end, and what
\* happens at the API server or after the walk takes nothing back
\* (tree.go:47-102).
WalkGoesDown ==
  [][/\ Walk => Ahead' < Ahead
     /\ ~Walk => Ahead' = Ahead]_treeVars

\* A walk that is not over has a reference to follow or a return to make
\* (tree.go:66-102).
WalkIsNotStuck == stage = "walking" => stack # <<>>

\* The walk comes to an end although references may form a cycle.
WalkEnds == stage = "walking" ~> stage = "walked"
==============================================================================
