------------------------ MODULE CompositionTree_proofs ------------------------
(***************************************************************************)
(* What holds of the walk along a composition, and of the tools that begin *)
(* with it, for any objects and references, any changes of the server and  *)
(* any limits.                                                             *)
(*                                                                         *)
(* The walk goes below no object twice (ExpandedOnce).  The activations of *)
(* treeNode are at depths that fall by one from the innermost to the       *)
(* outermost, and the last node is as deep as the innermost or deeper, so  *)
(* that a node is gone below (Opened) when it has children or is the       *)
(* innermost activation's own (TreeInv).  A walk nobody disturbs finds all *)
(* there is (TreeIsComplete): every node hangs below one that refers to    *)
(* it, and of the first node of an object every reference has a node below *)
(* or is on the list of the activation at its depth (Sound, in WalkInv).   *)
(*                                                                         *)
(* crossplane_diagnose: what is not Ready is explained (SomebodyIsBlamed), *)
(* for the last failure in preorder has none below it (BlameInv); no cause *)
(* lies below another one (CausesAreApart), which takes that InOrder lists *)
(* elements of a set, and in their order (OrderInv); and where no object   *)
(* is in two places the causes are the deepest failures of the graph       *)
(* (CausesAreDeepest), for what hangs below a node is then all that is     *)
(* below its object, and no failure is left out (CoverInv).                *)
(*                                                                         *)
(* A walk takes a bounded number of Gets (WalkIsBounded) and each of its   *)
(* steps lowers a natural number (WalkGoesDown), from a bound on the nodes *)
(* and the references still pending by what is in seen (BoundInv).         *)
(*                                                                         *)
(* crossplane_impact: nothing protected is missed, what is said to dangle  *)
(* protects nothing, alone means alone (ImpactInv, from the walk's and the *)
(* search's invariants).                                                   *)
(***************************************************************************)
EXTENDS Diagnosis, DeletionImpact, UsageSearch_proofs, SequenceTheorems, FiniteSetTheorems, WellFoundedInduction

Frame == [depth : Nat, todo : SUBSET Objects]
Node == [obj : Objects, depth : Nat, ready : Statuses, found : BOOLEAN]

\* Activations, the innermost first, down to the one of the root at depth 0.
Ladder(s) == s \in Seq(Frame) /\ \A i \in 1..Len(s) : s[i].depth = Len(s) - i

\* Node i has been gone below, given the nodes and the activations.
Opened(ns, s, i) ==
  \/ i < Len(ns) /\ ns[i+1].depth > ns[i].depth
  \/ i = Len(ns) /\ Len(s) = ns[i].depth + 1

TreeTyped ==
  /\ refs \in [Objects -> SUBSET Objects]
  /\ ready \in [Objects -> Statuses]
  /\ nodes \in Seq(Node)
  /\ Ladder(stack)

TreeInv ==
  /\ TreeTyped
  /\ stage = "start" => nodes = <<>> /\ stack = <<>>
  /\ stack # <<>> => nodes # <<>> /\ Len(stack) <= nodes[Len(nodes)].depth + 1
  /\ \A i \in 1..Len(nodes) : Opened(nodes, stack, i) => nodes[i].obj \in seen
  /\ \A i, j \in 1..Len(nodes) :
       Opened(nodes, stack, i) /\ Opened(nodes, stack, j) /\ nodes[i].obj = nodes[j].obj => i = j

------------------------------------------------------------------------------
LEMMA LeastIsIn == ASSUME NEW S, S \subseteq Nat, S # {}  PROVE Least(S) \in S /\ \A y \in S : Least(S) <= y
<1>1. \E x \in S : \A y \in S : ~(<<y, x>> \in OpToRel(<, Nat))
  <2> DEFINE R == OpToRel(<, Nat)
  <2>1. IsWellFoundedOn(R, Nat)
    BY NatLessThanWellFounded
  <2> HIDE DEF R
  <2>2. \E x \in S : \A y \in S : ~(<<y, x>> \in R)
    BY <2>1, WFMin
  <2> QED  BY <2>2 DEF R
<1>2. PICK x \in S : \A y \in S : ~(<<y, x>> \in OpToRel(<, Nat))
  BY <1>1
<1>3. \A y \in S : x <= y
  <2> SUFFICES ASSUME NEW y \in S, y < x  PROVE FALSE
    OBVIOUS
  <2>1. <<y, x>> \in OpToRel(<, Nat)
    BY DEF OpToRel
  <2> QED  BY <1>2, <2>1
<1> QED  BY <1>3 DEF Least

LEMMA LadderTop ==
  ASSUME NEW s, Ladder(s), s # <<>>
  PROVE  /\ Head(s) \in Frame /\ Head(s).depth = Len(s) - 1
         /\ Ladder(Tail(s)) /\ Len(Tail(s)) = Len(s) - 1 /\ Len(s) \in Nat \ {0}
<1>1. s \in Seq(Frame) /\ Len(s) \in Nat \ {0}
  BY EmptySeq DEF Ladder
<1>2. Head(s) \in Frame /\ Tail(s) \in Seq(Frame) /\ Len(Tail(s)) = Len(s) - 1
      /\ \A i \in 1..Len(Tail(s)) : Tail(s)[i] = s[i+1]
  BY <1>1, HeadTailProperties
<1>3. Head(s) = s[1]
  BY <1>1
<1>4. \A i \in 1..Len(Tail(s)) : Tail(s)[i].depth = Len(Tail(s)) - i
  BY <1>1, <1>2 DEF Ladder
<1> QED  BY <1>1, <1>2, <1>3, <1>4 DEF Ladder

LEMMA LadderStep ==
  ASSUME NEW s, Ladder(s), NEW f \in Frame, f.depth = Len(s)
  PROVE  Ladder(<<f>> \o s) /\ Len(<<f>> \o s) = Len(s) + 1
<1>1. s \in Seq(Frame) /\ Len(s) \in Nat /\ <<f>> \in Seq(Frame) /\ Len(<<f>>) = 1
  BY LenProperties DEF Ladder
<1>2. <<f>> \o s \in Seq(Frame) /\ Len(<<f>> \o s) = Len(s) + 1
      /\ \A i \in 1..(Len(s) + 1) : (<<f>> \o s)[i] = IF i <= 1 THEN f ELSE s[i-1]
  BY <1>1, ConcatProperties
<1>3. \A i \in 1..(Len(s) + 1) : (<<f>> \o s)[i].depth = Len(s) + 1 - i
  BY <1>1, <1>2 DEF Ladder
<1> QED  BY <1>2, <1>3 DEF Ladder

\* Node n comes below the innermost activation of s, and t is what becomes of
\* the activations: one more may have been entered, for n.
MayAdd(ns, s, n, t) ==
  /\ ns \in Seq(Node) /\ Ladder(s) /\ n \in Node /\ Ladder(t)
  /\ s # <<>> => ns # <<>> /\ Len(s) <= ns[Len(ns)].depth + 1
  /\ s = <<>> => ns = <<>>
  /\ n.depth = Len(s) /\ Len(t) \in {Len(s), Len(s) + 1}

\* Then nothing that was not open is opened but n, by the new activation.
OnlyItOpens(ns, s, n, t, m) ==
  /\ m \in Seq(Node) /\ Len(m) = Len(ns) + 1 /\ m[Len(m)] = n
  /\ \A i \in 1..Len(ns) : m[i] = ns[i] /\ (Opened(m, t, i) => Opened(ns, s, i))
  /\ Opened(m, t, Len(m)) <=> Len(t) = Len(s) + 1
  /\ t # <<>> => m # <<>> /\ Len(t) <= m[Len(m)].depth + 1

LEMMA NodeAdded ==
  ASSUME NEW ns, NEW s, NEW n, NEW t, MayAdd(ns, s, n, t)
  PROVE  OnlyItOpens(ns, s, n, t, Append(ns, n))
<1> DEFINE m == Append(ns, n)
<1>0. /\ ns \in Seq(Node) /\ Ladder(s) /\ n \in Node /\ Ladder(t)
      /\ s # <<>> => ns # <<>> /\ Len(s) <= ns[Len(ns)].depth + 1
      /\ s = <<>> => ns = <<>>
      /\ n.depth = Len(s) /\ Len(t) \in {Len(s), Len(s) + 1}
  BY DEF MayAdd
<1>1. Len(ns) \in Nat /\ m \in Seq(Node) /\ Len(m) = Len(ns) + 1 /\ m[Len(m)] = n
      /\ \A i \in 1..Len(ns) : m[i] = ns[i]
  BY <1>0
<1> HIDE DEF m
<1>2. Len(s) \in Nat /\ (Len(s) = 0 <=> s = <<>>) /\ n.depth \in Nat
  BY <1>0, EmptySeq DEF Ladder, Node
<1>3. \A i \in 1..Len(ns) : ns[i].depth \in Nat
  <2>1. \A i \in 1..Len(ns) : ns[i] \in Node
    BY <1>0, ElementOfSeq
  <2> QED  BY <2>1 DEF Node
<1>4. ASSUME NEW i \in 1..Len(ns), Opened(m, t, i)  PROVE Opened(ns, s, i)
  <2>1. m[i] = ns[i] /\ i < Len(m) /\ m[i+1].depth > m[i].depth
    BY <1>1, <1>4 DEF Opened
  <2>2. CASE i = Len(ns)
    <3>1. m[i+1] = n
      BY <1>1, <2>2
    <3>2. Len(s) > ns[i].depth
      BY <1>0, <2>1, <3>1
    <3>3. s # <<>>
      BY <1>2, <1>3, <3>2
    <3>4. Len(s) = ns[i].depth + 1
      BY <1>0, <1>2, <1>3, <2>2, <3>2, <3>3
    <3> QED  BY <2>2, <3>4 DEF Opened
  <2>3. CASE i < Len(ns)
    <3>1. m[i+1] = ns[i+1]
      BY <1>1, <2>3
    <3> QED  BY <2>1, <2>3, <3>1 DEF Opened
  <2> QED  BY <1>1, <2>2, <2>3
<1>5. Opened(m, t, Len(m)) <=> Len(t) = Len(s) + 1
  BY <1>0, <1>1, <1>2 DEF Opened
<1>6. t # <<>> => m # <<>> /\ Len(t) <= m[Len(m)].depth + 1
  BY <1>0, <1>1, <1>2
<1>7. OnlyItOpens(ns, s, n, t, m)
  BY <1>1, <1>4, <1>5, <1>6 DEF OnlyItOpens
<1> QED  BY <1>7 DEF m

\* What a step makes of TreeInv: it adds a node that opens only an object not
\* seen before.
LEMMA AddingKeepsInv ==
  ASSUME TreeInv, refs' \in [Objects -> SUBSET Objects], ready' \in [Objects -> Statuses],
         stage' # "start", stack = <<>> => nodes = <<>>,
         NEW n \in Node, nodes' = Append(nodes, n), n.depth = Len(stack), Ladder(stack'),
         \/ Len(stack') = Len(stack) /\ seen' = seen
         \/ Len(stack') = Len(stack) + 1 /\ n.obj \notin seen /\ seen' = seen \cup {n.obj}
  PROVE  TreeInv'
<1>0. nodes \in Seq(Node) /\ Ladder(stack) /\ Len(stack) \in Nat /\ Len(nodes) \in Nat
  BY LenProperties DEF TreeInv, TreeTyped, Ladder
<1>1. /\ nodes' \in Seq(Node) /\ Len(nodes') = Len(nodes) + 1 /\ nodes'[Len(nodes')] = n
      /\ \A i \in 1..Len(nodes) : nodes'[i] = nodes[i] /\ (Opened(nodes', stack', i) => Opened(nodes, stack, i))
      /\ Opened(nodes', stack', Len(nodes')) <=> Len(stack') = Len(stack) + 1
      /\ stack' # <<>> => nodes' # <<>> /\ Len(stack') <= nodes'[Len(nodes')].depth + 1
  <2>1. stack # <<>> => nodes # <<>> /\ Len(stack) <= nodes[Len(nodes)].depth + 1
    BY DEF TreeInv
  <2>2. MayAdd(nodes, stack, n, stack')
    BY <1>0, <2>1 DEF MayAdd
  <2>3. OnlyItOpens(nodes, stack, n, stack', nodes')
    BY <2>2, NodeAdded
  <2> QED  BY <2>3 DEF OnlyItOpens
<1>2. \A i \in 1..Len(nodes') : i \in 1..Len(nodes) \/ i = Len(nodes')
  BY <1>0, <1>1
<1>3. \A i \in 1..Len(nodes) : Opened(nodes', stack', i) => nodes'[i].obj \in seen
  BY <1>1 DEF TreeInv
<1>4. \A i \in 1..Len(nodes') : Opened(nodes', stack', i) => nodes'[i].obj \in seen'
  BY <1>0, <1>1, <1>2, <1>3
<1>5. \A i \in 1..Len(nodes) :
        ~(Opened(nodes', stack', i) /\ Opened(nodes', stack', Len(nodes')) /\ nodes'[i].obj = nodes'[Len(nodes')].obj)
  BY <1>0, <1>1, <1>3
<1>6. \A i, j \in 1..Len(nodes) :
        Opened(nodes', stack', i) /\ Opened(nodes', stack', j) /\ nodes'[i].obj = nodes'[j].obj => i = j
  BY <1>1 DEF TreeInv
<1>7. \A i, j \in 1..Len(nodes') :
        Opened(nodes', stack', i) /\ Opened(nodes', stack', j) /\ nodes'[i].obj = nodes'[j].obj => i = j
  BY <1>2, <1>5, <1>6
<1>8. TreeTyped'
  BY <1>1 DEF TreeTyped
<1> QED  BY <1>1, <1>4, <1>7, <1>8 DEF TreeInv

------------------------------------------------------------------------------
LEMMA Begins == TreeInit => TreeInv
<1> SUFFICES ASSUME TreeInit  PROVE TreeInv
  OBVIOUS
<1>1. refs \in [Objects -> SUBSET Objects] /\ ready \in [Objects -> Statuses]
  BY GraphsAssumption DEF TreeInit
<1>2. nodes = <<>> /\ stack = <<>> /\ stage = "start"
  BY DEF TreeInit
<1>3. TreeTyped
  BY <1>1, <1>2 DEF TreeTyped, Ladder
<1> QED  BY <1>2, <1>3 DEF TreeInv

\* treeNode for an object that was read.
LEMMA VisitKeepsInv ==
  ASSUME TreeInv, NEW o \in Objects, NEW callers, Ladder(callers), Len(callers) = Len(stack),
         Visit(o, Len(stack), callers), stack = <<>> => nodes = <<>>,
         stage' # "start", UNCHANGED server
  PROVE  TreeInv'
<1> DEFINE n == [obj |-> o, depth |-> Len(stack), ready |-> ready[o], found |-> TRUE]
<1>1. refs' \in [Objects -> SUBSET Objects] /\ ready' \in [Objects -> Statuses]
  BY DEF TreeInv, TreeTyped, server
<1>2. Len(stack) \in Nat /\ ready[o] \in Statuses
  BY LenProperties DEF TreeInv, TreeTyped, Ladder
<1>3. n \in Node /\ n.depth = Len(stack) /\ n.obj = o
  BY <1>2 DEF Node
<1>4. nodes' = Append(nodes, n)
  BY DEF Visit
<1> HIDE DEF n
<1>5. CASE Cut(o, Len(stack))
  <2>1. stack' = callers /\ seen' = seen
    BY <1>5 DEF Visit
  <2> QED  BY <1>1, <1>3, <1>4, <2>1, AddingKeepsInv
<1>6. CASE ~Cut(o, Len(stack))
  <2> DEFINE f == [depth |-> Len(stack), todo |-> refs[o]]
  <2>1. stack' = <<f>> \o callers /\ seen' = seen \cup {o} /\ o \notin seen
    BY <1>6 DEF Visit, Cut
  <2>2. f \in Frame /\ f.depth = Len(callers)
    BY <1>2 DEF Frame, TreeInv, TreeTyped
  <2> HIDE DEF f
  <2>3. Ladder(stack') /\ Len(stack') = Len(stack) + 1
    BY <2>1, <2>2, LadderStep
  <2> QED  BY <1>1, <1>3, <1>4, <2>1, <2>3, AddingKeepsInv
<1> QED  BY <1>5, <1>6

\* The activation whose next reference is followed.
LEMMA PoppedIsLadder ==
  ASSUME TreeInv, Following
  PROVE  /\ Ladder(Popped) /\ Len(Popped) = Len(stack) /\ Next1 \in Objects
         /\ Head(stack).depth + 1 = Len(stack)
<1>1. Ladder(stack) /\ stack # <<>> /\ Head(stack).todo # {}
  BY DEF TreeInv, TreeTyped, Following
<1>2. /\ Head(stack) \in Frame /\ Head(stack).depth = Len(stack) - 1
      /\ Ladder(Tail(stack)) /\ Len(Tail(stack)) = Len(stack) - 1 /\ Len(stack) \in Nat \ {0}
  BY <1>1, LadderTop
<1>3. Head(stack).todo \subseteq Nat /\ Head(stack).todo \subseteq Objects
  BY <1>2, ObjectsAssumption DEF Frame
<1>4. Next1 \in Objects
  BY <1>1, <1>3, LeastIsIn DEF Next1
<1> DEFINE f == [Head(stack) EXCEPT !.todo = @ \ {Next1}]
<1>5. f \in Frame /\ f.depth = Len(Tail(stack))
  BY <1>2 DEF Frame
<1>6. Popped = <<f>> \o Tail(stack)
  BY DEF Popped
<1> HIDE DEF f
<1>7. Ladder(Popped) /\ Len(Popped) = Len(Tail(stack)) + 1
  BY <1>2, <1>5, <1>6, LadderStep
<1> QED  BY <1>2, <1>4, <1>7

LEMMA ReadRootKeepsInv == TreeInv /\ ReadRoot => TreeInv'
<1> SUFFICES ASSUME TreeInv, ReadRoot  PROVE TreeInv'
  OBVIOUS
<1>1. nodes = <<>> /\ stack = <<>> /\ stage' # "start" /\ UNCHANGED server
  BY DEF ReadRoot, TreeInv
<1>2. Visit(Root, Len(stack), <<>>)
  BY <1>1 DEF ReadRoot
<1>3. Ladder(<<>>) /\ Len(<<>>) = Len(stack) /\ Root \in Objects
  BY <1>1, ObjectsAssumption DEF Ladder
<1> QED  BY <1>1, <1>2, <1>3, VisitKeepsInv

LEMMA FollowReferenceKeepsInv == TreeInv /\ FollowReference => TreeInv'
<1> SUFFICES ASSUME TreeInv, FollowReference  PROVE TreeInv'
  OBVIOUS
<1>1. Following /\ stack # <<>> /\ stage' # "start" /\ UNCHANGED server
  BY DEF FollowReference, Following
<1>2. Ladder(Popped) /\ Len(Popped) = Len(stack) /\ Next1 \in Objects /\ Head(stack).depth + 1 = Len(stack)
  BY <1>1, PoppedIsLadder
<1>3. Visit(Next1, Len(stack), Popped)
  BY <1>2 DEF FollowReference
<1> QED  BY <1>1, <1>2, <1>3, VisitKeepsInv

LEMMA ReferenceFailsKeepsInv == TreeInv /\ ReferenceFails => TreeInv'
<1> SUFFICES ASSUME TreeInv, ReferenceFails  PROVE TreeInv'
  OBVIOUS
<1>1. Following /\ stack # <<>> /\ stage' # "start" /\ UNCHANGED server /\ stack' = Popped /\ seen' = seen
  BY DEF ReferenceFails, Following
<1>2. Ladder(Popped) /\ Len(Popped) = Len(stack) /\ Next1 \in Objects /\ Head(stack).depth + 1 = Len(stack)
  BY <1>1, PoppedIsLadder
<1> DEFINE n == [obj |-> Next1, depth |-> Head(stack).depth + 1, ready |-> Absent, found |-> FALSE]
<1>3. Len(stack) \in Nat
  BY LenProperties DEF TreeInv, TreeTyped, Ladder
<1>4. n \in Node /\ n.depth = Len(stack)
  BY <1>2, <1>3, StatusesAssumption DEF Node
<1>5. nodes' = Append(nodes, n)
  BY DEF ReferenceFails
<1> HIDE DEF n
<1>6. refs' \in [Objects -> SUBSET Objects] /\ ready' \in [Objects -> Statuses]
  BY <1>1 DEF TreeInv, TreeTyped, server
<1> QED  BY <1>1, <1>2, <1>4, <1>5, <1>6, AddingKeepsInv

\* What treeNode is left, no node is open for that was not.
LEMMA ReturnNodeKeepsInv == TreeInv /\ ReturnNode => TreeInv'
<1> SUFFICES ASSUME TreeInv, ReturnNode  PROVE TreeInv'
  OBVIOUS
<1>1. stack # <<>> /\ stack' = Tail(stack) /\ stage' # "start" /\ nodes' = nodes /\ seen' = seen /\ UNCHANGED server
  BY DEF ReturnNode
<1>2. Ladder(stack') /\ Len(stack') = Len(stack) - 1 /\ Len(stack) \in Nat
  BY <1>1, LadderTop DEF TreeInv, TreeTyped
<1>3. nodes # <<>> /\ Len(stack) <= nodes[Len(nodes)].depth + 1
  BY <1>1 DEF TreeInv
<1>4. nodes[Len(nodes)].depth \in Nat
  <2>1. Len(nodes) \in 1..Len(nodes)
    BY <1>3, EmptySeq DEF TreeInv, TreeTyped
  <2>2. nodes[Len(nodes)] \in Node
    BY <2>1, ElementOfSeq DEF TreeInv, TreeTyped
  <2> QED  BY <2>2 DEF Node
<1>5. \A i \in 1..Len(nodes) : Opened(nodes, stack', i) => Opened(nodes, stack, i)
  BY <1>2, <1>3, <1>4 DEF Opened
<1>6. TreeTyped'
  BY <1>1, <1>2 DEF TreeInv, TreeTyped, server
<1>7. \A i \in 1..Len(nodes') : Opened(nodes', stack', i) => nodes'[i].obj \in seen'
  BY <1>1, <1>5 DEF TreeInv
<1>8. \A i, j \in 1..Len(nodes') :
        Opened(nodes', stack', i) /\ Opened(nodes', stack', j) /\ nodes'[i].obj = nodes'[j].obj => i = j
  BY <1>1, <1>5 DEF TreeInv
<1>9. stack' # <<>> => nodes' # <<>> /\ Len(stack') <= nodes'[Len(nodes')].depth + 1
  BY <1>1, <1>2, <1>3, <1>4
<1> QED  BY <1>1, <1>6, <1>7, <1>8, <1>9 DEF TreeInv

LEMMA StillKeepsInv ==
  ASSUME TreeInv, UNCHANGED <<nodes, stack, seen>>, stage' # "start" \/ stage' = stage,
         refs' \in [Objects -> SUBSET Objects], ready' \in [Objects -> Statuses]
  PROVE  TreeInv'
<1>1. TreeTyped'
  BY DEF TreeInv, TreeTyped
<1> QED  BY <1>1 DEF TreeInv

\* Before the walk, during it, and when it could not begin.
Early == {"start", "walking", "failed"}

\* A step that is not the walk's: one of what comes after it, or none.
Resting ==
  /\ UNCHANGED <<server, nodes, stack, seen>>
  /\ stage' = stage \/ (stage \notin Early /\ stage' \notin Early)
  /\ mishaps' = mishaps \/ mishaps' = mishaps + 1

LEMMA TreeGoesOn == TreeInv /\ (TreeNext \/ Resting) => TreeInv'
<1> SUFFICES ASSUME TreeInv, TreeNext \/ Resting  PROVE TreeInv'
  OBVIOUS
<1>0. refs \in [Objects -> SUBSET Objects] /\ ready \in [Objects -> Statuses]
  BY DEF TreeInv, TreeTyped
<1>1. CASE Walk
  <2>1. CASE ReadRootFails
    BY <1>0, <2>1, StillKeepsInv DEF ReadRootFails, server
  <2> QED  BY <1>1, <2>1, ReadRootKeepsInv, FollowReferenceKeepsInv, ReferenceFailsKeepsInv,
              ReturnNodeKeepsInv DEF Walk
<1>2. CASE ServerChanges
  <2>1. refs' \in [Objects -> SUBSET Objects] /\ ready' \in [Objects -> Statuses]
    BY <1>0, <1>2 DEF ServerChanges
  <2> QED  BY <1>2, <2>1, StillKeepsInv DEF ServerChanges, walk
<1>3. CASE Resting
  BY <1>0, <1>3, StillKeepsInv DEF Resting, Early, server
<1> QED  BY <1>1, <1>2, <1>3 DEF TreeNext

LEMMA DiagnosisWalks == [Next]_vars => TreeNext \/ Resting
<1>1. CASE Tool
  <2>1. stage \notin Early /\ stage' \notin Early
    BY <1>1 DEF Tool, AnswerReady, Investigate, ReRead, Conclude, walk, Early
  <2>2. UNCHANGED <<server, nodes, stack, seen>> /\ (mishaps' = mishaps \/ mishaps' = mishaps + 1)
    BY <1>1 DEF Tool, AnswerReady, Investigate, ReRead, Conclude, walk, server
  <2> QED  BY <2>1, <2>2 DEF Resting
<1>2. CASE UNCHANGED vars
  BY <1>2 DEF vars, treeVars, walk, Resting
<1> QED  BY <1>1, <1>2 DEF Next

LEMMA GoesOn == TreeInv /\ [Next]_vars => TreeInv'
  BY TreeGoesOn, DiagnosisWalks

\* No object is gone below twice, for any references, in a circle or not, and
\* any changes during the walk (tree.go:12-14, 59-63).
THEOREM ExpandsOnce == Spec => []ExpandedOnce
<1>1. Init => TreeInv
  BY Begins DEF Init
<1>2. TreeInv => ExpandedOnce
  <2> SUFFICES ASSUME TreeInv, NEW i \in DOMAIN nodes, NEW j \in DOMAIN nodes,
                      nodes[i].obj = nodes[j].obj, ~IsLeaf(i), ~IsLeaf(j)
               PROVE  i = j
    BY DEF ExpandedOnce
  <2>1. DOMAIN nodes = 1..Len(nodes) /\ Len(nodes) \in Nat
    BY LenProperties DEF TreeInv, TreeTyped
  <2>2. \A k \in 1..Len(nodes) : nodes[k].depth \in Nat
    <3>1. \A k \in 1..Len(nodes) : nodes[k] \in Node
      BY ElementOfSeq DEF TreeInv, TreeTyped
    <3> QED  BY <3>1 DEF Node
  <2>3. \A k \in 1..Len(nodes) : ~IsLeaf(k) => Opened(nodes, stack, k)
    <3> SUFFICES ASSUME NEW k \in 1..Len(nodes), ~IsLeaf(k)  PROVE Opened(nodes, stack, k)
      OBVIOUS
    <3>0. k # Len(nodes)
      BY DEF IsLeaf
    <3>1. ~(nodes[k+1].depth <= nodes[k].depth)
      BY DEF IsLeaf
    <3>2. k + 1 \in 1..Len(nodes) /\ k < Len(nodes)
      <4> DEFINE n == Len(nodes)
      <4>1. n \in Nat /\ k \in 1..n /\ k # n
        BY <2>1, <3>0
      <4> HIDE DEF n
      <4>2. k + 1 \in 1..n /\ k < n
        BY <4>1
      <4> QED  BY <4>2 DEF n
    <3>3. nodes[k+1].depth > nodes[k].depth
      BY <2>2, <3>1, <3>2
    <3> QED  BY <3>2, <3>3 DEF Opened
  <2> QED  BY <2>1, <2>3 DEF TreeInv
<1> QED  BY <1>1, <1>2, GoesOn, PTL DEF Spec
------------------------------------------------------------------------------
\* Node k hangs below node j.
Child(ns, j, k) ==
  /\ j < k /\ ns[k].depth = ns[j].depth + 1
  /\ \A l \in 1..Len(ns) : j < l /\ l <= k => ns[l].depth > ns[j].depth

\* Node j has an activation on the stack, which is the one at its depth.
OnPath(ns, s, j) ==
  /\ ns[j].depth < Len(s)
  /\ \A k \in 1..Len(ns) : j < k => ns[k].depth > ns[j].depth
Activation(s, d) == s[Len(s) - d]

\* The tree is true, and complete but for what the activations have yet to do.
WellRead(ns) == \A k \in 1..Len(ns) : ns[k].ready = StatusOf(ns[k].obj)
Rooted(ns) ==
  \A k \in 1..Len(ns) :
    IF k = 1 THEN ns[k].obj = Root /\ ns[k].depth = 0
    ELSE \E j \in 1..Len(ns) : Child(ns, j, k) /\ ns[j].obj \in alive /\ ns[k].obj \in refs[ns[j].obj]
First(ns, j) == \A i \in 1..Len(ns) : i < j => ns[i].obj # ns[j].obj
Handled(ns, s, j, p) ==
  \/ \E k \in 1..Len(ns) : Child(ns, j, k) /\ ns[k].obj = p
  \/ OnPath(ns, s, j) /\ p \in Activation(s, ns[j].depth).todo
GoneBelow(ns, s) ==
  \A j \in 1..Len(ns) :
    ns[j].obj \in alive /\ ns[j].depth < MaxTreeDepth /\ First(ns, j)
    => \A p \in refs[ns[j].obj] : Handled(ns, s, j, p)
HasNode(ns, s, d) ==
  \E j \in 1..Len(ns) : /\ OnPath(ns, s, j) /\ ns[j].depth = d /\ ns[j].obj \in alive
                        /\ Activation(s, d).todo \subseteq refs[ns[j].obj]
Backed(ns, s) == \A d \in 0..(Len(s)-1) : HasNode(ns, s, d)
Noted(ns) == \A o \in seen : \E k \in 1..Len(ns) : ns[k].obj = o

Sound == WellRead(nodes) /\ Rooted(nodes) /\ GoneBelow(nodes, stack) /\ Backed(nodes, stack) /\ Noted(nodes)

WalkInv ==
  /\ TreeInv
  /\ mishaps \in Nat
  /\ stage = "failed" => nodes = <<>> /\ stack = <<>>
  /\ stage \notin Early => nodes # <<>> /\ stack = <<>>
  /\ mishaps = 0 => Sound
------------------------------------------------------------------------------
\* The activations below one that is entered or left stay what they were.
LEMMA PushedOnto ==
  ASSUME NEW s, Ladder(s), NEW f \in Frame, f.depth = Len(s)
  PROVE  /\ Activation(<<f>> \o s, Len(s)) = f
         /\ \A d \in 0..(Len(s)-1) : Activation(<<f>> \o s, d) = Activation(s, d)
<1>1. s \in Seq(Frame) /\ Len(s) \in Nat /\ <<f>> \in Seq(Frame) /\ Len(<<f>>) = 1
  BY LenProperties DEF Ladder
<1>2. Len(<<f>> \o s) = Len(s) + 1
      /\ \A i \in 1..(Len(s) + 1) : (<<f>> \o s)[i] = IF i <= 1 THEN f ELSE s[i-1]
  BY <1>1, ConcatProperties
<1>3. (<<f>> \o s)[Len(s) + 1 - Len(s)] = f
  BY <1>1, <1>2
<1>4. ASSUME NEW d \in 0..(Len(s)-1)  PROVE (<<f>> \o s)[Len(s) + 1 - d] = s[Len(s) - d]
  <2>1. Len(s) + 1 - d \in 1..(Len(s) + 1) /\ ~(Len(s) + 1 - d <= 1) /\ (Len(s) + 1 - d) - 1 = Len(s) - d
    BY <1>1
  <2> QED  BY <1>2, <2>1
<1> QED  BY <1>2, <1>3, <1>4 DEF Activation

LEMMA TakenOff ==
  ASSUME NEW s, Ladder(s), s # <<>>
  PROVE  /\ Activation(s, Len(s) - 1) = Head(s)
         /\ \A d \in 0..(Len(s)-2) : Activation(Tail(s), d) = Activation(s, d)
<1>1. s \in Seq(Frame) /\ Len(s) \in Nat \ {0}
  BY EmptySeq DEF Ladder
<1>2. Tail(s) \in Seq(Frame) /\ Len(Tail(s)) = Len(s) - 1
      /\ \A i \in 1..Len(Tail(s)) : Tail(s)[i] = s[i+1]
  BY <1>1, HeadTailProperties
<1>3. Head(s) = s[1] /\ Len(s) - (Len(s) - 1) = 1
  BY <1>1
<1>4. ASSUME NEW d \in 0..(Len(s)-2)  PROVE Tail(s)[Len(s) - 1 - d] = s[Len(s) - d]
  <2>1. Len(s) - 1 - d \in 1..Len(Tail(s)) /\ (Len(s) - 1 - d) + 1 = Len(s) - d
    BY <1>1, <1>2
  <2> QED  BY <1>2, <2>1
<1> QED  BY <1>2, <1>3, <1>4 DEF Activation

\* What becomes of children and activations when node n is added to make m, and
\* the activations become t.
Joins(ns, s, n, t) ==
  /\ ns \in Seq(Node) /\ Ladder(s) /\ n \in Node /\ n.depth = Len(s)
  /\ Ladder(t) /\ Len(t) \in {Len(s), Len(s) + 1}

Joined(ns, s, n, t, m) ==
  /\ m \in Seq(Node) /\ Len(ns) \in Nat /\ Len(m) = Len(ns) + 1 /\ m[Len(m)] = n
  /\ \A i \in 1..Len(ns) : m[i] = ns[i]
  /\ \A j, k \in 1..Len(ns) : Child(ns, j, k) => Child(m, j, k)
  /\ \A j \in 1..Len(ns) : OnPath(ns, s, j) => OnPath(m, t, j)
  /\ \A j \in 1..Len(ns) : OnPath(ns, s, j) /\ ns[j].depth = Len(s) - 1 => Child(m, j, Len(m))
  /\ Len(t) = Len(s) + 1 => OnPath(m, t, Len(m))

LEMMA NodeJoins ==
  ASSUME NEW ns, NEW s, NEW n, NEW t, Joins(ns, s, n, t)
  PROVE  Joined(ns, s, n, t, Append(ns, n))
<1> DEFINE m == Append(ns, n)
<1>0. ns \in Seq(Node) /\ Ladder(s) /\ n \in Node /\ n.depth = Len(s) /\ Ladder(t)
  BY DEF Joins
<1>1. /\ Len(ns) \in Nat /\ m \in Seq(Node) /\ Len(m) = Len(ns) + 1 /\ m[Len(m)] = n
      /\ \A i \in 1..Len(ns) : m[i] = ns[i]
  BY <1>0
<1> HIDE DEF m
<1>2. Len(s) \in Nat /\ n.depth \in Nat
  BY <1>0, LenProperties DEF Ladder, Node
<1>3. \A i \in 1..Len(ns) : ns[i].depth \in Nat
  <2>1. \A i \in 1..Len(ns) : ns[i] \in Node
    BY <1>0, ElementOfSeq
  <2> QED  BY <2>1 DEF Node
<1>4. \A i \in 1..Len(m) : i \in 1..Len(ns) \/ i = Len(m)
  BY <1>1
<1>5. ASSUME NEW j \in 1..Len(ns), NEW k \in 1..Len(ns), Child(ns, j, k)  PROVE Child(m, j, k)
  <2>1. j < k /\ m[k].depth = m[j].depth + 1
    BY <1>1, <1>5 DEF Child
  <2>2. \A l \in 1..Len(m) : j < l /\ l <= k => m[l].depth > m[j].depth
    BY <1>1, <1>5 DEF Child
  <2> QED  BY <2>1, <2>2 DEF Child
<1>6. ASSUME NEW j \in 1..Len(ns), OnPath(ns, s, j)  PROVE \A k \in 1..Len(m) : j < k => m[k].depth > m[j].depth
  <2>1. m[Len(m)].depth > m[j].depth
    BY <1>0, <1>1, <1>2, <1>3, <1>6 DEF OnPath
  <2>2. \A k \in 1..Len(ns) : j < k => m[k].depth > m[j].depth
    BY <1>1, <1>6 DEF OnPath
  <2> QED  BY <1>4, <2>1, <2>2
<1>7. \A j \in 1..Len(ns) : OnPath(ns, s, j) => OnPath(m, t, j)
  <2>1. Len(t) = Len(s) \/ Len(t) = Len(s) + 1
    BY DEF Joins
  <2> QED  BY <1>1, <1>2, <1>3, <1>6, <2>1 DEF OnPath
<1>8. ASSUME NEW j \in 1..Len(ns), OnPath(ns, s, j), ns[j].depth = Len(s) - 1  PROVE Child(m, j, Len(m))
  <2>1. j < Len(m) /\ m[Len(m)].depth = m[j].depth + 1
    BY <1>0, <1>1, <1>2, <1>8
  <2> QED  BY <1>6, <1>8, <2>1 DEF Child
<1>9. Len(t) = Len(s) + 1 => OnPath(m, t, Len(m))
  BY <1>0, <1>1, <1>2 DEF OnPath
<1>10. Joined(ns, s, n, t, m)
  BY <1>1, <1>5, <1>7, <1>8, <1>9 DEF Joined
<1> QED  BY <1>10 DEF m

\* treeNode adds node n for the next reference, or for the root, and may enter
\* an activation for it: what was to be done before is done or still to be done.
Hands(o, callers) ==
  /\ Ladder(callers) /\ Len(callers) = Len(stack)
  /\ \A d \in 0..(Len(stack)-2) : Activation(callers, d) = Activation(stack, d)
  /\ IF stack = <<>> THEN nodes = <<>> /\ o = Root
     ELSE LET top == Len(stack) - 1
          IN  /\ nodes # <<>>
              /\ o \in Activation(stack, top).todo
              /\ Activation(callers, top).todo = Activation(stack, top).todo \ {o}

Comes(n, callers) ==
  /\ Hands(n.obj, callers)
  /\ n \in Node /\ n.depth = Len(stack) /\ nodes' = Append(nodes, n)
  /\ n.ready = StatusOf(n.obj)

IsNotEntered(n, callers) ==
  /\ stack' = callers /\ seen' = seen
  /\ n.obj \notin alive \/ n.depth >= MaxTreeDepth \/ n.obj \in seen

IsEntered(n, callers, f) ==
  /\ f \in Frame /\ f.depth = Len(callers) /\ f.todo = refs[n.obj]
  /\ stack' = <<f>> \o callers /\ seen' = seen \cup {n.obj} /\ n.obj \in alive

LEMMA NodeKeepsSound ==
  ASSUME TreeInv, Sound, UNCHANGED server, NEW n, NEW callers, NEW f, Comes(n, callers),
         IsNotEntered(n, callers) \/ IsEntered(n, callers, f)
  PROVE  Sound'
<1> DEFINE L == Len(stack)
<1>0. nodes \in Seq(Node) /\ Ladder(stack) /\ L \in Nat /\ (L = 0 <=> stack = <<>>) /\ alive' = alive /\ refs' = refs
      /\ Len(nodes) \in Nat /\ (Len(nodes) = 0 <=> nodes = <<>>)
  BY LenProperties, EmptySeq DEF TreeInv, TreeTyped, Ladder, server
<1>1. n \in Node /\ n.depth = L /\ Ladder(callers) /\ Len(callers) = L /\ nodes' = Append(nodes, n) /\ n.ready = StatusOf(n.obj)
  BY DEF Comes, Hands
<1>2. /\ Ladder(stack') /\ Len(stack') \in {L, L + 1}
      /\ \A d \in 0..(L-1) : Activation(stack', d) = Activation(callers, d)
      /\ IsEntered(n, callers, f) => Len(stack') = L + 1 /\ Activation(stack', L) = f
      /\ IsNotEntered(n, callers) => Len(stack') = L
  <2>1. CASE IsNotEntered(n, callers)
    <3>1. ~IsEntered(n, callers, f)
      <4>1. ASSUME IsEntered(n, callers, f)  PROVE FALSE
        <5>1. Len(<<f>> \o callers) = Len(callers) + 1
          BY <1>1, <4>1, LadderStep DEF IsEntered
        <5> QED  BY <1>0, <1>1, <2>1, <4>1, <5>1 DEF IsEntered, IsNotEntered
      <4> QED  BY <4>1
    <3> QED  BY <1>1, <2>1, <3>1 DEF IsNotEntered
  <2>2. CASE IsEntered(n, callers, f)
    <3>1. f \in Frame /\ f.depth = Len(callers) /\ stack' = <<f>> \o callers
      BY <2>2 DEF IsEntered
    <3>2. Ladder(stack') /\ Len(stack') = L + 1
      BY <1>1, <3>1, LadderStep
    <3>3. Activation(stack', L) = f /\ \A d \in 0..(L-1) : Activation(stack', d) = Activation(callers, d)
      BY <1>1, <3>1, PushedOnto
    <3>4. ~IsNotEntered(n, callers)
      BY <1>0, <1>1, <3>2 DEF IsNotEntered
    <3> QED  BY <3>2, <3>3, <3>4
  <2> QED  BY <2>1, <2>2
<1>3. /\ nodes' \in Seq(Node) /\ Len(nodes') = Len(nodes) + 1 /\ nodes'[Len(nodes')] = n
      /\ \A i \in 1..Len(nodes) : nodes'[i] = nodes[i]
      /\ \A j, k \in 1..Len(nodes) : Child(nodes, j, k) => Child(nodes', j, k)
      /\ \A j \in 1..Len(nodes) : OnPath(nodes, stack, j) => OnPath(nodes', stack', j)
      /\ \A j \in 1..Len(nodes) : OnPath(nodes, stack, j) /\ nodes[j].depth = L - 1 => Child(nodes', j, Len(nodes'))
      /\ Len(stack') = L + 1 => OnPath(nodes', stack', Len(nodes'))
  <2>1. Joins(nodes, stack, n, stack')
    BY <1>0, <1>1, <1>2 DEF Joins
  <2>2. Joined(nodes, stack, n, stack', nodes')
    BY <1>1, <2>1, NodeJoins
  <2> QED  BY <2>2 DEF Joined
<1>4. \A i \in 1..Len(nodes') : i \in 1..Len(nodes) \/ i = Len(nodes')
  BY <1>0, <1>3
<1>5. Len(nodes') \in 1..Len(nodes') /\ \A i \in 1..Len(nodes) : i \in 1..Len(nodes') /\ i # Len(nodes')
  BY <1>0, <1>3
<1>6. \A i \in 1..Len(nodes) : nodes[i].depth \in Nat
  <2>1. \A i \in 1..Len(nodes) : nodes[i] \in Node
    BY <1>0, ElementOfSeq
  <2> QED  BY <2>1 DEF Node
<1>7. WellRead(nodes)'
  <2>1. \A o : StatusOf(o)' = StatusOf(o)
    BY DEF StatusOf, server
  <2>2. \A k \in 1..Len(nodes) : nodes'[k].ready = StatusOf(nodes'[k].obj)
    BY <1>3 DEF Sound, WellRead
  <2>3. \A k \in 1..Len(nodes') : nodes'[k].ready = StatusOf(nodes'[k].obj)
    BY <1>1, <1>3, <1>4, <2>2
  <2> QED  BY <2>1, <2>3 DEF WellRead
<1>8. ASSUME L # 0
      PROVE  \E j \in 1..Len(nodes) : /\ OnPath(nodes, stack, j) /\ nodes[j].depth = L - 1
                                      /\ nodes[j].obj \in alive /\ n.obj \in refs[nodes[j].obj]
  <2>1. L - 1 \in 0..(L-1) /\ n.obj \in Activation(stack, L - 1).todo
    BY <1>0, <1>8 DEF Comes, Hands
  <2> QED  BY <2>1 DEF Sound, Backed, HasNode
<1>9. Rooted(nodes)'
  <2>1. ASSUME NEW k \in 1..Len(nodes), k # 1
        PROVE  \E j \in 1..Len(nodes') : Child(nodes', j, k) /\ nodes'[j].obj \in alive' /\ nodes'[k].obj \in refs'[nodes'[j].obj]
    BY <1>0, <1>3, <1>5, <2>1 DEF Sound, Rooted
  <2>2. ASSUME Len(nodes') # 1
        PROVE  \E j \in 1..Len(nodes') : Child(nodes', j, Len(nodes')) /\ nodes'[j].obj \in alive'
                                          /\ nodes'[Len(nodes')].obj \in refs'[nodes'[j].obj]
    <3>1. L # 0
      BY <1>0, <1>3, <2>2 DEF Comes, Hands
    <3> QED  BY <1>0, <1>3, <1>5, <1>8, <3>1
  <2>3. ASSUME 1 \in 1..Len(nodes')  PROVE nodes'[1].obj = Root /\ nodes'[1].depth = 0
    <3>1. CASE 1 \in 1..Len(nodes)
      BY <1>3, <3>1 DEF Sound, Rooted
    <3>2. CASE 1 \notin 1..Len(nodes)
      <4>1. Len(nodes) = 0
        BY <1>0, <3>2
      <4> QED  BY <1>0, <1>3, <4>1 DEF Comes, Hands
    <3> QED  BY <3>1, <3>2
  <2> QED  BY <1>4, <2>1, <2>2, <2>3 DEF Rooted
<1>10. GoneBelow(nodes, stack)'
  <2>1. ASSUME NEW j \in 1..Len(nodes), NEW p, Handled(nodes, stack, j, p)
        PROVE  Handled(nodes', stack', j, p)
    <3>1. CASE \E k \in 1..Len(nodes) : Child(nodes, j, k) /\ nodes[k].obj = p
      BY <1>3, <1>5, <3>1 DEF Handled
    <3>2. CASE OnPath(nodes, stack, j) /\ p \in Activation(stack, nodes[j].depth).todo
      <4>1. OnPath(nodes', stack', j) /\ nodes[j].depth < L /\ nodes'[j] = nodes[j]
        BY <1>3, <3>2 DEF OnPath
      <4>2. CASE nodes[j].depth < L - 1
        <5>1. nodes[j].depth \in 0..(L-2) /\ nodes[j].depth \in 0..(L-1)
          BY <1>0, <1>6, <4>2
        <5>2. Activation(stack', nodes[j].depth) = Activation(stack, nodes[j].depth)
          BY <1>2, <5>1 DEF Comes, Hands
        <5> QED  BY <3>2, <4>1, <5>2 DEF Handled
      <4>3. CASE nodes[j].depth = L - 1
        <5>1. L - 1 \in 0..(L-1) /\ stack # <<>>
          BY <1>0, <1>6, <4>3
        <5>2. Activation(stack', L - 1).todo = Activation(stack, L - 1).todo \ {n.obj}
          BY <1>2, <5>1 DEF Comes, Hands
        <5>3. CASE p = n.obj
          BY <1>3, <1>5, <3>2, <4>3, <5>3 DEF Handled
        <5> QED  BY <3>2, <4>1, <4>3, <5>2, <5>3 DEF Handled
      <4> QED  BY <1>0, <1>6, <4>1, <4>2, <4>3
    <3> QED  BY <2>1, <3>1, <3>2 DEF Handled
  <2>2. ASSUME NEW j \in 1..Len(nodes), nodes'[j].obj \in alive', nodes'[j].depth < MaxTreeDepth, First(nodes', j),
               NEW p \in refs'[nodes'[j].obj]
        PROVE  Handled(nodes', stack', j, p)
    <3>1. nodes'[j] = nodes[j] /\ First(nodes, j)
      BY <1>3, <1>5, <2>2 DEF First
    <3> QED  BY <1>0, <2>1, <2>2, <3>1 DEF Sound, GoneBelow
  <2>3. ASSUME n.obj \in alive', n.depth < MaxTreeDepth, First(nodes', Len(nodes')), NEW p \in refs'[n.obj]
        PROVE  Handled(nodes', stack', Len(nodes'), p)
    <3>1. n.obj \notin seen
      <4>1. \A k \in 1..Len(nodes) : nodes[k].obj # n.obj
        <5>1. \A k \in 1..Len(nodes) : k < Len(nodes')
          BY <1>0, <1>3
        <5> QED  BY <1>3, <1>5, <2>3, <5>1 DEF First
      <4> QED  BY <4>1 DEF Sound, Noted
    <3>2. ~(n.depth >= MaxTreeDepth)
      BY <1>0, <1>1, <2>3, BoundsAssumption
    <3>3. IsEntered(n, callers, f)
      BY <1>0, <2>3, <3>1, <3>2 DEF IsNotEntered
    <3> QED  BY <1>0, <1>1, <1>2, <1>3, <2>3, <3>3 DEF Handled, IsEntered
  <2> QED  BY <1>3, <1>4, <2>2, <2>3 DEF GoneBelow
<1>11. Backed(nodes, stack)'
  <2>1. ASSUME NEW d \in 0..(L-1)  PROVE HasNode(nodes, stack, d)'
    <3>1. PICK j \in 1..Len(nodes) : /\ OnPath(nodes, stack, j) /\ nodes[j].depth = d /\ nodes[j].obj \in alive
                                     /\ Activation(stack, d).todo \subseteq refs[nodes[j].obj]
      BY <2>1 DEF Sound, Backed, HasNode
    <3>2. Activation(stack', d).todo \subseteq Activation(stack, d).todo
      <4>1. CASE d = L - 1
        <5>1. stack # <<>>
          BY <1>0
        <5> QED  BY <1>2, <4>1, <5>1 DEF Comes, Hands
      <4>2. CASE d # L - 1
        <5>1. d \in 0..(L-2)
          BY <1>0, <4>2
        <5> QED  BY <1>2, <5>1 DEF Comes, Hands
      <4> QED  BY <4>1, <4>2
    <3> QED  BY <1>0, <1>3, <1>5, <3>1, <3>2 DEF HasNode
  <2>2. ASSUME NEW d, d = L, Len(stack') = L + 1  PROVE HasNode(nodes, stack, d)'
    <3>1. IsEntered(n, callers, f)
      BY <1>0, <1>2, <2>2
    <3> QED  BY <1>0, <1>1, <1>2, <1>3, <1>5, <2>2, <3>1 DEF HasNode, IsEntered
  <2>3. \A d \in 0..(Len(stack')-1) : d \in 0..(L-1) \/ (d = L /\ Len(stack') = L + 1)
    BY <1>0, <1>2
  <2> QED  BY <2>1, <2>2, <2>3 DEF Backed
<1>12. Noted(nodes)'
  <2>1. seen' \subseteq seen \cup {n.obj}
    BY DEF IsEntered, IsNotEntered
  <2>2. \A o \in seen : \E k \in 1..Len(nodes') : nodes'[k].obj = o
    BY <1>3, <1>5 DEF Sound, Noted
  <2>3. \A o \in seen' : \E k \in 1..Len(nodes') : nodes'[k].obj = o
    BY <1>3, <1>5, <2>1, <2>2
  <2> QED  BY <2>3 DEF Noted
<1> QED  BY <1>7, <1>9, <1>10, <1>11, <1>12 DEF Sound

\* treeNode for an object that was read.
LEMMA VisitKeepsSound ==
  ASSUME TreeInv, Sound, UNCHANGED server, NEW o \in Objects, o \in alive, NEW callers,
         Hands(o, callers), Visit(o, Len(stack), callers)
  PROVE  Sound'
<1> DEFINE n == [obj |-> o, depth |-> Len(stack), ready |-> ready[o], found |-> TRUE]
           f == [depth |-> Len(stack), todo |-> refs[o]]
<1>1. Len(stack) \in Nat /\ ready[o] \in Statuses /\ refs[o] \in SUBSET Objects
  BY LenProperties DEF TreeInv, TreeTyped, Ladder
<1>2. n \in Node /\ n.depth = Len(stack) /\ n.obj = o /\ n.ready = StatusOf(o)
  BY <1>1 DEF Node, StatusOf
<1>3. f \in Frame /\ f.depth = Len(callers) /\ f.todo = refs[n.obj]
  BY <1>1, <1>2 DEF Frame, Hands
<1>4. nodes' = Append(nodes, n)
  BY DEF Visit
<1>5. IF Cut(o, Len(stack)) THEN stack' = callers /\ seen' = seen
      ELSE stack' = <<f>> \o callers /\ seen' = seen \cup {o}
  BY DEF Visit
<1> HIDE DEF n, f
<1>6. Comes(n, callers)
  BY <1>2, <1>4 DEF Comes
<1>7. CASE Cut(o, Len(stack))
  <2>1. IsNotEntered(n, callers)
    BY <1>2, <1>5, <1>7 DEF Cut, IsNotEntered
  <2> QED  BY <1>6, <2>1, NodeKeepsSound
<1>8. CASE ~Cut(o, Len(stack))
  <2>1. IsEntered(n, callers, f)
    BY <1>2, <1>3, <1>5, <1>8 DEF IsEntered
  <2> QED  BY <1>6, <2>1, NodeKeepsSound
<1> QED  BY <1>7, <1>8

LEMMA PoppedHands == ASSUME TreeInv, Following  PROVE Hands(Next1, Popped)
<1>1. Ladder(stack) /\ stack # <<>> /\ Head(stack).todo # {} /\ nodes # <<>>
  BY DEF TreeInv, TreeTyped, Following
<1>2. /\ Head(stack) \in Frame /\ Head(stack).depth = Len(stack) - 1
      /\ Ladder(Tail(stack)) /\ Len(Tail(stack)) = Len(stack) - 1 /\ Len(stack) \in Nat \ {0}
  BY <1>1, LadderTop
<1>3. Activation(stack, Len(stack) - 1) = Head(stack)
      /\ \A d \in 0..(Len(stack)-2) : Activation(Tail(stack), d) = Activation(stack, d)
  BY <1>1, TakenOff
<1>4. Next1 \in Head(stack).todo
  <2>1. Head(stack).todo \subseteq Nat
    BY <1>2, ObjectsAssumption DEF Frame
  <2> QED  BY <1>1, <2>1, LeastIsIn DEF Next1
<1> DEFINE f == [Head(stack) EXCEPT !.todo = @ \ {Next1}]
<1>5. f \in Frame /\ f.depth = Len(Tail(stack)) /\ f.todo = Head(stack).todo \ {Next1}
  BY <1>2 DEF Frame
<1>6. Popped = <<f>> \o Tail(stack)
  BY DEF Popped
<1> HIDE DEF f
<1>7. Activation(Popped, Len(stack) - 1) = f
      /\ \A d \in 0..(Len(stack)-2) : Activation(Popped, d) = Activation(stack, d)
  <2>1. Activation(Popped, Len(Tail(stack))) = f
        /\ \A d \in 0..(Len(Tail(stack))-1) : Activation(Popped, d) = Activation(Tail(stack), d)
    BY <1>2, <1>5, <1>6, PushedOnto
  <2>2. Len(Tail(stack)) - 1 = Len(stack) - 2
    BY <1>2
  <2> QED  BY <1>2, <1>3, <2>1, <2>2
<1>8. Ladder(Popped) /\ Len(Popped) = Len(stack)
  BY PoppedIsLadder
<1> QED  BY <1>1, <1>3, <1>4, <1>5, <1>7, <1>8 DEF Hands

\* What is handed back with nothing left to do takes nothing with it.
LEMMA ReturnKeepsSound == ASSUME TreeInv, Sound, ReturnNode  PROVE Sound'
<1>1. Ladder(stack) /\ stack # <<>> /\ Head(stack).todo = {} /\ stack' = Tail(stack)
      /\ UNCHANGED <<alive, refs, ready, nodes, seen>>
  BY DEF TreeInv, TreeTyped, ReturnNode, server
<1>2. Len(stack) \in Nat \ {0} /\ Len(stack') = Len(stack) - 1
  BY <1>1, LadderTop
<1>3. Activation(stack, Len(stack) - 1) = Head(stack)
      /\ \A d \in 0..(Len(stack)-2) : Activation(stack', d) = Activation(stack, d)
  BY <1>1, TakenOff
<1>4. \A i \in 1..Len(nodes) : nodes[i].depth \in Nat
  <2>1. \A i \in 1..Len(nodes) : nodes[i] \in Node
    BY ElementOfSeq DEF TreeInv, TreeTyped
  <2> QED  BY <2>1 DEF Node
<1>5. \A j \in 1..Len(nodes) :
        OnPath(nodes, stack, j) => \/ nodes[j].depth = Len(stack) - 1
                                   \/ nodes[j].depth \in 0..(Len(stack)-2) /\ OnPath(nodes, stack', j)
  BY <1>2, <1>4 DEF OnPath
<1>6. GoneBelow(nodes, stack)'
  <2>1. ASSUME NEW j \in 1..Len(nodes), NEW p, Handled(nodes, stack, j, p)  PROVE Handled(nodes, stack', j, p)
    BY <1>1, <1>3, <1>5, <2>1 DEF Handled
  <2> QED  BY <1>1, <2>1 DEF Sound, GoneBelow, First
<1>7. Backed(nodes, stack)'
  <2>1. ASSUME NEW d \in 0..(Len(stack')-1)  PROVE HasNode(nodes, stack, d)'
    <3>1. d \in 0..(Len(stack)-2) /\ d \in 0..(Len(stack)-1) /\ d # Len(stack) - 1
      BY <1>2
    <3>2. PICK j \in 1..Len(nodes) : /\ OnPath(nodes, stack, j) /\ nodes[j].depth = d /\ nodes[j].obj \in alive
                                     /\ Activation(stack, d).todo \subseteq refs[nodes[j].obj]
      BY <3>1 DEF Sound, Backed, HasNode
    <3> QED  BY <1>1, <1>3, <1>5, <3>1, <3>2 DEF HasNode
  <2> QED  BY <2>1 DEF Backed
<1>8. WellRead(nodes)' /\ Rooted(nodes)' /\ Noted(nodes)'
  BY <1>1 DEF Sound, WellRead, Rooted, Noted, StatusOf
<1> QED  BY <1>6, <1>7, <1>8 DEF Sound

LEMMA FollowReferenceKeepsSound == ASSUME TreeInv, Sound, FollowReference  PROVE Sound'
<1>1. Following /\ UNCHANGED server /\ Next1 \in alive
  BY DEF FollowReference
<1>2. Next1 \in Objects /\ Head(stack).depth + 1 = Len(stack) /\ Hands(Next1, Popped)
  BY <1>1, PoppedIsLadder, PoppedHands
<1>3. Visit(Next1, Len(stack), Popped)
  BY <1>2 DEF FollowReference
<1> QED  BY <1>1, <1>2, <1>3, VisitKeepsSound

\* A child that could not be read was not there, if nothing else went wrong.
LEMMA ReferenceFailsKeepsSound ==
  ASSUME TreeInv, Sound, ReferenceFails, Next1 \notin alive  PROVE Sound'
<1>1. Following /\ UNCHANGED server /\ stack' = Popped /\ seen' = seen
  BY DEF ReferenceFails
<1>2. Next1 \in Objects /\ Head(stack).depth + 1 = Len(stack) /\ Hands(Next1, Popped)
  BY <1>1, PoppedIsLadder, PoppedHands
<1> DEFINE n == [obj |-> Next1, depth |-> Head(stack).depth + 1, ready |-> Absent, found |-> FALSE]
<1>3. Len(stack) \in Nat
  BY LenProperties DEF TreeInv, TreeTyped, Ladder
<1>4. n \in Node /\ n.depth = Len(stack) /\ n.obj = Next1 /\ n.ready = StatusOf(Next1)
  BY <1>2, <1>3, StatusesAssumption DEF Node, StatusOf
<1>5. nodes' = Append(nodes, n)
  BY DEF ReferenceFails
<1> HIDE DEF n
<1>6. Comes(n, Popped) /\ IsNotEntered(n, Popped)
  BY <1>1, <1>2, <1>4, <1>5 DEF Comes, IsNotEntered
<1> QED  BY <1>1, <1>6, NodeKeepsSound

LEMMA ReadRootKeepsSound == ASSUME TreeInv, Sound, ReadRoot  PROVE Sound'
<1>1. nodes = <<>> /\ stack = <<>> /\ Root \in alive /\ UNCHANGED server /\ Root \in Objects
  BY ObjectsAssumption DEF ReadRoot, TreeInv
<1>2. Visit(Root, Len(stack), <<>>)
  BY <1>1 DEF ReadRoot
<1>3. Hands(Root, <<>>)
  BY <1>1 DEF Hands, Ladder
<1> QED  BY <1>1, <1>2, <1>3, VisitKeepsSound

LEMMA StillSound ==
  ASSUME Sound, UNCHANGED <<alive, refs, ready, nodes, stack, seen>>  PROVE Sound'
<1>1. WellRead(nodes)' /\ Rooted(nodes)' /\ Noted(nodes)'
  BY DEF Sound, WellRead, StatusOf, Rooted, Noted
<1>2. GoneBelow(nodes, stack)'
  BY DEF Sound, GoneBelow, Handled
<1>3. Backed(nodes, stack)'
  BY DEF Sound, Backed, HasNode
<1> QED  BY <1>1, <1>2, <1>3 DEF Sound

LEMMA WalkBegins == TreeInit => WalkInv
<1> SUFFICES ASSUME TreeInit  PROVE WalkInv
  OBVIOUS
<1>1. TreeInv /\ nodes = <<>> /\ stack = <<>> /\ seen = {} /\ stage = "start" /\ mishaps = 0
  BY Begins DEF TreeInit
<1>2. Len(nodes) = 0 /\ Len(stack) = 0
  BY <1>1
<1>3. Sound
  BY <1>1, <1>2 DEF Sound, WellRead, Rooted, GoneBelow, Backed, Noted
<1> QED  BY <1>1, <1>3 DEF WalkInv, Early

LEMMA WalkGoesOn == WalkInv /\ (TreeNext \/ Resting) => WalkInv'
<1> SUFFICES ASSUME WalkInv, TreeNext \/ Resting  PROVE WalkInv'
  OBVIOUS
<1>0. TreeInv /\ TreeInv' /\ mishaps \in Nat
  BY TreeGoesOn DEF WalkInv
<1>1. CASE ReadRoot
  <2>1. mishaps' = mishaps /\ stage' = "walking"
    BY <1>1 DEF ReadRoot
  <2> QED  BY <1>0, <1>1, <2>1, ReadRootKeepsSound DEF WalkInv, Early
<1>2. CASE ReadRootFails
  <2>1. mishaps' = mishaps /\ stage' = "failed" /\ UNCHANGED <<alive, refs, ready, nodes, stack, seen>>
        /\ nodes = <<>> /\ stack = <<>>
    BY <1>0, <1>2 DEF ReadRootFails, TreeInv, server
  <2>2. Sound => Sound'
    BY <2>1, StillSound
  <2> QED  BY <1>0, <2>1, <2>2 DEF WalkInv, Early
<1>3. CASE FollowReference
  <2>1. mishaps' = mishaps /\ stage' = "walking"
    BY <1>3 DEF FollowReference, Following
  <2> QED  BY <1>0, <1>3, <2>1, FollowReferenceKeepsSound DEF WalkInv, Early
<1>4. CASE ReferenceFails
  <2>1. stage' = "walking" /\ (mishaps' = mishaps + 1 \/ (mishaps' = mishaps /\ Next1 \notin alive))
    BY <1>4 DEF ReferenceFails, Following
  <2> QED  BY <1>0, <1>4, <2>1, ReferenceFailsKeepsSound DEF WalkInv, Early
<1>5. CASE ReturnNode
  <2>1. mishaps' = mishaps /\ (stage' = "walking" \/ (stage' = "walked" /\ stack' = <<>>))
        /\ stack # <<>> /\ nodes' = nodes
    BY <1>5 DEF ReturnNode
  <2>2. nodes # <<>>
    BY <1>0, <2>1 DEF TreeInv
  <2> QED  BY <1>0, <1>5, <2>1, <2>2, ReturnKeepsSound DEF WalkInv, Early
<1>6. CASE ServerChanges
  <2>1. mishaps' = mishaps + 1 /\ UNCHANGED <<stage, nodes, stack>>
    BY <1>6 DEF ServerChanges, walk
  <2> QED  BY <1>0, <2>1 DEF WalkInv, Early
<1>7. CASE Resting
  <2>1. UNCHANGED <<alive, refs, ready, nodes, stack, seen>>
    BY <1>7 DEF Resting, server
  <2>2. Sound => Sound'
    BY <2>1, StillSound
  <2> QED  BY <1>0, <1>7, <2>1, <2>2 DEF WalkInv, Resting, Early
<1> QED  BY <1>1, <1>2, <1>3, <1>4, <1>5, <1>6, <1>7 DEF TreeNext, Walk
------------------------------------------------------------------------------
(***************************************************************************)
(* What is below an object, and what is below a node.                      *)
(***************************************************************************)
LEMMA ReachesItself == ASSUME NEW o \in Objects  PROVE o \in Reachable(o)
  BY DEF Reachable

LEMMA ReachesOn ==
  ASSUME NEW o \in Objects, NEW p \in Reachable(o), p \in alive, NEW q \in refs[p], q \in Objects
  PROVE  q \in Reachable(o)
  BY DEF Reachable, Closed

\* Whatever is closed and holds o holds what is below o.
LEMMA ReachesNoFurther ==
  ASSUME NEW o \in Objects, NEW S \in SUBSET Objects, o \in S, Closed(S)
  PROVE  Reachable(o) \subseteq S
  BY DEF Reachable

LEMMA NodesAreObjects ==
  ASSUME TreeInv
  PROVE  /\ Len(nodes) \in Nat /\ DOMAIN nodes = 1..Len(nodes)
         /\ \A i \in 1..Len(nodes) : nodes[i].obj \in Objects /\ nodes[i].depth \in Nat
<1>1. nodes \in Seq(Node)
  BY DEF TreeInv, TreeTyped
<1>2. \A i \in 1..Len(nodes) : nodes[i] \in Node
  BY <1>1, ElementOfSeq
<1> QED  BY <1>1, <1>2, LenProperties DEF Node

InSubtree(i, k) == k = i \/ Below(i, k)

\* What hangs in a tree that is true is below its root in the graph.
LEMMA SubtreeIsReachable ==
  ASSUME TreeInv, Rooted(nodes), NEW i \in 1..Len(nodes), NEW k \in 1..Len(nodes), InSubtree(i, k)
  PROVE  nodes[k].obj \in Reachable(nodes[i].obj)
<1> DEFINE T == {l \in 1..Len(nodes) : InSubtree(i, l) /\ nodes[l].obj \notin Reachable(nodes[i].obj)}
<1>0. Len(nodes) \in Nat /\ \A l \in 1..Len(nodes) : nodes[l].obj \in Objects /\ nodes[l].depth \in Nat
  BY NodesAreObjects
<1>1. SUFFICES ASSUME T # {}  PROVE FALSE
  OBVIOUS
<1>2. T \subseteq Nat
  BY <1>0
<1>3. Least(T) \in T /\ \A l \in T : Least(T) <= l
  BY <1>1, <1>2, LeastIsIn
<1>4. PICK l \in 1..Len(nodes) : /\ InSubtree(i, l) /\ nodes[l].obj \notin Reachable(nodes[i].obj)
                                 /\ \A m \in T : l <= m
  BY <1>3
<1>5. l # i /\ Below(i, l)
  <2>1. l # i
    BY <1>0, <1>4, ReachesItself
  <2> QED  BY <1>4, <2>1 DEF InSubtree
<1>6. i < l /\ \A m \in 1..Len(nodes) : i < m /\ m <= l => nodes[m].depth > nodes[i].depth
  BY <1>0, <1>5 DEF Below
<1>7. PICK j \in 1..Len(nodes) : Child(nodes, j, l) /\ nodes[j].obj \in alive /\ nodes[l].obj \in refs[nodes[j].obj]
  <2>1. l # 1
    BY <1>0, <1>6
  <2> QED  BY <2>1 DEF Rooted
<1>8. j < l /\ nodes[l].depth = nodes[j].depth + 1
      /\ \A m \in 1..Len(nodes) : j < m /\ m <= l => nodes[m].depth > nodes[j].depth
  BY <1>7 DEF Child
<1>9. i <= j
  <2>1. ASSUME j < i  PROVE FALSE
    <3>1. nodes[i].depth > nodes[j].depth /\ nodes[l].depth > nodes[i].depth
      BY <1>0, <1>6, <1>8, <2>1
    <3> QED  BY <1>0, <1>8, <3>1
  <2> QED  BY <1>0, <2>1
<1>10. InSubtree(i, j)
  <2>1. ASSUME j # i  PROVE Below(i, j)
    <3>1. i < j
      BY <1>0, <1>9, <2>1
    <3>2. \A m \in (i+1)..j : m \in 1..Len(nodes) /\ i < m /\ m <= l
      BY <1>0, <1>8
    <3> QED  BY <1>6, <3>1, <3>2 DEF Below
  <2> QED  BY <2>1 DEF InSubtree
<1>11. nodes[j].obj \in Reachable(nodes[i].obj)
  <2>1. j \notin T
    BY <1>0, <1>4, <1>8
  <2> QED  BY <1>10, <2>1
<1> QED  BY <1>0, <1>4, <1>7, <1>11, ReachesOn

\* Everything hangs below the first node.
LEMMA AllBelowRoot ==
  ASSUME TreeInv, Rooted(nodes), NEW k \in 1..Len(nodes)
  PROVE  InSubtree(1, k) /\ nodes[1].obj = Root
<1>0. Len(nodes) \in Nat /\ 1 \in 1..Len(nodes) /\ \A l \in 1..Len(nodes) : nodes[l].depth \in Nat
  BY NodesAreObjects
<1>1. nodes[1].obj = Root /\ nodes[1].depth = 0
  BY <1>0 DEF Rooted
<1>2. ASSUME NEW l \in 1..Len(nodes), l # 1  PROVE nodes[l].depth > 0
  BY <1>0, <1>2 DEF Rooted, Child
<1>3. \A l \in 2..k : l \in 1..Len(nodes) /\ l # 1
  BY <1>0
<1>4. k # 1 => Below(1, k)
  BY <1>0, <1>1, <1>2, <1>3 DEF Below
<1> QED  BY <1>1, <1>4 DEF InSubtree

\* Of the nodes of an object, the first one.
LEMMA FirstOfThem ==
  ASSUME TreeInv, NEW i \in 1..Len(nodes)
  PROVE  \E j \in 1..Len(nodes) : nodes[j].obj = nodes[i].obj /\ First(nodes, j)
<1> DEFINE T == {j \in 1..Len(nodes) : nodes[j].obj = nodes[i].obj}
<1>0. Len(nodes) \in Nat
  BY NodesAreObjects
<1>1. T \subseteq Nat /\ T # {}
  BY <1>0
<1>2. Least(T) \in T /\ \A l \in T : Least(T) <= l
  BY <1>1, LeastIsIn
<1>3. PICK j \in T : \A l \in T : j <= l
  BY <1>2
<1>4. First(nodes, j)
  <2>1. ASSUME NEW l \in 1..Len(nodes), l < j, nodes[l].obj = nodes[j].obj  PROVE FALSE
    <3>1. l \in T
      BY <2>1
    <3> QED  BY <1>0, <1>3, <2>1, <3>1
  <2> QED  BY <2>1 DEF First
<1> QED  BY <1>3, <1>4

\* The tree of a walk nobody disturbed and no limit cut.
LEMMA WalkIsComplete ==
  ASSUME WalkInv, stage \notin Early, mishaps = 0, CutAbove
  PROVE  InTree = Reachable(Root)
<1>0. /\ TreeInv /\ Sound /\ stack = <<>> /\ nodes # <<>>
      /\ Len(nodes) \in Nat \ {0} /\ DOMAIN nodes = 1..Len(nodes)
      /\ \A i \in 1..Len(nodes) : nodes[i].obj \in Objects /\ nodes[i].depth \in Nat
  BY NodesAreObjects, EmptySeq DEF WalkInv, TreeInv, TreeTyped
<1>1. InTree \subseteq Reachable(Root)
  <2>1. \A k \in 1..Len(nodes) : nodes[k].obj \in Reachable(Root)
    <3>1. 1 \in 1..Len(nodes)
      BY <1>0
    <3> QED  BY <1>0, <3>1, AllBelowRoot, SubtreeIsReachable DEF Sound
  <2> QED  BY <1>0, <2>1 DEF InTree
<1>2. InTree \in SUBSET Objects /\ Root \in InTree
  <2>1. 1 \in 1..Len(nodes)
    BY <1>0
  <2>2. nodes[1].obj = Root
    BY <1>0, <2>1, AllBelowRoot DEF Sound
  <2> QED  BY <1>0, <2>1, <2>2 DEF InTree
<1>3. Closed(InTree)
  <2> SUFFICES ASSUME NEW o \in InTree, o \in alive, NEW p \in refs[o]  PROVE p \in InTree
    BY DEF Closed
  <2>1. PICK i \in 1..Len(nodes) : nodes[i].obj = o
    BY <1>0 DEF InTree
  <2>2. PICK j \in 1..Len(nodes) : nodes[j].obj = o /\ First(nodes, j)
    BY <1>0, <2>1, FirstOfThem
  <2>3. nodes[j].depth < MaxTreeDepth
    BY <1>0 DEF CutAbove
  <2>4. Handled(nodes, stack, j, p)
    BY <1>0, <2>2, <2>3 DEF Sound, GoneBelow
  <2>5. ~OnPath(nodes, stack, j)
    <3>1. Len(stack) = 0
      BY <1>0
    <3> QED  BY <1>0, <3>1 DEF OnPath
  <2> QED  BY <1>0, <2>4, <2>5 DEF Handled, InTree
<1>4. Root \in Objects
  BY ObjectsAssumption
<1> QED  BY <1>1, <1>2, <1>3, <1>4, ReachesNoFurther

\* The tree of crossplane_diagnose, and of any tool that starts with it, is
\* what is below its root, for any references, in circles too, as long as
\* nothing changed and the depth was enough (tree.go:56-86).
THEOREM WalkFindsAll == Spec => []TreeIsComplete
<1>1. Init => WalkInv
  BY WalkBegins DEF Init
<1>2. WalkInv /\ [Next]_vars => WalkInv'
  BY WalkGoesOn, DiagnosisWalks
<1>3. WalkInv => TreeIsComplete
  <2>1. stage = "walked" => stage \notin Early
    BY DEF Early
  <2> QED  BY <2>1, WalkIsComplete DEF TreeIsComplete
<1> QED  BY <1>1, <1>2, <1>3, PTL DEF Spec
------------------------------------------------------------------------------
\* A call that investigates has a cause, or one yet to be read again.
BlameInv ==
  /\ TreeInv
  /\ stage \in {"start", "failed"} \/ nodes # <<>>
  /\ \E S : causes \in Seq(S)
  /\ stage = "investigating" => suspects # <<>> \/ causes # <<>>
  /\ verdict.blames # "itself"

\* The last failure of a tree is below no other and has none below it.
LEMMA SomethingIsDeepest ==
  ASSUME TreeInv, nodes # <<>>, Unready(1)
  PROVE  DeepestUnready # {} /\ IsFiniteSet(DeepestUnready)
<1>1. DOMAIN nodes = 1..Len(nodes) /\ Len(nodes) \in Nat \ {0}
  BY LenProperties, EmptySeq DEF TreeInv, TreeTyped
<1> DEFINE T == {Len(nodes) - i : i \in {j \in 1..Len(nodes) : Unready(j)}}
<1>2. T \subseteq Nat
  BY <1>1
<1>3. T # {}
  <2>1. 1 \in {j \in 1..Len(nodes) : Unready(j)}
    BY <1>1
  <2> QED  BY <2>1
<1>4. Least(T) \in T /\ \A y \in T : Least(T) <= y
  BY <1>2, <1>3, LeastIsIn
<1>5. PICK i \in 1..Len(nodes) : Unready(i) /\ Least(T) = Len(nodes) - i
  BY <1>4
<1>6. \A j \in 1..Len(nodes) : j > i => ~Unready(j)
  <2> SUFFICES ASSUME NEW j \in 1..Len(nodes), j > i, Unready(j)  PROVE FALSE
    OBVIOUS
  <2>1. Len(nodes) - j \in T
    OBVIOUS
  <2>2. Len(nodes) - i <= Len(nodes) - j
    BY <1>4, <1>5, <2>1
  <2> QED  BY <1>1, <2>2
<1>7. i \in DeepestUnready
  BY <1>1, <1>5, <1>6 DEF DeepestUnready, Below
<1>8. DeepestUnready \in SUBSET (1..Len(nodes))
  BY <1>1 DEF DeepestUnready
<1>9. IsFiniteSet(1..Len(nodes))
  BY <1>1, FS_Interval
<1> QED  BY <1>7, <1>8, <1>9, FS_Subset

LEMMA InOrderIsNotEmpty ==
  ASSUME NEW S, IsFiniteSet(S), S # {}, NEW n \in Nat \ {0}
  PROVE  InOrder(S, n) # <<>>
<1>1. Cardinality(S) \in Nat /\ Cardinality(S) # 0
  BY FS_CardinalityType, FS_EmptySet
<1> DEFINE m == IF Cardinality(S) < n THEN Cardinality(S) ELSE n
<1>2. 1 \in 1..m
  BY <1>1
<1>3. DOMAIN InOrder(S, n) = 1..m
  BY DEF InOrder
<1>4. DOMAIN <<>> = {}
  OBVIOUS
<1> QED  BY <1>2, <1>3, <1>4

LEMMA BlameGoesOn == BlameInv /\ [Next]_vars => BlameInv'
<1> SUFFICES ASSUME BlameInv, [Next]_vars  PROVE BlameInv'
  OBVIOUS
<1>1. TreeInv'
  BY GoesOn DEF BlameInv
<1>2. CASE Walk /\ UNCHANGED <<suspects, causes, verdict>>
  <2>1. nodes \in Seq(Node)
    BY DEF BlameInv, TreeInv, TreeTyped
  <2>2. stage' # "investigating"
    BY <1>2 DEF Walk, ReadRoot, ReadRootFails, FollowReference, ReferenceFails, ReturnNode, Following
  <2>3. stage' \in {"start", "failed"} \/ nodes' # <<>>
    BY <1>2, <2>1 DEF BlameInv, Walk, ReadRoot, ReadRootFails, FollowReference, ReferenceFails, ReturnNode,
       Following, Visit
  <2> QED  BY <1>1, <1>2, <2>2, <2>3 DEF BlameInv
<1>3. CASE ServerChanges /\ UNCHANGED <<suspects, causes, verdict>>
  BY <1>1, <1>3 DEF BlameInv, ServerChanges, walk
<1>4. CASE AnswerReady
  BY <1>1, <1>4 DEF BlameInv, AnswerReady, NoVerdict
<1>5. CASE Investigate
  <2>1. nodes # <<>> /\ Unready(1) /\ TreeInv /\ UNCHANGED <<nodes, causes, verdict>>
    BY <1>5 DEF Investigate, BlameInv
  <2>2. suspects' # <<>>
    BY <1>5, <2>1, SomethingIsDeepest, InOrderIsNotEmpty, MaxRootCausesAssumption DEF Investigate
  <2> QED  BY <1>1, <2>1, <2>2 DEF BlameInv
<1>6. CASE ReRead
  <2>1. PICK r : causes' = Append(causes, r)
    BY <1>6 DEF ReRead
  <2>2. PICK S : causes \in Seq(S)
    BY DEF BlameInv
  <2>3. causes \in Seq(S \cup {r})
    BY <2>2, SeqMonotonic
  <2>4. causes' \in Seq(S \cup {r}) /\ causes' # <<>>
    BY <2>1, <2>3
  <2>5. UNCHANGED <<nodes, stage, verdict>>
    BY <1>6 DEF ReRead, walk
  <2> QED  BY <1>1, <2>4, <2>5 DEF BlameInv
<1>7. CASE Conclude
  <2>1. causes # <<>> /\ stage' = "answered" /\ UNCHANGED <<nodes, causes, suspects>>
    BY <1>7 DEF Conclude, BlameInv
  <2>2. verdict'.blames # "itself"
    BY <1>7, <2>1 DEF Conclude, NoVerdict
  <2>3. nodes # <<>>
    BY <1>7 DEF Conclude, BlameInv
  <2> QED  BY <1>1, <2>1, <2>2, <2>3 DEF BlameInv
<1>8. CASE UNCHANGED vars
  BY <1>1, <1>8 DEF BlameInv, vars, treeVars, walk
<1> QED  BY <1>2, <1>3, <1>4, <1>5, <1>6, <1>7, <1>8 DEF Next, TreeNext, Tool

\* A resource that is not Ready is always explained by a failure or a provider,
\* however large the tree and the number of causes kept (diagnose.go:98-114, 228-235).
THEOREM SomethingIsBlamed == Spec => []SomebodyIsBlamed
<1>1. Init => BlameInv
  BY Begins, EmptySeq DEF Init, TreeInit, BlameInv, NoVerdict
<1>2. BlameInv => SomebodyIsBlamed
  BY DEF BlameInv, SomebodyIsBlamed
<1> QED  BY <1>1, <1>2, BlameGoesOn, PTL DEF Spec
------------------------------------------------------------------------------
(***************************************************************************)
(* InOrder lists the smallest elements of a set, in their order.           *)
(***************************************************************************)
Smaller(S, x) == Cardinality({y \in S : y < x})

LEMMA SmallerIsMonotonic ==
  ASSUME NEW N \in Nat, NEW S \in SUBSET (1..N), NEW x \in S, NEW y \in S, x <= y
  PROVE  /\ Smaller(S, x) \in Nat /\ Smaller(S, y) \in Nat /\ Smaller(S, x) <= Smaller(S, y)
<1>1. IsFiniteSet(S)
  <2>1. IsFiniteSet(1..N)
    BY FS_Interval
  <2> QED  BY <2>1, FS_Subset
<1> DEFINE X == {z \in S : z < x}  Y == {z \in S : z < y}
<1>2. Y \in SUBSET S /\ X \in SUBSET S
  OBVIOUS
<1>2a. X \in SUBSET Y
  <2> SUFFICES ASSUME NEW z \in S, z < x  PROVE z < y
    OBVIOUS
  <2> QED  OBVIOUS
<1>3. IsFiniteSet(X) /\ IsFiniteSet(Y)
  BY <1>1, <1>2, FS_Subset
<1>4. Cardinality(X) <= Cardinality(Y)
  BY <1>2a, <1>3, FS_Subset
<1>5. Cardinality(X) \in Nat /\ Cardinality(Y) \in Nat
  BY <1>3, FS_CardinalityType
<1> QED  BY <1>4, <1>5 DEF Smaller

LEMMA SmallerIsNat ==
  ASSUME NEW N \in Nat, NEW S \in SUBSET (1..N), NEW x \in S  PROVE Smaller(S, x) \in Nat
<1>1. x <= x
  OBVIOUS
<1> QED  BY <1>1, SmallerIsMonotonic

\* A set of positions has a last one.
LEMMA LastOne ==
  ASSUME NEW N \in Nat, NEW S \in SUBSET (1..N), S # {}
  PROVE  \E x \in S : \A y \in S : y <= x
<1> DEFINE T == {N - i : i \in S}
<1>0. \A i \in S : i \in 1..N
  OBVIOUS
<1>1. T \subseteq Nat /\ T # {}
  <2>1. \A i \in S : N - i \in Nat
    BY <1>0
  <2> QED  BY <2>1
<1>2. Least(T) \in T /\ \A y \in T : Least(T) <= y
  BY <1>1, LeastIsIn
<1>3. PICK x \in S : Least(T) = N - x
  BY <1>2
<1>4. \A y \in S : N - x <= N - y
  BY <1>2, <1>3
<1> QED  BY <1>0, <1>4

\* The last element before x has one fewer before it.
LEMMA OneFewer ==
  ASSUME NEW N \in Nat, NEW S \in SUBSET (1..N), NEW x \in S, Smaller(S, x) # 0
  PROVE  \E y \in S : y < x /\ Smaller(S, x) = Smaller(S, y) + 1
<1> DEFINE X == {z \in S : z < x}
<1>1. X \in SUBSET (1..N)
  OBVIOUS
<1>2. X # {}
  BY FS_EmptySet DEF Smaller
<1>3. PICK y \in X : \A z \in X : z <= y
  BY <1>1, <1>2, LastOne
<1> DEFINE Y == {z \in S : z < y}
<1>4. X = Y \cup {y} /\ y \notin Y
  <2>0. \A z \in S : z \in Nat
    OBVIOUS
  <2>1. y \in S /\ y < x /\ \A z \in S : z < x => z <= y
    BY <1>3
  <2>2. \A z \in S : z < x <=> z < y \/ z = y
    BY <2>0, <2>1
  <2>3. \A z : z \in X <=> z \in Y \cup {y}
    BY <2>1, <2>2
  <2>4. y \notin Y
    <3>1. ~(y < y)
      BY <2>0, <2>1
    <3> QED  BY <3>1
  <2> HIDE DEF X, Y
  <2> QED  BY <2>3, <2>4
<1>5. IsFiniteSet(Y)
  <2>1. IsFiniteSet(1..N)
    BY FS_Interval
  <2>2. Y \in SUBSET (1..N)
    OBVIOUS
  <2> QED  BY <2>1, <2>2, FS_Subset
<1> HIDE DEF X, Y
<1>6. Cardinality(X) = Cardinality(Y) + 1
  BY <1>4, <1>5, FS_AddElement
<1> QED  BY <1>3, <1>6 DEF X, Y, Smaller

\* Every place of the order is taken.
LEMMA PlaceIsTaken ==
  ASSUME NEW N \in Nat, NEW S \in SUBSET (1..N), NEW k \in 1..Cardinality(S)
  PROVE  \E x \in S : Smaller(S, x) = k - 1
<1>1. IsFiniteSet(S) /\ Cardinality(S) \in Nat
  <2>1. IsFiniteSet(1..N)
    BY FS_Interval
  <2> QED  BY <2>1, FS_Subset, FS_CardinalityType
<1>2. S # {}
  BY <1>1, FS_EmptySet
<1>3. PICK last \in S : \A y \in S : y <= last
  BY <1>2, LastOne
<1>4. Smaller(S, last) = Cardinality(S) - 1
  <2> DEFINE X == {y \in S : y < last}
  <2>0. \A y \in S : y \in Nat
    OBVIOUS
  <2>1. S = X \cup {last} /\ last \notin X
    <3>1. \A y \in S : y < last \/ y = last
      BY <1>3, <2>0
    <3>2. \A y : y \in S <=> y \in X \cup {last}
      BY <3>1
    <3>3. last \notin X
      <4>1. ~(last < last)
        BY <2>0
      <4> QED  BY <4>1
    <3> HIDE DEF X
    <3> QED  BY <3>2, <3>3
  <2>2. X \in SUBSET S
    OBVIOUS
  <2>3. IsFiniteSet(X)
    BY <1>1, <2>2, FS_Subset
  <2> HIDE DEF X
  <2>4. Cardinality(S) = Cardinality(X) + 1 /\ Cardinality(X) \in Nat
    BY <2>1, <2>3, FS_AddElement, FS_CardinalityType
  <2> QED  BY <2>4 DEF X, Smaller
<1> DEFINE T == {x \in S : Smaller(S, x) >= k - 1}
<1>5. T \subseteq Nat /\ T # {}
  <2>1. last \in T
    BY <1>1, <1>4
  <2>2. \A y \in S : y \in Nat
    OBVIOUS
  <2> QED  BY <2>1, <2>2
<1>6. Least(T) \in T /\ \A y \in T : Least(T) <= y
  BY <1>5, LeastIsIn
<1>7. PICK x \in S : x = Least(T) /\ Smaller(S, x) >= k - 1
  BY <1>6
<1>8. Smaller(S, x) \in Nat
  BY SmallerIsNat
<1>9. ASSUME Smaller(S, x) # k - 1  PROVE FALSE
  <2>1. Smaller(S, x) # 0
    BY <1>7, <1>8, <1>9
  <2>2. PICK y \in S : y < x /\ Smaller(S, x) = Smaller(S, y) + 1
    BY <2>1, OneFewer
  <2>3. Smaller(S, y) \in Nat
    BY SmallerIsNat
  <2>4. y \in T
    BY <1>7, <1>8, <1>9, <2>2, <2>3
  <2> QED  BY <1>6, <1>7, <2>2, <2>4
<1> QED  BY <1>9

Increasing(s) == \A i, j \in 1..Len(s) : i < j => s[i] < s[j]

LEMMA InOrderIsOrdered ==
  ASSUME NEW N \in Nat, NEW S \in SUBSET (1..N), NEW n \in Nat
  PROVE  /\ InOrder(S, n) \in Seq(S)
         /\ Increasing(InOrder(S, n))
<1> DEFINE m == IF Cardinality(S) < n THEN Cardinality(S) ELSE n
           e(k) == CHOOSE x \in S : Smaller(S, x) = k - 1
           f == [k \in 1..m |-> e(k)]
<1>1. InOrder(S, n) = f
  BY DEF InOrder, Smaller
<1>2. Cardinality(S) \in Nat
  <2>1. IsFiniteSet(1..N)
    BY FS_Interval
  <2> QED  BY <2>1, FS_Subset, FS_CardinalityType
<1>3. m \in Nat /\ \A k \in 1..m : k \in 1..Cardinality(S)
  BY <1>2
<1> HIDE DEF m
<1>4. \A k \in 1..m : e(k) \in S /\ Smaller(S, e(k)) = k - 1
  BY <1>3, PlaceIsTaken
<1> HIDE DEF e
<1>5. f \in Seq(S) /\ Len(f) = m /\ \A k \in 1..m : f[k] = e(k)
  BY <1>3, <1>4
<1>6. ASSUME NEW i \in 1..m, NEW j \in 1..m, i < j  PROVE e(i) < e(j)
  <2>1. e(i) \in 1..N /\ e(j) \in 1..N
    BY <1>4
  <2>2. ASSUME e(j) <= e(i)  PROVE FALSE
    <3>1. Smaller(S, e(j)) <= Smaller(S, e(i))
      BY <1>4, <2>2, SmallerIsMonotonic
    <3>2. j - 1 <= i - 1
      BY <1>4, <3>1
    <3> QED  BY <1>3, <1>6, <3>2
  <2> QED  BY <2>1, <2>2
<1> QED  BY <1>1, <1>5, <1>6 DEF Increasing
------------------------------------------------------------------------------
\* The failures that were read again and those that still will be are deepest
\* ones, in the order of the tree.
OrderInv ==
  /\ TreeInv
  /\ stage \in {"start", "failed", "walking", "walked"} => suspects = <<>> /\ causes = <<>>
  /\ suspects \in Seq(Nat)
  /\ \E S : causes \in Seq(S)
  /\ \A i \in 1..Len(suspects) : suspects[i] \in DeepestUnready
  /\ \A i \in 1..Len(causes) : causes[i].node \in DeepestUnready
  /\ Increasing(suspects)
  /\ \A i, j \in 1..Len(causes) : i < j => causes[i].node < causes[j].node
  /\ \A i \in 1..Len(causes), j \in 1..Len(suspects) : causes[i].node < suspects[j]

LEMMA DeepestIsKept == UNCHANGED nodes => DeepestUnready' = DeepestUnready
  BY DEF DeepestUnready, Unready, Below

LEMMA OrderGoesOn == OrderInv /\ [Next]_vars => OrderInv'
<1> SUFFICES ASSUME OrderInv, [Next]_vars  PROVE OrderInv'
  OBVIOUS
<1>1. TreeInv'
  BY GoesOn DEF OrderInv
<1>2. CASE Walk /\ UNCHANGED <<suspects, causes, verdict>>
  <2>1. stage \in {"start", "walking"} /\ stage' \in {"failed", "walking", "walked"}
    BY <1>2 DEF Walk, ReadRoot, ReadRootFails, FollowReference, ReferenceFails, ReturnNode, Following
  <2>2. suspects' = <<>> /\ causes' = <<>>
    BY <1>2, <2>1 DEF OrderInv
  <2> QED  BY <1>1, <2>2 DEF OrderInv, Increasing
<1>3. CASE UNCHANGED <<nodes, suspects, causes>> /\ (stage' = stage \/ stage' = "answered")
  <2>1. DeepestUnready' = DeepestUnready
    BY <1>3, DeepestIsKept
  <2> QED  BY <1>1, <1>3, <2>1 DEF OrderInv, Increasing
<1>4. CASE Investigate
  <2>1. UNCHANGED <<nodes, causes>> /\ stage = "walked" /\ stage' = "investigating"
        /\ suspects' = InOrder(DeepestUnready, MaxRootCauses)
    BY <1>4 DEF Investigate
  <2>2. DOMAIN nodes = 1..Len(nodes) /\ Len(nodes) \in Nat
    BY LenProperties DEF OrderInv, TreeInv, TreeTyped
  <2>3. DeepestUnready \in SUBSET (1..Len(nodes))
    BY <2>2 DEF DeepestUnready
  <2>4. suspects' \in Seq(DeepestUnready) /\ Increasing(suspects')
    BY <2>1, <2>2, <2>3, InOrderIsOrdered, MaxRootCausesAssumption
  <2>5. DeepestUnready \subseteq Nat
    BY <2>3
  <2>6. suspects' \in Seq(Nat) /\ \A i \in 1..Len(suspects') : suspects'[i] \in DeepestUnready
    BY <2>4, <2>5, SeqMonotonic, ElementOfSeq
  <2>7. causes = <<>>
    BY <2>1 DEF OrderInv
  <2>8. DeepestUnready' = DeepestUnready
    BY <2>1, DeepestIsKept
  <2>9. Increasing(suspects)'
    BY <2>4 DEF Increasing
  <2> QED  BY <1>1, <2>1, <2>6, <2>7, <2>8, <2>9 DEF OrderInv
<1>5. CASE ReRead
  <2>1. UNCHANGED <<nodes, stage>> /\ stage = "investigating" /\ suspects # <<>> /\ suspects' = Tail(suspects)
    BY <1>5 DEF ReRead, walk
  <2>2. PICK r : causes' = Append(causes, r) /\ r.node = suspects[1]
    BY <1>5, <2>1 DEF ReRead, OrderInv
  <2>3. /\ Len(suspects) \in Nat \ {0} /\ suspects' \in Seq(Nat) /\ Len(suspects') = Len(suspects) - 1
        /\ \A i \in 1..Len(suspects') : suspects'[i] = suspects[i+1]
    BY <2>1, HeadTailProperties, EmptySeq DEF OrderInv
  <2>4. PICK S : causes \in Seq(S)
    BY DEF OrderInv
  <2>5. causes \in Seq(S \cup {r})
    BY <2>4, SeqMonotonic
  <2>6. /\ Len(causes) \in Nat /\ causes' \in Seq(S \cup {r}) /\ Len(causes') = Len(causes) + 1
        /\ causes'[Len(causes')] = r /\ \A i \in 1..Len(causes) : causes'[i] = causes[i]
    BY <2>2, <2>5
  <2>7. DeepestUnready' = DeepestUnready
    BY <2>1, DeepestIsKept
  <2>8. \A i \in 1..Len(suspects) : suspects[i] \in DeepestUnready /\ suspects[i] \in Nat
    BY ElementOfSeq DEF OrderInv
  <2>9. \A i \in 1..Len(suspects') : suspects'[i] \in DeepestUnready /\ suspects[1] < suspects'[i]
    <3> SUFFICES ASSUME NEW i \in 1..Len(suspects')
                 PROVE  suspects'[i] \in DeepestUnready /\ suspects[1] < suspects'[i]
      OBVIOUS
    <3>1. i + 1 \in 1..Len(suspects) /\ 1 \in 1..Len(suspects) /\ 1 < i + 1
      BY <2>3
    <3> QED  BY <2>3, <2>8, <3>1 DEF OrderInv, Increasing
  <2>10. Increasing(suspects)'
    <3> SUFFICES ASSUME NEW i \in 1..Len(suspects'), NEW j \in 1..Len(suspects'), i < j
                 PROVE  suspects'[i] < suspects'[j]
      BY DEF Increasing
    <3>1. i + 1 \in 1..Len(suspects) /\ j + 1 \in 1..Len(suspects) /\ i + 1 < j + 1
      BY <2>3
    <3> QED  BY <2>3, <3>1 DEF OrderInv, Increasing
  <2>11. \A i \in 1..Len(causes') : i \in 1..Len(causes) \/ i = Len(causes')
    BY <2>6
  <2>12. 1 \in 1..Len(suspects)
    BY <2>3
  <2>13. \A i \in 1..Len(causes') : causes'[i].node \in DeepestUnready'
    BY <2>2, <2>6, <2>7, <2>8, <2>11, <2>12 DEF OrderInv
  <2>14. \A i \in 1..Len(causes) : causes[i].node < suspects[1]
    BY <2>12 DEF OrderInv
  <2>15. \A i, j \in 1..Len(causes') : i < j => causes'[i].node < causes'[j].node
    <3> SUFFICES ASSUME NEW i \in 1..Len(causes'), NEW j \in 1..Len(causes'), i < j
                 PROVE  causes'[i].node < causes'[j].node
      OBVIOUS
    <3>1. i \in 1..Len(causes)
      BY <2>6
    <3>2. CASE j = Len(causes')
      BY <2>2, <2>6, <2>14, <3>1, <3>2
    <3>3. CASE j \in 1..Len(causes)
      BY <2>6, <3>1, <3>3 DEF OrderInv
    <3> QED  BY <2>11, <3>2, <3>3
  <2>16. \A i \in 1..Len(causes'), j \in 1..Len(suspects') : causes'[i].node < suspects'[j]
    <3> SUFFICES ASSUME NEW i \in 1..Len(causes'), NEW j \in 1..Len(suspects')
                 PROVE  causes'[i].node < suspects'[j]
      OBVIOUS
    <3>1. CASE i = Len(causes')
      BY <2>2, <2>6, <2>9, <3>1
    <3>2. CASE i \in 1..Len(causes)
      <4>1. j + 1 \in 1..Len(suspects) /\ suspects'[j] = suspects[j+1]
        BY <2>3
      <4> QED  BY <2>6, <3>2, <4>1 DEF OrderInv
    <3> QED  BY <2>11, <3>1, <3>2
  <2> QED  BY <1>1, <2>1, <2>3, <2>6, <2>7, <2>9, <2>10, <2>13, <2>15, <2>16 DEF OrderInv
<1> QED
  BY <1>2, <1>3, <1>4, <1>5
  DEF Next, TreeNext, Tool, ServerChanges, AnswerReady, Conclude, vars, treeVars, walk

\* No cause is blamed that lies below another one, and none twice, however
\* large the tree and whatever the second reading says (diagnose.go:98-125).
THEOREM CausesStayApart == Spec => []CausesAreApart
<1>1. Init => OrderInv
  <2> SUFFICES ASSUME Init  PROVE OrderInv
    OBVIOUS
  <2>1. TreeInv /\ stage = "start" /\ suspects = <<>> /\ causes = <<>>
    BY Begins DEF Init, TreeInit
  <2> QED  BY <2>1, EmptySeq DEF OrderInv, Increasing
<1>2. OrderInv => CausesAreApart
  <2> SUFFICES ASSUME OrderInv, NEW i \in DOMAIN causes, NEW j \in DOMAIN causes, i < j
               PROVE  causes[i].node < causes[j].node /\ ~Below(causes[i].node, causes[j].node)
    BY DEF CausesAreApart
  <2>1. DOMAIN causes = 1..Len(causes)
    BY LenProperties DEF OrderInv
  <2>2. causes[i].node \in DeepestUnready /\ causes[j].node \in DeepestUnready
        /\ causes[i].node < causes[j].node
    BY <2>1 DEF OrderInv
  <2> QED  BY <2>2 DEF DeepestUnready
<1> QED  BY <1>1, <1>2, OrderGoesOn, PTL DEF Spec
\* Without an object in two places, what hangs below a node is all that is
\* below its object.
LEMMA SubtreeIsComplete ==
  ASSUME WalkInv, stage \notin Early, mishaps = 0, CutAbove, EachOnce, NEW i \in 1..Len(nodes)
  PROVE  Reachable(nodes[i].obj) = {nodes[k].obj : k \in {l \in 1..Len(nodes) : InSubtree(i, l)}}
<1>0. /\ TreeInv /\ Sound /\ stack = <<>> /\ Len(nodes) \in Nat /\ DOMAIN nodes = 1..Len(nodes)
      /\ \A k \in 1..Len(nodes) : nodes[k].obj \in Objects /\ nodes[k].depth \in Nat
  BY NodesAreObjects DEF WalkInv
<1> DEFINE S == {nodes[k].obj : k \in {l \in 1..Len(nodes) : InSubtree(i, l)}}
<1>1. S \subseteq Reachable(nodes[i].obj)
  BY <1>0, SubtreeIsReachable DEF Sound
<1>2. S \in SUBSET Objects /\ nodes[i].obj \in S
  BY <1>0 DEF InSubtree
<1>3. Closed(S)
  <2> SUFFICES ASSUME NEW o \in S, o \in alive, NEW p \in refs[o]  PROVE p \in S
    BY DEF Closed
  <2>1. PICK k \in 1..Len(nodes) : InSubtree(i, k) /\ nodes[k].obj = o
    OBVIOUS
  <2>2. First(nodes, k) /\ nodes[k].depth < MaxTreeDepth
    BY <1>0 DEF EachOnce, First, CutAbove
  <2>3. Handled(nodes, stack, k, p) /\ ~OnPath(nodes, stack, k)
    <3>1. Len(stack) = 0
      BY <1>0
    <3> QED  BY <1>0, <2>1, <2>2, <3>1 DEF Sound, GoneBelow, OnPath
  <2>4. PICK l \in 1..Len(nodes) : Child(nodes, k, l) /\ nodes[l].obj = p
    BY <2>3 DEF Handled
  <2>5. Below(i, l)
    <3>1. k < l /\ i <= k /\ nodes[k].depth >= nodes[i].depth
          /\ (i # k => \A m \in (i+1)..k : nodes[m].depth > nodes[i].depth)
      <4>1. CASE k = i
        BY <1>0, <2>4, <4>1 DEF Child
      <4>2. CASE Below(i, k)
        <5>1. k \in (i+1)..k
          BY <1>0, <4>2 DEF Below
        <5> QED  BY <1>0, <2>4, <4>2, <5>1 DEF Child, Below
      <4> QED  BY <2>1, <4>1, <4>2 DEF InSubtree
    <3>2. ASSUME NEW m \in (i+1)..l  PROVE nodes[m].depth > nodes[i].depth
      <4>1. CASE m <= k
        <5>1. m \in (i+1)..k /\ i # k
          BY <1>0, <4>1
        <5> QED  BY <3>1, <5>1
      <4>2. CASE k < m
        <5>1. m \in 1..Len(nodes) /\ m <= l
          BY <1>0
        <5>2. nodes[m].depth > nodes[k].depth
          BY <2>4, <4>2, <5>1 DEF Child
        <5> QED  BY <1>0, <3>1, <5>1, <5>2
      <4> QED  BY <1>0, <4>1, <4>2
    <3> QED  BY <1>0, <3>1, <3>2 DEF Below
  <2> QED  BY <2>4, <2>5 DEF InSubtree
<1> QED  BY <1>0, <1>1, <1>2, <1>3, ReachesNoFurther

\* Then the failures with none below them in the tree are those of the graph.
LEMMA DeepestOfTheGraph ==
  ASSUME WalkInv, stage \notin Early, mishaps = 0, CutAbove, EachOnce
  PROVE  {nodes[i].obj : i \in DeepestUnready} = DeepestFailures
<1>0. /\ Sound /\ DOMAIN nodes = 1..Len(nodes) /\ Len(nodes) \in Nat
  BY NodesAreObjects DEF WalkInv
<1>1. \A i \in 1..Len(nodes) : Unready(i) <=> StatusOf(nodes[i].obj) # "True"
  BY <1>0 DEF Sound, WellRead, Unready
<1>2. ASSUME NEW i \in 1..Len(nodes)
      PROVE  (\A j \in DOMAIN nodes : Below(i, j) => ~Unready(j))
             <=> (\A p \in Reachable(nodes[i].obj) \ {nodes[i].obj} : StatusOf(p) = "True")
  <2>1. Reachable(nodes[i].obj) = {nodes[k].obj : k \in {l \in 1..Len(nodes) : InSubtree(i, l)}}
    BY SubtreeIsComplete
  <2>2. \A j \in 1..Len(nodes) : nodes[j].obj = nodes[i].obj <=> j = i
    BY <1>0 DEF EachOnce
  <2>3. \A j \in 1..Len(nodes) : Below(i, j) => j # i
    BY <1>0 DEF Below
  <2>4. Reachable(nodes[i].obj) \ {nodes[i].obj} = {nodes[k].obj : k \in {l \in 1..Len(nodes) : Below(i, l)}}
    BY <2>1, <2>2, <2>3 DEF InSubtree
  <2> QED  BY <1>0, <1>1, <2>4
<1>3. InTree = Reachable(Root)
  BY WalkIsComplete
<1> QED  BY <1>0, <1>1, <1>2, <1>3 DEF DeepestUnready, DeepestFailures, InTree
------------------------------------------------------------------------------
\* An element that comes later has more before it.
LEMMA LaterHasMore ==
  ASSUME NEW N \in Nat, NEW S \in SUBSET (1..N), NEW x \in S, NEW y \in S, x < y
  PROVE  Smaller(S, x) < Smaller(S, y)
<1> DEFINE X == {z \in S : z < x}  Y == {z \in S : z < y}
<1>0. IsFiniteSet(S) /\ \A z \in S : z \in Nat
  <2>1. IsFiniteSet(1..N)
    BY FS_Interval
  <2>2. \A z \in S : z \in Nat
    OBVIOUS
  <2> QED  BY <2>1, <2>2, FS_Subset
<1>1. X \cup {x} \in SUBSET Y /\ x \notin X
  <2>1. \A z \in S : z < x => z < y
    BY <1>0
  <2>2. ~(x < x)
    BY <1>0
  <2> QED  BY <2>1, <2>2
<1>2. X \in SUBSET S /\ Y \in SUBSET S
  OBVIOUS
<1>3. IsFiniteSet(X) /\ IsFiniteSet(Y)
  BY <1>0, <1>2, FS_Subset
<1> HIDE DEF X, Y
<1>4. Cardinality(X \cup {x}) = Cardinality(X) + 1 /\ Cardinality(X \cup {x}) <= Cardinality(Y)
  BY <1>1, <1>3, FS_AddElement, FS_Subset
<1>5. Cardinality(X) \in Nat /\ Cardinality(Y) \in Nat
  BY <1>3, FS_CardinalityType
<1>6. Cardinality(X) < Cardinality(Y)
  BY <1>4, <1>5
<1> QED  BY <1>6 DEF X, Y, Smaller

\* A list that is not as long as it may be has every element.
LEMMA InOrderIsAll ==
  ASSUME NEW N \in Nat, NEW S \in SUBSET (1..N), NEW n \in Nat, Len(InOrder(S, n)) # n, NEW x \in S
  PROVE  \E k \in 1..Len(InOrder(S, n)) : InOrder(S, n)[k] = x
<1> DEFINE e(k) == CHOOSE y \in S : Smaller(S, y) = k - 1
           f == [k \in 1..Cardinality(S) |-> e(k)]
<1>0. IsFiniteSet(S) /\ Cardinality(S) \in Nat /\ \A z \in S : z \in Nat
  <2>1. IsFiniteSet(1..N)
    BY FS_Interval
  <2>2. \A z \in S : z \in Nat
    OBVIOUS
  <2>3. IsFiniteSet(S)
    BY <2>1, FS_Subset
  <2> QED  BY <2>2, <2>3, FS_CardinalityType
<1>1. Cardinality(S) < n /\ InOrder(S, n) = f
  <2> DEFINE g == [k \in 1..n |-> e(k)]
  <2>1. ASSUME ~(Cardinality(S) < n)  PROVE FALSE
    <3>1. InOrder(S, n) = g
      BY <2>1 DEF InOrder, Smaller
    <3>2. Len(g) = n
      OBVIOUS
    <3> QED  BY <3>1, <3>2
  <2> QED  BY <2>1 DEF InOrder, Smaller
<1>2. Smaller(S, x) \in Nat /\ Smaller(S, x) < Cardinality(S)
  <2> DEFINE X == {z \in S : z < x}
  <2>1. X \in SUBSET S /\ x \notin X
    BY <1>0
  <2>2. IsFiniteSet(X)
    BY <1>0, <2>1, FS_Subset
  <2>3. X \cup {x} \in SUBSET S
    BY <2>1
  <2> HIDE DEF X
  <2>4. Cardinality(X \cup {x}) = Cardinality(X) + 1 /\ Cardinality(X \cup {x}) <= Cardinality(S)
    BY <1>0, <2>1, <2>2, <2>3, FS_AddElement, FS_Subset
  <2>5. Cardinality(X) \in Nat
    BY <2>2, FS_CardinalityType
  <2>6. Cardinality(X) < Cardinality(S)
    BY <1>0, <2>4, <2>5
  <2> QED  BY <2>5, <2>6 DEF X, Smaller
<1> DEFINE k == Smaller(S, x) + 1
<1>3. k \in 1..Cardinality(S) /\ Smaller(S, x) = k - 1
  BY <1>0, <1>2
<1> HIDE DEF k
<1>4. e(k) \in S /\ Smaller(S, e(k)) = Smaller(S, x)
  BY <1>3
<1>5. e(k) = x
  <2>1. ~(e(k) < x) /\ ~(x < e(k))
    <3>1. ASSUME NEW a \in S, NEW b \in S, a < b  PROVE Smaller(S, a) # Smaller(S, b)
      <4>1. Smaller(S, a) < Smaller(S, b)
        BY <3>1, LaterHasMore
      <4>2. Smaller(S, a) \in Nat /\ Smaller(S, b) \in Nat
        BY SmallerIsNat
      <4> QED  BY <4>1, <4>2
    <3> QED  BY <1>4, <3>1
  <2> QED  BY <1>0, <1>4, <2>1
<1> HIDE DEF e
<1>6. Len(f) = Cardinality(S) /\ f[k] = e(k)
  BY <1>0, <1>3
<1> QED  BY <1>1, <1>3, <1>5, <1>6
------------------------------------------------------------------------------
\* As many causes as there may be, or all there are.
Covered ==
  \/ Len(causes) + Len(suspects) = MaxRootCauses
  \/ \A x \in DeepestUnready : \/ \E i \in 1..Len(causes) : causes[i].node = x
                               \/ \E i \in 1..Len(suspects) : suspects[i] = x

CoverInv ==
  /\ WalkInv /\ OrderInv
  /\ stage # "answered" => verdict.blames = "none"
  /\ stage = "investigating" => Covered
  /\ stage = "answered" /\ verdict.blames # "nobody" => suspects = <<>> /\ Covered

LEMMA CoverGoesOn == CoverInv /\ [Next]_vars => CoverInv'
<1> SUFFICES ASSUME CoverInv, [Next]_vars  PROVE CoverInv'
  OBVIOUS
<1>1. WalkInv' /\ OrderInv'
  BY WalkGoesOn, DiagnosisWalks, OrderGoesOn DEF CoverInv
<1>2. CASE Walk /\ UNCHANGED <<suspects, causes, verdict>>
  <2>1. stage \in {"start", "walking"} /\ stage' \in {"failed", "walking", "walked"}
    BY <1>2 DEF Walk, ReadRoot, ReadRootFails, FollowReference, ReferenceFails, ReturnNode, Following
  <2> QED  BY <1>1, <1>2, <2>1 DEF CoverInv
<1>3. CASE UNCHANGED <<stage, nodes, suspects, causes, verdict>>
  <2>1. DeepestUnready' = DeepestUnready
    BY <1>3, DeepestIsKept
  <2> QED  BY <1>1, <1>3, <2>1 DEF CoverInv, Covered
<1>4. CASE AnswerReady
  BY <1>1, <1>4 DEF CoverInv, AnswerReady, NoVerdict
<1>5. CASE Investigate
  <2>1. UNCHANGED <<nodes, causes, verdict>> /\ stage = "walked" /\ stage' = "investigating"
        /\ suspects' = InOrder(DeepestUnready, MaxRootCauses)
    BY <1>5 DEF Investigate
  <2>2. DOMAIN nodes = 1..Len(nodes) /\ Len(nodes) \in Nat
    BY LenProperties DEF CoverInv, WalkInv, TreeInv, TreeTyped
  <2>3. DeepestUnready \in SUBSET (1..Len(nodes)) /\ DeepestUnready' = DeepestUnready
    BY <2>1, <2>2, DeepestIsKept DEF DeepestUnready
  <2>4. Len(suspects') # MaxRootCauses => \A x \in DeepestUnready : \E i \in 1..Len(suspects') : suspects'[i] = x
    <3> DEFINE D == DeepestUnready  N == Len(nodes)  list == InOrder(D, MaxRootCauses)
    <3>1. D \in SUBSET (1..N) /\ N \in Nat /\ MaxRootCauses \in Nat
      BY <2>2, <2>3, MaxRootCausesAssumption
    <3> HIDE DEF D, N
    <3>2. Len(list) # MaxRootCauses => \A x \in D : \E i \in 1..Len(list) : list[i] = x
      BY <3>1, InOrderIsAll
    <3> QED  BY <2>1, <3>2 DEF D
  <2>5. Len(causes) = 0 /\ Len(suspects') \in Nat
    <3>1. causes = <<>>
      BY <2>1 DEF CoverInv, OrderInv
    <3>2. suspects' \in Seq(DeepestUnready)
      BY <2>1, <2>2, <2>3, InOrderIsOrdered, MaxRootCausesAssumption
    <3> QED  BY <3>1, <3>2, LenProperties
  <2>6. Covered'
    BY <2>1, <2>3, <2>4, <2>5 DEF Covered
  <2> QED  BY <1>1, <2>1, <2>6 DEF CoverInv
<1>6. CASE ReRead
  <2>1. UNCHANGED <<nodes, stage, verdict>> /\ stage = "investigating" /\ suspects # <<>> /\ suspects' = Tail(suspects)
    BY <1>6 DEF ReRead, walk
  <2>2. PICK r : causes' = Append(causes, r) /\ r.node = suspects[1]
    BY <1>6, <2>1 DEF ReRead, CoverInv, OrderInv
  <2>3. /\ Len(suspects) \in Nat \ {0} /\ suspects' \in Seq(Nat) /\ Len(suspects') = Len(suspects) - 1
        /\ \A i \in 1..Len(suspects') : suspects'[i] = suspects[i+1]
    BY <2>1, HeadTailProperties, EmptySeq DEF CoverInv, OrderInv
  <2>4. PICK S : causes \in Seq(S)
    BY DEF CoverInv, OrderInv
  <2>5. causes \in Seq(S \cup {r})
    BY <2>4, SeqMonotonic
  <2>6. /\ Len(causes) \in Nat /\ causes' \in Seq(S \cup {r}) /\ Len(causes') = Len(causes) + 1
        /\ causes'[Len(causes')] = r /\ \A i \in 1..Len(causes) : causes'[i] = causes[i]
    BY <2>2, <2>5
  <2>7. DeepestUnready' = DeepestUnready
    BY <2>1, DeepestIsKept
  <2>8. Covered'
    <3>1. CASE Len(causes) + Len(suspects) = MaxRootCauses
      BY <2>3, <2>6, <3>1 DEF Covered
    <3>2. ASSUME NEW x \in DeepestUnready,
                 \/ \E i \in 1..Len(causes) : causes[i].node = x
                 \/ \E i \in 1..Len(suspects) : suspects[i] = x
          PROVE  \/ \E i \in 1..Len(causes') : causes'[i].node = x
                 \/ \E i \in 1..Len(suspects') : suspects'[i] = x
      <4>1. CASE \E i \in 1..Len(causes) : causes[i].node = x
        <5>1. \A i \in 1..Len(causes) : i \in 1..Len(causes')
          BY <2>6
        <5> QED  BY <2>6, <4>1, <5>1
      <4>2. ASSUME NEW i \in 1..Len(suspects), suspects[i] = x
            PROVE  \/ \E l \in 1..Len(causes') : causes'[l].node = x
                   \/ \E l \in 1..Len(suspects') : suspects'[l] = x
        <5>1. CASE i = 1
          <6>1. Len(causes') \in 1..Len(causes')
            BY <2>6
          <6> QED  BY <2>2, <2>6, <4>2, <5>1, <6>1
        <5>2. CASE i # 1
          <6>1. i - 1 \in 1..Len(suspects') /\ (i - 1) + 1 = i
            BY <2>3, <5>2
          <6>2. suspects'[i-1] = x
            BY <2>3, <4>2, <6>1
          <6> QED  BY <6>1, <6>2
        <5> QED  BY <5>1, <5>2
      <4> QED  BY <3>2, <4>1, <4>2
    <3> QED  BY <2>1, <2>7, <3>1, <3>2 DEF CoverInv, Covered
  <2> QED  BY <1>1, <2>1, <2>8 DEF CoverInv
<1>7. CASE Conclude
  <2>1. UNCHANGED <<nodes, causes, suspects>> /\ stage = "investigating" /\ stage' = "answered" /\ suspects = <<>>
    BY <1>7 DEF Conclude
  <2>2. DeepestUnready' = DeepestUnready
    BY <2>1, DeepestIsKept
  <2>3. Covered'
    BY <2>1, <2>2 DEF CoverInv, Covered
  <2> QED  BY <1>1, <2>1, <2>3 DEF CoverInv
<1> QED
  BY <1>2, <1>3, <1>4, <1>5, <1>6, <1>7
  DEF Next, TreeNext, Tool, ServerChanges, vars, treeVars, walk

\* What is blamed is what is at fault, and all of it: on a graph nobody touched,
\* in which references do not meet and which no limit cut, the causes are the
\* deepest failures (diagnose.go:98-125).
THEOREM BlameIsRight == Spec => []CausesAreDeepest
<1>1. Init => CoverInv
  <2> SUFFICES ASSUME Init  PROVE CoverInv
    OBVIOUS
  <2>1. TreeInv /\ WalkInv /\ stage = "start" /\ suspects = <<>> /\ causes = <<>> /\ verdict.blames = "none"
    BY Begins, WalkBegins DEF Init, TreeInit, NoVerdict
  <2>2. OrderInv
    BY <2>1, EmptySeq DEF OrderInv, Increasing
  <2> QED  BY <2>1, <2>2 DEF CoverInv
<1>2. CoverInv => CausesAreDeepest
  <2> SUFFICES ASSUME CoverInv, stage = "answered", ~(verdict.blames \in {"none", "nobody"}), mishaps = 0,
                      CutAbove, EachOnce, Complete
               PROVE  Blamed = DeepestFailures
    BY DEF CausesAreDeepest
  <2>1. suspects = <<>> /\ Covered /\ Len(causes) \in Nat /\ DOMAIN causes = 1..Len(causes)
    BY LenProperties DEF CoverInv, OrderInv
  <2>2. Len(suspects) = 0 /\ Len(causes) < MaxRootCauses
    BY <2>1 DEF Complete
  <2>3. \A x \in DeepestUnready : \E i \in 1..Len(causes) : causes[i].node = x
    <3>1. Len(causes) + Len(suspects) # MaxRootCauses
      <4> DEFINE n == Len(causes)
      <4>1. n \in Nat /\ n < MaxRootCauses /\ Len(suspects) = 0
        BY <2>1, <2>2
      <4> HIDE DEF n
      <4>2. n + Len(suspects) # MaxRootCauses
        BY <4>1, MaxRootCausesAssumption
      <4> QED  BY <4>2 DEF n
    <3>2. \A i \in 1..Len(suspects) : FALSE
      BY <2>2
    <3> QED  BY <2>1, <3>1, <3>2 DEF Covered
  <2>4. \A i \in 1..Len(causes) : causes[i].node \in DeepestUnready
    BY DEF CoverInv, OrderInv
  <2>5. Blamed = {nodes[i].obj : i \in DeepestUnready}
    BY <2>1, <2>3, <2>4 DEF Blamed
  <2>6. WalkInv /\ stage \notin Early
    BY DEF CoverInv, Early
  <2> QED  BY <2>5, <2>6, DeepestOfTheGraph
<1> QED  BY <1>1, <1>2, CoverGoesOn, PTL DEF Spec
------------------------------------------------------------------------------
(***************************************************************************)
(* crossplane_impact.                                                      *)
(***************************************************************************)
LEMMA ImpactWalks == [ImpactNext]_impactVars => TreeNext \/ Resting
<1>1. CASE Report
  <2>1. stage = "walked" /\ stage' = "answered" /\ UNCHANGED <<server, mishaps, nodes, stack, seen>>
    BY <1>1 DEF Report
  <2>2. stage \notin Early /\ stage' \notin Early
    BY <2>1 DEF Early
  <2> QED  BY <2>1, <2>2 DEF Resting
<1>2. CASE UNCHANGED treeVars
  BY <1>2 DEF treeVars, walk, Resting
<1> QED  BY <1>1, <1>2 DEF ImpactNext, SearchStep, impactVars

LEMMA ImpactSearches == [ImpactNext]_impactVars => [SearchNext]_usageVars
<1>1. CASE SearchStep
  BY <1>1 DEF SearchStep, SearchNext
<1>2. CASE UsagesChange
  BY <1>2 DEF SearchNext
<1>3. CASE UNCHANGED usageVars
  BY <1>3
<1> QED  BY <1>1, <1>2, <1>3 DEF ImpactNext, Report, impactVars

\* What crossplane_impact does about usages is a search as Usages makes it,
\* whatever the walk before it found and whatever happens beside it
\* (impact.go:59-121, protection.go:52-92).
THEOREM ImpactSearchesForUsages == ImpactSpec => SearchSpec
<1>1. ImpactInit => SearchInit
  BY DEF ImpactInit
<1> QED  BY <1>1, ImpactSearches, PTL DEF ImpactSpec, SearchSpec

\* What the answer says follows from the tree and the usages that were read.
Reported ==
  LET usages == IF outcome = "usages" THEN found ELSE {}
  IN  report = [blockedBy |-> Blocking(usages), dangling |-> Dangling(usages), verdict |-> Verdict(Blocking(usages))]

ImpactInv ==
  /\ WalkInv /\ Progress
  /\ outcome = "usages" \/ outcome = "none" \/ found = {}
  /\ stage = "answered" => outcome # "none" /\ Reported

LEMMA ImpactGoesOn == ImpactInv /\ [ImpactNext]_impactVars => ImpactInv'
<1> SUFFICES ASSUME ImpactInv, [ImpactNext]_impactVars  PROVE ImpactInv'
  OBVIOUS
<1>1. WalkInv' /\ Progress'
  BY WalkGoesOn, ImpactWalks, ProgressGoesOn, ImpactSearches DEF ImpactInv
<1>2. CASE TreeNext /\ UNCHANGED <<usageVars, report>>
  <2>1. UNCHANGED <<outcome, found, report>>
    BY <1>2 DEF usageVars, search
  <2>2. CASE Walk
    <3>1. stage' # "answered"
      BY <2>2 DEF Walk, ReadRoot, ReadRootFails, FollowReference, ReferenceFails, ReturnNode, Following
    <3> QED  BY <1>1, <2>1, <3>1 DEF ImpactInv
  <2>3. CASE ServerChanges
    <3>1. UNCHANGED <<stage, nodes>>
      BY <2>3 DEF ServerChanges, walk
    <3>2. Reported => Reported'
      BY <2>1, <3>1 DEF Reported, Blocking, Dangling, Verdict, DoomedLabels
    <3> QED  BY <1>1, <2>1, <3>1, <3>2 DEF ImpactInv
  <2> QED  BY <1>2, <2>2, <2>3 DEF TreeNext
<1>3. CASE SearchStep
  <2>1. stage = "walked" /\ stage' = "walked"
    BY <1>3 DEF SearchStep, treeVars, walk
  <2>2. outcome' = "usages" \/ outcome' = "none" \/ found' = {}
    <3>1. CASE ReturnUsages
      BY <3>1 DEF ReturnUsages
    <3>2. CASE KindIsMissing \/ ListFails \/ ListSucceeds
      <4>0. asking \in 1..KindCount
        BY <3>2 DEF KindIsMissing, ListFails, ListSucceeds, ImpactInv, Progress
      <4>1. outcome' = outcome
        BY <3>2 DEF KindIsMissing, ListFails, ListSucceeds
      <4>2. asking # KindCount + 1
        BY <4>0 DEF KindCount
      <4> QED  BY <4>1, <4>2 DEF ImpactInv, Progress
    <3> QED  BY <1>3, <3>1, <3>2 DEF SearchStep, Search
  <2> QED  BY <1>1, <2>1, <2>2 DEF ImpactInv
<1>4. CASE Report
  <2>1. stage' = "answered" /\ outcome # "none" /\ UNCHANGED <<nodes, outcome, found>>
    BY <1>4 DEF Report, usageVars, search
  <2>2. Reported'
    BY <1>4, <2>1 DEF Report, Reported, Blocking, Dangling, Verdict, DoomedLabels
  <2> QED  BY <1>1, <2>1, <2>2 DEF ImpactInv
<1>5. CASE UNCHANGED <<stage, nodes, outcome, found, report>>
  <2>1. Reported => Reported'
    BY <1>5 DEF Reported, Blocking, Dangling, Verdict, DoomedLabels
  <2> QED  BY <1>1, <1>5, <2>1 DEF ImpactInv
<1>6. UsagesChange /\ UNCHANGED <<treeVars, report>> => UNCHANGED <<stage, nodes, outcome, found, report>>
  BY DEF UsagesChange, search, treeVars, walk
<1>7. UNCHANGED impactVars => UNCHANGED <<stage, nodes, outcome, found, report>>
  BY DEF impactVars, usageVars, search, treeVars, walk
<1> QED  BY <1>2, <1>3, <1>4, <1>5, <1>6, <1>7 DEF ImpactNext

LEMMA ImpactHolds == ImpactSpec => []ImpactInv
<1>1. ImpactInit => ImpactInv
  <2> SUFFICES ASSUME ImpactInit  PROVE ImpactInv
    OBVIOUS
  <2>1. WalkInv /\ Progress /\ stage = "start" /\ outcome = "none"
    BY WalkBegins, ProgressBegins DEF ImpactInit, TreeInit, SearchInit
  <2> QED  BY <2>1 DEF ImpactInv
<1> QED  BY <1>1, ImpactGoesOn, PTL DEF ImpactSpec

\* Of an answer: its tree, and the usages that should be in it.
LEMMA AnswerIsRight ==
  ASSUME ImpactInv, stage = "answered"
  PROVE  /\ Doomed = InTree /\ (TreeIsWhole => InTree = Reachable(Root) /\ Rooted(nodes))
         /\ DoomedLabels = {LabelOf[o] : o \in InTree}
         /\ Findable \cap Blocking(found) \subseteq report.blockedBy /\ report.verdict = Verdict(report.blockedBy)
         /\ Findable \subseteq found /\ nodes # <<>> /\ TreeInv
<1>1. WalkInv /\ Progress /\ outcome # "none" /\ Reported
  BY DEF ImpactInv
<1>2. stage \notin Early
  BY DEF Early
<1>3. TreeIsWhole => InTree = Reachable(Root)
  BY <1>1, <1>2, WalkIsComplete DEF TreeIsWhole
<1>4. DoomedLabels = {LabelOf[o] : o \in InTree} /\ Doomed = InTree
  BY <1>3 DEF DoomedLabels, InTree, Doomed
<1>5. Findable \subseteq found
  BY <1>1, SearchHasFound
<1>6. (IF outcome = "usages" THEN found ELSE {}) = found
  BY <1>1 DEF ImpactInv
<1>7. report.blockedBy = Blocking(found) /\ report.verdict = Verdict(Blocking(found))
  BY <1>1, <1>6 DEF Reported
<1>8. nodes # <<>> /\ TreeInv /\ (TreeIsWhole => Rooted(nodes))
  BY <1>1, <1>2 DEF WalkInv, Sound, TreeIsWhole
<1> QED  BY <1>3, <1>4, <1>5, <1>7, <1>8

\* Every usage that protects anything that goes, is there all along and of a
\* kind that could be searched, is reported as blocking, for any composition,
\* cycles included, any usages, failures and changes (impact.go:138-159).
THEOREM ProtectedIsReported == ImpactSpec => []NothingProtectedIsMissed
<1>1. ImpactInv => NothingProtectedIsMissed
  <2> SUFFICES ASSUME ImpactInv, stage = "answered", NEW u \in Findable, NEW o \in Doomed, Protects(u, o)
               PROVE  u \in report.blockedBy
    BY DEF NothingProtectedIsMissed
  <2>1. /\ o \in InTree /\ DoomedLabels = {LabelOf[p] : p \in InTree}
        /\ u \in found /\ Findable \cap Blocking(found) \subseteq report.blockedBy
    BY AnswerIsRight
  <2>2. OfLabel[u] \in DoomedLabels
    BY <2>1 DEF Protects
  <2> QED  BY <2>1, <2>2 DEF Blocking
<1> QED  BY <1>1, ImpactHolds, PTL

\* What is said to be left dangling protects nothing that goes, whatever
\* happened during the call (impact.go:138-168).
THEOREM DanglingProtectsNothing == ImpactSpec => []DanglingIsLeftBehind
<1>1. ImpactInv => DanglingIsLeftBehind
  <2> SUFFICES ASSUME ImpactInv, stage = "answered"
               PROVE  /\ report.blockedBy \cap report.dangling = {}
                      /\ \A u \in report.dangling : \A i \in DOMAIN nodes : ~Protects(u, nodes[i].obj)
    BY DEF DanglingIsLeftBehind
  <2>1. PICK U : report.blockedBy = Blocking(U) /\ report.dangling = Dangling(U)
    BY DEF ImpactInv, Reported
  <2>2. Blocking(U) \cap Dangling(U) = {}
    BY DEF Dangling
  <2>3. ASSUME NEW u \in Dangling(U), NEW i \in DOMAIN nodes, Protects(u, nodes[i].obj)  PROVE FALSE
    <3>1. OfLabel[u] \in DoomedLabels
      BY <2>3 DEF Protects, DoomedLabels
    <3> QED  BY <3>1 DEF Dangling, Blocking
  <2> QED  BY <2>1, <2>2, <2>3
<1> QED  BY <1>1, ImpactHolds, PTL

\* "Deleting it affects only itself" is true when it is said, of a tree that is
\* whole and of the usages that are there all along (impact.go:174).
THEOREM AloneIsAlone == ImpactSpec => []AloneMeansAlone
<1>1. ImpactInv => AloneMeansAlone
  <2> SUFFICES ASSUME ImpactInv, stage = "answered", report.verdict = "alone"
               PROVE  /\ TreeIsWhole => Reachable(Root) = {Root}
                      /\ \A u \in Findable : ~Protects(u, Root)
    BY DEF AloneMeansAlone
  <2>1. /\ TreeIsWhole => InTree = Reachable(Root) /\ Rooted(nodes)
        /\ Findable \subseteq found /\ Findable \cap Blocking(found) \subseteq report.blockedBy
        /\ report.verdict = Verdict(report.blockedBy) /\ nodes # <<>> /\ TreeInv
    BY AnswerIsRight
  <2>2. report.blockedBy = {} /\ ~(Len(nodes) > 1)
    BY <2>1 DEF Verdict, ExternalCount
  <2>3. Len(nodes) = 1 /\ DOMAIN nodes = 1..1
    <3>1. Len(nodes) \in Nat /\ DOMAIN nodes = 1..Len(nodes)
      BY <2>1, NodesAreObjects
    <3>2. Len(nodes) # 0
      BY <2>1, EmptySeq DEF TreeInv, TreeTyped
    <3> QED  BY <2>2, <3>1, <3>2
  <2>4. TreeIsWhole => nodes[1].obj = Root
    BY <2>1, <2>3, AllBelowRoot
  <2>5. TreeIsWhole => InTree = {Root}
    BY <2>3, <2>4 DEF InTree
  <2>6. \A u \in Findable : ~Protects(u, Root)
    BY <2>1, <2>2 DEF Blocking, Protects
  <2> QED  BY <2>1, <2>5, <2>6
<1> QED  BY <1>1, ImpactHolds, PTL
------------------------------------------------------------------------------
(***************************************************************************)
(* What a walk may take.  Each object not yet gone below may cost as many  *)
(* Gets as there are objects, and a return (Ahead); what is gone below is  *)
(* in seen, and its references are pending until they are followed.        *)
(***************************************************************************)
\* One more activation adds the references that are on its list.
LEMMA PendingOfOneMore ==
  ASSUME NEW s, Ladder(s), NEW f \in Frame, f.depth = Len(s)
  PROVE  /\ IsFiniteSet(Pending(s)) /\ Cardinality(Pending(s)) \in Nat
         /\ IsFiniteSet(f.todo) /\ Cardinality(f.todo) \in Nat /\ Cardinality(f.todo) <= Count
         /\ Cardinality(Pending(<<f>> \o s)) = Cardinality(Pending(s)) + Cardinality(f.todo)
<1> DEFINE t == <<f>> \o s
           mine == {Len(s)} \X f.todo
<1>1. s \in Seq(Frame) /\ Len(s) \in Nat /\ <<f>> \in Seq(Frame) /\ Len(<<f>>) = 1
  BY LenProperties DEF Ladder
<1>2. Len(t) = Len(s) + 1 /\ \A i \in 1..(Len(s) + 1) : t[i] = IF i <= 1 THEN f ELSE s[i-1]
  BY <1>1, ConcatProperties
<1> HIDE DEF t
<1>3. f.todo \subseteq Objects /\ IsFiniteSet(f.todo) /\ Cardinality(f.todo) \in Nat /\ Cardinality(f.todo) <= Count
  BY ObjectsAssumption, FS_Subset, FS_CardinalityType DEF Frame, Count
<1>4. IsFiniteSet(Pending(s)) /\ Cardinality(Pending(s)) \in Nat
  <2>0. IsFiniteSet(0..(Len(s) - 1))
    BY <1>1, FS_Interval
  <2>1. IsFiniteSet((0..(Len(s) - 1)) \X Objects)
    BY <2>0, ObjectsAssumption, FS_Product
  <2>2. Pending(s) \subseteq (0..(Len(s) - 1)) \X Objects
    BY DEF Pending
  <2> QED  BY <2>1, <2>2, FS_Subset, FS_CardinalityType
<1>5. Pending(t) = Pending(s) \cup mine
  <2>1. ASSUME NEW d \in 0..(Len(s) - 1), NEW o \in Objects
        PROVE  <<d, o>> \in Pending(t) <=> <<d, o>> \in Pending(s)
    <3>1. d \in 0..(Len(t) - 1) /\ Len(t) - d \in 1..(Len(s) + 1) /\ t[Len(t) - d] = s[Len(s) - d]
      BY <1>1, <1>2
    <3> QED  BY <3>1 DEF Pending
  <2>2. ASSUME NEW o \in Objects  PROVE <<Len(s), o>> \in Pending(t) <=> o \in f.todo
    <3>1. Len(s) \in 0..(Len(t) - 1) /\ t[Len(t) - Len(s)] = f
      BY <1>1, <1>2
    <3> QED  BY <3>1 DEF Pending
  <2>3. ASSUME NEW p \in Pending(t)  PROVE p \in Pending(s) \cup mine
    <3>1. p \in (0..(Len(t) - 1)) \X Objects
      BY DEF Pending
    <3>2. PICK d \in 0..(Len(t) - 1), o \in Objects : p = <<d, o>>
      BY <3>1
    <3>3. CASE d = Len(s)
      BY <2>2, <3>2, <3>3
    <3>4. CASE d \in 0..(Len(s) - 1)
      BY <2>1, <3>2, <3>4
    <3> QED  BY <1>1, <1>2, <3>2, <3>3, <3>4
  <2>4. ASSUME NEW p \in Pending(s)  PROVE p \in Pending(t)
    <3>1. p \in (0..(Len(s) - 1)) \X Objects
      BY DEF Pending
    <3> QED  BY <2>1, <3>1
  <2>5. \A p \in mine : p \in Pending(t)
    BY <1>3, <2>2
  <2> QED  BY <2>3, <2>4, <2>5
<1>6. Pending(s) \cap mine = {}
  BY <1>1 DEF Pending
<1>7. IsFiniteSet(mine) /\ Cardinality(mine) = Cardinality(f.todo)
  <2>1. IsFiniteSet({Len(s)}) /\ Cardinality({Len(s)}) = 1
    BY FS_Singleton
  <2>2. IsFiniteSet(mine) /\ Cardinality(mine) = 1 * Cardinality(f.todo)
    BY <1>3, <2>1, FS_Product
  <2> QED  BY <1>3, <2>2
<1>8. Cardinality(Pending(t)) = Cardinality(Pending(s)) + Cardinality(mine) - Cardinality({})
  BY <1>4, <1>5, <1>6, <1>7, FS_Union
<1>9. Cardinality(Pending(t)) = Cardinality(Pending(s)) + Cardinality(f.todo)
  BY <1>3, <1>4, <1>7, <1>8, FS_EmptySet
<1> QED  BY <1>3, <1>4, <1>9 DEF t

LEMMA PendingIsFinite == ASSUME NEW s, Ladder(s)  PROVE Cardinality(Pending(s)) \in Nat
<1> DEFINE f == [depth |-> Len(s), todo |-> {}]
<1>1. f \in Frame /\ f.depth = Len(s)
  BY LenProperties DEF Ladder, Frame
<1> HIDE DEF f
<1> QED  BY <1>1, PendingOfOneMore

\* The references of the innermost activation, and those of the others.
LEMMA PendingOnTop ==
  ASSUME NEW s, Ladder(s), s # <<>>
  PROVE  /\ Head(s) \in Frame /\ Ladder(Tail(s)) /\ Head(s).depth = Len(Tail(s))
         /\ Cardinality(Pending(s)) = Cardinality(Pending(Tail(s))) + Cardinality(Head(s).todo)
<1>1. /\ Head(s) \in Frame /\ Head(s).depth = Len(s) - 1
      /\ Ladder(Tail(s)) /\ Len(Tail(s)) = Len(s) - 1 /\ Len(s) \in Nat \ {0}
  BY LadderTop
<1>2. s = <<Head(s)>> \o Tail(s)
  <2>1. s \in Seq(Frame) /\ Tail(s) \in Seq(Frame) /\ <<Head(s)>> \in Seq(Frame) /\ Len(<<Head(s)>>) = 1
    BY <1>1 DEF Ladder
  <2> QED  BY <1>1, <2>1
<1>3. Cardinality(Pending(<<Head(s)>> \o Tail(s))) = Cardinality(Pending(Tail(s))) + Cardinality(Head(s).todo)
  BY <1>1, PendingOfOneMore
<1> QED  BY <1>1, <1>2, <1>3

\* A reference that is followed is no longer pending.
LEMMA PendingIsPopped ==
  ASSUME TreeInv, Following
  PROVE  /\ Cardinality(Pending(stack)) \in Nat \ {0}
         /\ Cardinality(Pending(Popped)) = Cardinality(Pending(stack)) - 1
<1> DEFINE h == Head(stack)
           t == Tail(stack)
           f == [h EXCEPT !.todo = @ \ {Next1}]
<1>1. Ladder(stack) /\ stack # <<>> /\ h.todo # {}
  BY DEF TreeInv, TreeTyped, Following
<1>2. h \in Frame /\ Ladder(t) /\ h.depth = Len(t)
      /\ Cardinality(Pending(stack)) = Cardinality(Pending(t)) + Cardinality(h.todo)
  BY <1>1, PendingOnTop
<1>3. Popped = <<f>> \o t
  BY DEF Popped
<1>4. Next1 \in h.todo
  <2>1. h.todo \subseteq Nat
    BY <1>2, ObjectsAssumption DEF Frame
  <2> QED  BY <1>1, <2>1, LeastIsIn DEF Next1
<1>5. f \in Frame /\ f.depth = Len(t) /\ f.todo = h.todo \ {Next1}
  BY <1>2 DEF Frame
<1> HIDE DEF f, h, t
<1>6. Cardinality(Pending(Popped)) = Cardinality(Pending(t)) + Cardinality(f.todo) /\ Cardinality(Pending(t)) \in Nat
  BY <1>2, <1>3, <1>5, PendingOfOneMore
<1>7. IsFiniteSet(h.todo) /\ Cardinality(h.todo) \in Nat
  BY <1>2, PendingOfOneMore
<1>8. Cardinality(f.todo) = Cardinality(h.todo) - 1 /\ Cardinality(f.todo) \in Nat
  BY <1>4, <1>5, <1>7, FS_RemoveElement, FS_CardinalityType
<1> QED  BY <1>2, <1>6, <1>7, <1>8

\* What bounds the walk, and lets it go on.
BoundInv ==
  /\ TreeInv
  /\ stage = "start" => seen = {}
  /\ seen \subseteq Objects
  /\ WalkIsNotStuck
  /\ Len(stack) <= MaxTreeDepth
  /\ \A i \in 1..Len(nodes) : nodes[i].depth <= MaxTreeDepth
  /\ Len(nodes) + Cardinality(Pending(stack)) <= 1 + Count * Cardinality(seen)

\* Walking on: n is added, for a reference of "callers" that is now taken off;
\* if an activation was entered for it, its references are pending.
Counted(n, callers) ==
  /\ nodes' = Append(nodes, n) /\ n.depth = Len(stack)
  /\ Ladder(callers) /\ Len(callers) = Len(stack)
  /\ IF nodes = <<>> THEN callers = <<>> /\ stack = <<>>
     ELSE Cardinality(Pending(callers)) = Cardinality(Pending(stack)) - 1
  /\ \/ stack' = callers /\ seen' = seen
     \/ \E o \in Objects \ seen, f \in Frame :
          /\ f.depth = Len(stack) /\ f.depth < MaxTreeDepth
          /\ stack' = <<f>> \o callers /\ seen' = seen \cup {o}

\* Then the walk is within its bounds and closer to its end.
Closer ==
  /\ Len(nodes') + Cardinality(Pending(stack')) <= 1 + Count * Cardinality(seen')
  /\ Ahead' < Ahead
  /\ seen' \subseteq Objects /\ Len(stack') <= MaxTreeDepth /\ Len(stack') >= Len(stack)
  /\ \A i \in 1..Len(nodes') : nodes'[i].depth <= MaxTreeDepth

LEMMA SeenIsCounted ==
  ASSUME seen \subseteq Objects
  PROVE  /\ Count \in Nat /\ IsFiniteSet(seen)
         /\ Cardinality(seen) \in Nat /\ Cardinality(seen) <= Count
         /\ Cardinality(Objects \ seen) = Count - Cardinality(seen)
         /\ \A o \in Objects \ seen : /\ Cardinality(seen \cup {o}) = Cardinality(seen) + 1
                                      /\ Cardinality(seen) + 1 <= Count
                                      /\ Cardinality(Objects \ (seen \cup {o})) = Cardinality(Objects \ seen) - 1
<1>1. Count \in Nat /\ IsFiniteSet(seen) /\ Cardinality(seen) \in Nat /\ Cardinality(seen) <= Count
  BY ObjectsAssumption, FS_Subset, FS_CardinalityType DEF Count
<1>2. \A S \in SUBSET Objects : IsFiniteSet(S) /\ Cardinality(S) \in Nat /\ Cardinality(S) <= Count
                                /\ Cardinality(Objects \ S) = Count - Cardinality(S)
  <2> SUFFICES ASSUME NEW S \in SUBSET Objects
               PROVE  IsFiniteSet(S) /\ Cardinality(S) \in Nat /\ Cardinality(S) <= Count
                      /\ Cardinality(Objects \ S) = Count - Cardinality(S)
    OBVIOUS
  <2>1. IsFiniteSet(S) /\ Cardinality(S) \in Nat /\ Cardinality(S) <= Count
    BY ObjectsAssumption, FS_Subset, FS_CardinalityType DEF Count
  <2>2. Cardinality(Objects \ S) = Cardinality(Objects) - Cardinality(Objects \cap S)
    BY <2>1, ObjectsAssumption, FS_Difference
  <2>3. Objects \cap S = S
    OBVIOUS
  <2> QED  BY <2>1, <2>2, <2>3 DEF Count
<1>3. ASSUME NEW o \in Objects \ seen
      PROVE  /\ Cardinality(seen \cup {o}) = Cardinality(seen) + 1
             /\ Cardinality(seen) + 1 <= Count
             /\ Cardinality(Objects \ (seen \cup {o})) = Cardinality(Objects \ seen) - 1
  <2>1. Cardinality(seen \cup {o}) = Cardinality(seen) + 1
    BY <1>1, FS_AddElement
  <2>3. Cardinality(Objects \ seen) = Count - Cardinality(seen)
    BY <1>2
  <2>2. seen \cup {o} \in SUBSET Objects
    OBVIOUS
  <2>4. Cardinality(seen \cup {o}) <= Count
        /\ Cardinality(Objects \ (seen \cup {o})) = Count - Cardinality(seen \cup {o})
    BY <1>2, <2>2
  <2> QED  BY <1>1, <2>1, <2>3, <2>4
<1> QED  BY <1>1, <1>2, <1>3

LEMMA CountedStep ==
  ASSUME BoundInv, NEW n, NEW callers, Counted(n, callers),
         nodes = <<>> <=> stage = "start", stage' = "walking"
  PROVE  Closer
<1> DEFINE P == Cardinality(Pending(stack))
           Q == Cardinality(Pending(callers))
           k == Cardinality(seen)
           u == Cardinality(Objects \ seen)
<1>0. Ladder(stack) /\ nodes \in Seq(Node) /\ Len(nodes) \in Nat /\ Len(stack) \in Nat
  BY LenProperties DEF BoundInv, TreeInv, TreeTyped, Ladder
<1>1. /\ Count \in Nat /\ k \in Nat /\ k <= Count /\ u = Count - k
      /\ \A o \in Objects \ seen : /\ Cardinality(seen \cup {o}) = k + 1 /\ k + 1 <= Count
                                   /\ Cardinality(Objects \ (seen \cup {o})) = u - 1
  BY SeenIsCounted DEF BoundInv
<1>2. P \in Nat /\ Q \in Nat
  BY <1>0, PendingIsFinite DEF Counted
<1>3. Len(nodes) + P <= 1 + Count * k
  BY DEF BoundInv
<1>4. Len(nodes') = Len(nodes) + 1 /\ nodes'[Len(nodes')] = n /\ \A i \in 1..Len(nodes) : nodes'[i] = nodes[i]
  BY <1>0 DEF Counted
<1>5. \A i \in 1..Len(nodes') : nodes'[i].depth <= MaxTreeDepth
  BY <1>0, <1>4 DEF Counted, BoundInv
<1>6. /\ Q + 1 <= P + (IF stage = "start" THEN 1 ELSE 0)
      /\ Len(nodes) + 1 + Q <= 1 + Count * k
  <2>1. CASE nodes = <<>>
    <3>1. callers = <<>> /\ stack = <<>> /\ seen = {}
      BY <2>1 DEF Counted, BoundInv
    <3>2. Pending(<<>>) = {}
      BY DEF Pending
    <3>3. Len(nodes) = 0 /\ k = 0 /\ P = 0 /\ Q = 0
      BY <2>1, <3>1, <3>2, FS_EmptySet
    <3> QED  BY <1>1, <2>1, <3>3
  <2>2. CASE nodes # <<>>
    <3>1. Q = P - 1
      BY <2>2 DEF Counted
    <3> QED  BY <1>0, <1>1, <1>2, <1>3, <2>2, <3>1
  <2> QED  BY <2>1, <2>2
<1>7. Ahead = (Count + 1) * u + P + Len(stack) + (IF stage = "start" THEN 1 ELSE 0)
  BY DEF Ahead
<1>8. Ahead' = (Count + 1) * Cardinality(Objects \ seen') + Cardinality(Pending(stack')) + Len(stack') + 0
  BY DEF Ahead
<1>9. CASE stack' = callers /\ seen' = seen
  <2>1. Cardinality(Pending(stack')) = Q /\ Len(stack') = Len(stack) /\ Cardinality(Objects \ seen') = u
        /\ Cardinality(seen') = k
    BY <1>9 DEF Counted
  <2> HIDE DEF P, Q, k, u
  <2>2. Ahead' = (Count + 1) * u + Q + Len(stack) + 0
    BY <1>8, <2>1
  <2>3. (Count + 1) * u \in Nat
    BY <1>1
  <2>4. Ahead' < Ahead
    BY <1>0, <1>2, <1>6, <1>7, <2>2, <2>3
  <2> QED  BY <1>4, <1>5, <1>6, <1>0, <1>3, <1>9, <2>1, <2>4 DEF BoundInv, Closer
<1>10. ASSUME NEW o \in Objects \ seen, NEW f \in Frame, f.depth = Len(stack), f.depth < MaxTreeDepth,
              stack' = <<f>> \o callers, seen' = seen \cup {o}
       PROVE  Closer
  <2>1. Ladder(callers) /\ Len(callers) = Len(stack)
    BY DEF Counted
  <2>2. Len(stack') = Len(stack) + 1
    BY <1>10, <2>1, LadderStep
  <2> DEFINE c == Cardinality(f.todo)
  <2>3. c \in Nat /\ c <= Count /\ Cardinality(Pending(stack')) = Q + c
    BY <1>10, <2>1, PendingOfOneMore
  <2>4. Cardinality(seen') = k + 1 /\ Cardinality(Objects \ seen') = u - 1 /\ u \in Nat /\ u - 1 \in Nat
    <3>1. k + 1 <= Count /\ Cardinality(seen \cup {o}) = k + 1 /\ Cardinality(Objects \ (seen \cup {o})) = u - 1
      BY <1>1
    <3>2. u \in Nat /\ u - 1 \in Nat
      BY <1>1, <3>1
    <3> QED  BY <1>10, <3>1, <3>2
  <2> HIDE DEF P, Q, k, u, c
  <2>5. Ahead' = (Count + 1) * (u - 1) + (Q + c) + (Len(stack) + 1) + 0
    BY <1>8, <2>2, <2>3, <2>4
  <2>6. (Count + 1) * u \in Nat /\ (Count + 1) * (u - 1) = (Count + 1) * u - (Count + 1)
    BY <1>1, <2>4
  <2>7. Ahead' < Ahead
    BY <1>0, <1>1, <1>2, <1>6, <1>7, <2>3, <2>5, <2>6
  <2>8. Count * (k + 1) = Count * k + Count /\ Count * k \in Nat
    BY <1>1
  <2>9. Len(nodes') + (Q + c) <= 1 + Count * (k + 1)
    BY <1>0, <1>1, <1>2, <1>4, <1>6, <2>3, <2>8
  <2>10. seen' \subseteq Objects /\ Len(stack') <= MaxTreeDepth
    BY <1>0, <1>10, <2>2, BoundsAssumption DEF BoundInv
  <2> QED  BY <1>0, <1>5, <2>2, <2>3, <2>4, <2>7, <2>9, <2>10 DEF Closer
<1>11. \/ stack' = callers /\ seen' = seen
       \/ \E o \in Objects \ seen, f \in Frame :
            /\ f.depth = Len(stack) /\ f.depth < MaxTreeDepth
            /\ stack' = <<f>> \o callers /\ seen' = seen \cup {o}
  BY DEF Counted
<1> QED  BY <1>9, <1>10, <1>11

\* treeNode for an object that was read.
LEMMA VisitIsCounted ==
  ASSUME BoundInv, NEW o \in Objects, NEW callers, Ladder(callers), Len(callers) = Len(stack),
         Visit(o, Len(stack), callers), nodes = <<>> <=> stage = "start",
         IF nodes = <<>> THEN callers = <<>> /\ stack = <<>>
         ELSE Cardinality(Pending(callers)) = Cardinality(Pending(stack)) - 1
  PROVE  /\ Counted([obj |-> o, depth |-> Len(stack), ready |-> ready[o], found |-> TRUE], callers)
         /\ nodes = <<>> => Len(stack') > 0
<1> DEFINE n == [obj |-> o, depth |-> Len(stack), ready |-> ready[o], found |-> TRUE]
<1>1. Len(stack) \in Nat /\ n.depth = Len(stack) /\ nodes' = Append(nodes, n)
  BY LenProperties DEF BoundInv, TreeInv, TreeTyped, Ladder, Visit
<1>2. CASE Cut(o, Len(stack))
  <2>1. stack' = callers /\ seen' = seen
    BY <1>2 DEF Visit
  <2>2. nodes # <<>>
    <3> SUFFICES ASSUME nodes = <<>>  PROVE FALSE
      OBVIOUS
    <3>1. Len(stack) = 0 /\ seen = {}
      BY EmptySeq DEF BoundInv
    <3> QED  BY <1>2, <3>1, BoundsAssumption DEF Cut
  <2> QED  BY <1>1, <2>1, <2>2 DEF Counted
<1>3. CASE ~Cut(o, Len(stack))
  <2> DEFINE f == [depth |-> Len(stack), todo |-> refs[o]]
  <2>1. stack' = <<f>> \o callers /\ seen' = seen \cup {o} /\ o \notin seen /\ ~(Len(stack) >= MaxTreeDepth)
    BY <1>3 DEF Visit, Cut
  <2>2. f \in Frame /\ f.depth = Len(stack) /\ f.depth < MaxTreeDepth
    BY <1>1, <2>1, BoundsAssumption DEF Frame, BoundInv, TreeInv, TreeTyped
  <2> HIDE DEF f, n
  <2>3. Len(stack') = Len(stack) + 1
    BY <2>1, <2>2, LadderStep
  <2>4. Counted(n, callers)
    BY <1>1, <2>1, <2>2 DEF Counted
  <2> QED  BY <1>1, <2>3, <2>4 DEF n
<1> QED  BY <1>2, <1>3

LEMMA BoundGoesOn ==
  ASSUME BoundInv, TreeNext \/ Resting
  PROVE  BoundInv' /\ (Walk => Ahead' < Ahead) /\ (~Walk => Ahead' = Ahead)
<1>0. TreeInv'
  BY TreeGoesOn DEF BoundInv
<1>1. nodes = <<>> <=> stage = "start" \/ (stack = <<>> /\ nodes = <<>>)
  BY DEF BoundInv, TreeInv
<1>2. CASE ReadRoot
  <2>1. nodes = <<>> /\ stack = <<>> /\ Len(stack) = 0 /\ stage = "start" /\ stage' = "walking" /\ Visit(Root, 0, <<>>)
    BY <1>2, EmptySeq DEF ReadRoot, BoundInv, TreeInv
  <2>2. Ladder(<<>>) /\ Root \in Objects
    BY ObjectsAssumption DEF Ladder
  <2> DEFINE n == [obj |-> Root, depth |-> Len(stack), ready |-> ready[Root], found |-> TRUE]
  <2>3. Counted(n, <<>>) /\ Len(stack') > 0
    BY <2>1, <2>2, VisitIsCounted
  <2> HIDE DEF n
  <2>4. Closer
    BY <2>1, <2>3, CountedStep
  <2>5. stack' # <<>>
    BY <2>3, EmptySeq
  <2> QED  BY <1>0, <1>2, <2>1, <2>4, <2>5 DEF BoundInv, WalkIsNotStuck, Closer, Walk
<1>3. CASE FollowReference
  <2>1. Following /\ nodes # <<>> /\ stage = "walking" /\ stage' = "walking"
    BY <1>3 DEF FollowReference, Following, BoundInv, TreeInv
  <2>2. /\ Ladder(Popped) /\ Len(Popped) = Len(stack) /\ Next1 \in Objects
        /\ Head(stack).depth + 1 = Len(stack)
        /\ Cardinality(Pending(Popped)) = Cardinality(Pending(stack)) - 1
    BY <2>1, PoppedIsLadder, PendingIsPopped DEF BoundInv
  <2>3. Visit(Next1, Len(stack), Popped)
    BY <1>3, <2>2 DEF FollowReference
  <2> DEFINE n == [obj |-> Next1, depth |-> Len(stack), ready |-> ready[Next1], found |-> TRUE]
  <2>4. Counted(n, Popped)
    BY <2>1, <2>2, <2>3, VisitIsCounted
  <2> HIDE DEF n
  <2>5. Closer
    BY <2>1, <2>4, CountedStep
  <2>6. stack' # <<>>
    <3>1. stack # <<>> /\ Len(stack) \in Nat \ {0}
      BY <2>1, LadderTop DEF Following, BoundInv, TreeInv, TreeTyped
    <3> QED  BY <2>5, <3>1, EmptySeq DEF Closer
  <2> QED  BY <1>0, <1>3, <2>1, <2>5, <2>6 DEF BoundInv, WalkIsNotStuck, Closer, Walk
<1>4. CASE ReferenceFails
  <2>1. Following /\ nodes # <<>> /\ stage = "walking" /\ stage' = "walking"
    BY <1>4 DEF ReferenceFails, Following, BoundInv, TreeInv
  <2>2. /\ Ladder(Popped) /\ Len(Popped) = Len(stack) /\ Next1 \in Objects
        /\ Head(stack).depth + 1 = Len(stack)
        /\ Cardinality(Pending(Popped)) = Cardinality(Pending(stack)) - 1
    BY <2>1, PoppedIsLadder, PendingIsPopped DEF BoundInv
  <2> DEFINE n == [obj |-> Next1, depth |-> Head(stack).depth + 1, ready |-> Absent, found |-> FALSE]
  <2>3. n.depth = Len(stack) /\ nodes' = Append(nodes, n) /\ stack' = Popped /\ seen' = seen
    BY <1>4, <2>2 DEF ReferenceFails
  <2> HIDE DEF n
  <2>4. Counted(n, Popped)
    BY <2>1, <2>2, <2>3 DEF Counted
  <2>5. Closer
    BY <2>1, <2>4, CountedStep
  <2>6. stack' # <<>>
    <3>1. stack # <<>> /\ Len(stack) \in Nat \ {0}
      BY <2>1, LadderTop DEF Following, BoundInv, TreeInv, TreeTyped
    <3> QED  BY <2>5, <3>1, EmptySeq DEF Closer
  <2> QED  BY <1>0, <1>4, <2>1, <2>5, <2>6 DEF BoundInv, WalkIsNotStuck, Closer, Walk
<1>5. CASE ReturnNode
  <2>1. stack # <<>> /\ Head(stack).todo = {} /\ stack' = Tail(stack) /\ UNCHANGED <<nodes, seen>>
        /\ stage = "walking" /\ stage' = IF stack' = <<>> THEN "walked" ELSE "walking"
    BY <1>5 DEF ReturnNode
  <2>2. Ladder(stack) /\ Len(stack) \in Nat \ {0} /\ Len(stack') = Len(stack) - 1 /\ Ladder(stack')
    BY <2>1, LadderTop DEF BoundInv, TreeInv, TreeTyped
  <2>3. Cardinality(Pending(stack)) = Cardinality(Pending(stack')) + Cardinality({})
    BY <2>1, <2>2, PendingOnTop
  <2>4. Cardinality(Pending(stack')) = Cardinality(Pending(stack)) /\ Cardinality(Pending(stack)) \in Nat
    BY <2>2, <2>3, PendingIsFinite, FS_EmptySet
  <2>5. Count \in Nat /\ Cardinality(Objects \ seen) \in Nat
    BY SeenIsCounted DEF BoundInv
  <2>6. (Count + 1) * Cardinality(Objects \ seen) \in Nat
    BY <2>5
  <2>7. Ahead = (Count + 1) * Cardinality(Objects \ seen) + Cardinality(Pending(stack)) + Len(stack) + 0
    BY <2>1 DEF Ahead
  <2>8. Ahead' = (Count + 1) * Cardinality(Objects \ seen) + Cardinality(Pending(stack)) + (Len(stack) - 1) + 0
    BY <2>1, <2>2, <2>4 DEF Ahead
  <2>9. Ahead' < Ahead
    BY <2>2, <2>4, <2>6, <2>7, <2>8
  <2>10. WalkIsNotStuck' /\ stage' # "start"
    BY <2>1 DEF WalkIsNotStuck
  <2>11. Len(stack') <= MaxTreeDepth
    BY <2>2, BoundsAssumption DEF BoundInv
  <2>12. Len(nodes') + Cardinality(Pending(stack')) <= 1 + Count * Cardinality(seen')
    BY <2>1, <2>4 DEF BoundInv
  <2> QED  BY <1>0, <1>5, <2>1, <2>9, <2>10, <2>11, <2>12 DEF BoundInv, Walk
<1>6. CASE ReadRootFails
  <2>1. UNCHANGED <<nodes, stack, seen>> /\ stage = "start" /\ stage' = "failed"
    BY <1>6 DEF ReadRootFails
  <2>2. Ladder(stack) /\ Len(stack) \in Nat /\ Cardinality(Pending(stack)) \in Nat
    BY PendingIsFinite, LenProperties DEF BoundInv, TreeInv, TreeTyped, Ladder
  <2>3. Count \in Nat /\ Cardinality(Objects \ seen) \in Nat
    BY SeenIsCounted DEF BoundInv
  <2>4. (Count + 1) * Cardinality(Objects \ seen) \in Nat
    BY <2>3
  <2>5. Ahead = (Count + 1) * Cardinality(Objects \ seen) + Cardinality(Pending(stack)) + Len(stack) + 1
    BY <2>1 DEF Ahead
  <2>6. Ahead' = (Count + 1) * Cardinality(Objects \ seen) + Cardinality(Pending(stack)) + Len(stack) + 0
    BY <2>1 DEF Ahead
  <2>7. Ahead' < Ahead
    BY <2>2, <2>4, <2>5, <2>6
  <2> QED  BY <1>0, <1>6, <2>1, <2>7 DEF BoundInv, WalkIsNotStuck, Walk
<1>7. ASSUME ~Walk  PROVE BoundInv' /\ Ahead' = Ahead
  <2>1. UNCHANGED <<nodes, stack, seen>> /\ (stage' = stage \/ (stage \notin Early /\ stage' \notin Early))
    BY <1>7 DEF TreeNext, ServerChanges, walk, Resting
  <2>2. stage' = "start" <=> stage = "start"
    BY <2>1 DEF Early
  <2>3. Ahead' = Ahead
    BY <2>1, <2>2 DEF Ahead
  <2>4. WalkIsNotStuck'
    BY <2>1 DEF BoundInv, WalkIsNotStuck, Early
  <2> QED  BY <1>0, <2>1, <2>2, <2>3, <2>4 DEF BoundInv
<1>8. ASSUME Walk  PROVE BoundInv' /\ Ahead' < Ahead
  BY <1>2, <1>3, <1>4, <1>5, <1>6, <1>8 DEF Walk
<1> QED  BY <1>7, <1>8

LEMMA BoundBegins == TreeInit => BoundInv
<1> SUFFICES ASSUME TreeInit  PROVE BoundInv
  OBVIOUS
<1>1. TreeInv /\ stage = "start" /\ nodes = <<>> /\ stack = <<>> /\ seen = {}
  BY Begins DEF TreeInit
<1>2. Pending(<<>>) = {} /\ Len(<<>>) = 0 /\ Cardinality({}) = 0 /\ Count \in Nat
  BY ObjectsAssumption, FS_EmptySet, FS_CardinalityType DEF Pending, Count
<1>3. Len(nodes) + Cardinality(Pending(stack)) <= 1 + Count * Cardinality(seen)
  <2>1. Len(nodes) = 0
    BY <1>1, <1>2
  <2>2. Cardinality(Pending(stack)) = 0 /\ Cardinality(seen) = 0
    BY <1>1, <1>2, Zenon
  <2> QED  BY <1>2, <2>1, <2>2
<1>4. Len(stack) <= MaxTreeDepth /\ \A i \in 1..Len(nodes) : nodes[i].depth <= MaxTreeDepth
  BY <1>1, <1>2, BoundsAssumption
<1> QED  BY <1>1, <1>3, <1>4 DEF BoundInv, WalkIsNotStuck

LEMMA BoundMeans == BoundInv => WalkIsBounded /\ WalkIsNotStuck /\ Ahead \in Nat
<1> SUFFICES ASSUME BoundInv  PROVE WalkIsBounded /\ WalkIsNotStuck /\ Ahead \in Nat
  OBVIOUS
<1>1. Count \in Nat /\ Cardinality(seen) \in Nat /\ Cardinality(seen) <= Count /\ Cardinality(Objects \ seen) \in Nat
  BY SeenIsCounted DEF BoundInv
<1>2. Cardinality(Pending(stack)) \in Nat /\ Len(stack) \in Nat /\ Len(nodes) \in Nat /\ DOMAIN nodes = 1..Len(nodes)
  BY PendingIsFinite, LenProperties DEF BoundInv, TreeInv, TreeTyped, Ladder
<1>3. Count * Cardinality(seen) <= Count * Count /\ Count * Cardinality(seen) \in Nat /\ Count * Count \in Nat
  BY <1>1
<1>4. Len(nodes) <= 1 + Count * Count
  BY <1>2, <1>3 DEF BoundInv
<1>5. (Count + 1) * Cardinality(Objects \ seen) \in Nat
  BY <1>1
<1>6. Ahead \in Nat
  BY <1>2, <1>5 DEF Ahead
<1> QED  BY <1>2, <1>4, <1>6 DEF BoundInv, WalkIsBounded

\* However many objects there are and however they refer to each other, and
\* whatever changes meanwhile, a walk makes a bounded number of Gets and no
\* node is below maxTreeDepth (tree.go:12-20, 59-63).
THEOREM WalksAreBounded == Spec => [](WalkIsBounded /\ WalkIsNotStuck)
<1>1. Init => BoundInv
  BY BoundBegins DEF Init
<1>2. BoundInv /\ [Next]_vars => BoundInv'
  BY BoundGoesOn, DiagnosisWalks
<1> QED  BY <1>1, <1>2, BoundMeans, PTL DEF Spec

\* Every Get and return of a walk takes it closer to its end, by a measure that
\* is a natural number and that nobody else can raise; and as long as it goes
\* on it has a step to make (tree.go:47-102).
THEOREM WalksGoDown == Spec => WalkGoesDown /\ [](Ahead \in Nat)
<1>1. Init => BoundInv
  BY BoundBegins DEF Init
<1>2. BoundInv /\ [Next]_vars => BoundInv' /\ [(Walk => Ahead' < Ahead) /\ (~Walk => Ahead' = Ahead)]_treeVars
  BY BoundGoesOn, DiagnosisWalks
<1> QED  BY <1>1, <1>2, BoundMeans, PTL DEF Spec, WalkGoesDown

\* The same of the walk of crossplane_impact.
THEOREM ImpactWalksAreBounded == ImpactSpec => [](WalkIsBounded /\ WalkIsNotStuck) /\ WalkGoesDown
<1>1. ImpactInit => BoundInv
  BY BoundBegins DEF ImpactInit
<1>2. BoundInv /\ [ImpactNext]_impactVars
        => BoundInv' /\ [(Walk => Ahead' < Ahead) /\ (~Walk => Ahead' = Ahead)]_treeVars
  BY BoundGoesOn, ImpactWalks
<1> QED  BY <1>1, <1>2, BoundMeans, PTL DEF ImpactSpec, WalkGoesDown
==============================================================================
