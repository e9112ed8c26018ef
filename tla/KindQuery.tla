------------------------------ MODULE KindQuery ------------------------------
(***************************************************************************)
(* One call of Client.Query (pkg/crossplane/query.go): the caller       *)
(* starts one goroutine per resource type, a buffered channel bounds how   *)
(* many of them list at a time, a mutex guards the two slices they append  *)
(* to, and a WaitGroup tells the caller when all of them are through.      *)
(*                                                                         *)
(* An append is a read of the shared slice followed by a write, in two     *)
(* steps, so that what the mutex is for can be lost.  The API server is    *)
(* external: other clients change what it holds between two lists, and a   *)
(* list may never be answered until the call's deadline passes.            *)
(*                                                                         *)
(* Objects are <<kind, name>> pairs and a warning is the kind it is about: *)
(* the sort of the two slices and the wording are left out.                *)
(***************************************************************************)
EXTENDS Naturals, FiniteSets

CONSTANTS
  Kinds,            (* the resource types discovery can offer           *)
  Objs,             (* names of the objects a kind can hold             *)
  ListConcurrency   (* listConcurrency, 12 in the code                  *)

ASSUME KindsAssumption == IsFiniteSet(Kinds)
ASSUME ConcurrencyAssumption == ListConcurrency \in Nat \ {0}

Nobody == "nobody"

ASSUME NobodyAssumption == Nobody \notin Kinds

VARIABLES
  caller,      (* where the calling goroutine is                        *)
  kinds,       (* the resource types in scope                           *)
  todo,        (* those whose goroutine is not started yet              *)
  pc,          (* where each kind's goroutine is                        *)
  outcome,     (* list, listErr: what each kind's List returned         *)
  slices,      (* the captured variables objects and warnings           *)
  seen,        (* the slices as a goroutine read them for its append    *)
  mu,          (* the goroutine that holds the mutex, or Nobody         *)
  sem,         (* tokens in the channel sem                             *)
  wg,          (* the WaitGroup's counter                               *)
  cancelled,   (* the call's context is done                            *)
  content,     (* the API server: the objects of each kind              *)
  served       (* the API server: the kinds it still serves             *)

server == <<content, served>>
vars == <<caller, kinds, todo, pc, outcome, slices, seen, mu, sem, wg, cancelled, server>>

Sweep == INSTANCE KindSweep WITH
  limit <- 0,
  phase <- CASE caller \in {"spawning", "waiting"} -> "sweeping"
             [] caller = "returned" -> "answered"
             [] OTHER -> caller,
  scope <- kinds,
  tally <- outcome,
  answer <- IF caller = "returned" THEN slices ELSE [objects |-> {}, warnings |-> {}]

(***************************************************************************)
(* The goroutine of a kind goes through these places.  It holds a token    *)
(* of sem while it is one of Holders, and has been added to the WaitGroup  *)
(* but is not through while it is one of Runners.                          *)
(***************************************************************************)
Places == {"idle", "acquiring", "listing", "locking", "appending", "unlocked", "released", "done"}
Holders == {k \in Kinds : pc[k] \in {"listing", "locking", "appending", "unlocked"}}
Runners == {k \in Kinds : pc[k] \notin {"idle", "done"}}
Settled(k) == pc[k] \in {"locking", "appending", "unlocked", "released", "done"}
Appended(k) == pc[k] \in {"unlocked", "released", "done"}

Move(k, from, to) ==
  /\ pc[k] = from
  /\ pc' = [pc EXCEPT ![k] = to]

------------------------------------------------------------------------------
Init ==
  /\ caller = "resolving"
  /\ kinds = {}
  /\ todo = {}
  /\ pc = [k \in Kinds |-> "idle"]
  /\ outcome = [k \in Kinds |-> Sweep!Pending]
  /\ slices = Sweep!NoAnswer
  /\ seen = [k \in Kinds |-> Sweep!NoAnswer]
  /\ mu = Nobody
  /\ sem = 0
  /\ wg = 0
  /\ cancelled = FALSE
  /\ served \in SUBSET Kinds
  /\ content \in [Kinds -> SUBSET Objs]
  /\ \A k \in Kinds \ served : content[k] = {}

(***************************************************************************)
(* The calling goroutine.                                                  *)
(***************************************************************************)

\* kindsFor offers the kinds in scope, or its error is the answer.
KindsFor ==
  /\ caller = "resolving"
  /\ \/ /\ caller' = "spawning"
        /\ kinds' \in SUBSET Kinds
        /\ todo' = kinds'
     \/ /\ caller' = "failed"
        /\ UNCHANGED <<kinds, todo>>
  /\ UNCHANGED <<pc, outcome, slices, seen, mu, sem, wg, cancelled, server>>

\* wg.Add(1); go func(...)
Spawn(k) ==
  /\ caller = "spawning"
  /\ k \in todo
  /\ todo' = todo \ {k}
  /\ wg' = wg + 1
  /\ Move(k, "idle", "acquiring")
  /\ UNCHANGED <<caller, kinds, outcome, slices, seen, mu, sem, cancelled, server>>

\* The loop is over: the caller blocks in wg.Wait.
SpawnedAll ==
  /\ caller = "spawning"
  /\ todo = {}
  /\ caller' = "waiting"
  /\ UNCHANGED <<kinds, todo, pc, outcome, slices, seen, mu, sem, wg, cancelled, server>>

\* Mutated form: the caller waits for the last list, not for its append.
ReturnEarly ==
  /\ caller = "waiting"
  /\ \A k \in kinds : Settled(k)
  /\ caller' = "returned"
  /\ UNCHANGED <<kinds, todo, pc, outcome, slices, seen, mu, sem, wg, cancelled, server>>

\* wg.Wait returns, and with it Query.
Return ==
  /\ caller = "waiting"
  /\ wg = 0
  /\ caller' = "returned"
  /\ UNCHANGED <<kinds, todo, pc, outcome, slices, seen, mu, sem, wg, cancelled, server>>

(***************************************************************************)
(* The goroutine of kind k.                                                *)
(***************************************************************************)

\* Mutated form: the channel has room for one token too many.
AcquireOneMore(k) ==
  /\ Move(k, "acquiring", "listing")
  /\ sem <= ListConcurrency
  /\ sem' = sem + 1
  /\ UNCHANGED <<caller, kinds, todo, outcome, slices, seen, mu, wg, cancelled, server>>

\* sem <- struct{}{} blocks while the channel is full, cancelled or not.
Acquire(k) ==
  /\ Move(k, "acquiring", "listing")
  /\ sem < ListConcurrency
  /\ sem' = sem + 1
  /\ UNCHANGED <<caller, kinds, todo, outcome, slices, seen, mu, wg, cancelled, server>>

ListReturns(k, result) ==
  /\ Move(k, "listing", "locking")
  /\ outcome' = [outcome EXCEPT ![k] = result]
  /\ UNCHANGED <<caller, kinds, todo, slices, seen, mu, sem, wg, cancelled, server>>

\* The API server answers with what it holds, or that it serves no such kind.
ListAnswered(k) ==
  /\ ~cancelled
  /\ ListReturns(k, IF k \in served THEN Sweep!Listed(content[k]) ELSE Sweep!Dropped)

\* Forbidden, unavailable, a broken connection.
ListRefused(k) ==
  /\ ~cancelled
  /\ ListReturns(k, Sweep!Warned)

\* The context's error, as soon as the context is done.
ListCancelled(k) ==
  /\ cancelled
  /\ ListReturns(k, Sweep!Warned)

\* Mutated form: append without the mutex.
LockFree(k) ==
  /\ Move(k, "locking", "appending")
  /\ mu' = k
  /\ seen' = [seen EXCEPT ![k] = slices]
  /\ UNCHANGED <<caller, kinds, todo, outcome, slices, sem, wg, cancelled, server>>

\* mu.Lock, and the read of the slice that append extends.
Lock(k) ==
  /\ Move(k, "locking", "appending")
  /\ mu = Nobody
  /\ mu' = k
  /\ seen' = [seen EXCEPT ![k] = slices]
  /\ UNCHANGED <<caller, kinds, todo, outcome, slices, sem, wg, cancelled, server>>

\* Mutated form: a kind that vanished is warned about like any other failure.
WithEveryFailure(k, s) ==
  [objects  |-> s.objects \cup ({k} \X outcome[k].items),
   warnings |-> s.warnings \cup (IF outcome[k].status \in {"warned", "gone"} THEN {k} ELSE {})]

\* The slices with what kind k contributes: its items, a warning, or nothing
\* when the kind vanished between discovery and the list.
With(k, s) ==
  [objects  |-> s.objects \cup ({k} \X outcome[k].items),
   warnings |-> s.warnings \cup (IF outcome[k].status = "warned" THEN {k} ELSE {})]

\* The write of the extended slice, and mu.Unlock.
AddResult(k) ==
  /\ Move(k, "appending", "unlocked")
  /\ slices' = With(k, seen[k])
  /\ mu' = Nobody
  /\ UNCHANGED <<caller, kinds, todo, outcome, seen, sem, wg, cancelled, server>>

\* Mutated form: the token is given back only when the list succeeded.
ReleaseOnSuccess(k) ==
  /\ Move(k, "unlocked", "released")
  /\ sem' = IF outcome[k].status = "listed" THEN sem - 1 ELSE sem
  /\ UNCHANGED <<caller, kinds, todo, outcome, slices, seen, mu, wg, cancelled, server>>

\* <-sem
Release(k) ==
  /\ Move(k, "unlocked", "released")
  /\ sem' = sem - 1
  /\ UNCHANGED <<caller, kinds, todo, outcome, slices, seen, mu, wg, cancelled, server>>

\* wg.Done()
Done(k) ==
  /\ Move(k, "released", "done")
  /\ wg' = wg - 1
  /\ UNCHANGED <<caller, kinds, todo, outcome, slices, seen, mu, sem, cancelled, server>>

(***************************************************************************)
(* The environment.                                                        *)
(***************************************************************************)

\* The deadline of the tool call passes, or the client goes away.
Cancel ==
  /\ ~cancelled
  /\ cancelled' = TRUE
  /\ UNCHANGED <<caller, kinds, todo, pc, outcome, slices, seen, mu, sem, wg, server>>

\* Another client creates or deletes objects of kind k.
ChangeObjects(k) ==
  /\ k \in served
  /\ \E items \in SUBSET Objs : content' = [content EXCEPT ![k] = items]
  /\ UNCHANGED served

\* A provider is removed, and its CRDs with it, or installed.
ChangeKinds(k) ==
  \/ /\ k \in served
     /\ served' = served \ {k}
     /\ content' = [content EXCEPT ![k] = {}]
  \/ /\ k \notin served
     /\ served' = served \cup {k}
     /\ UNCHANGED content

ServerStep ==
  /\ \E k \in Kinds : ChangeObjects(k) \/ ChangeKinds(k)
  /\ UNCHANGED <<caller, kinds, todo, pc, outcome, slices, seen, mu, sem, wg, cancelled>>

------------------------------------------------------------------------------
Goroutine(k) ==
  \/ Acquire(k)
  \/ ListAnswered(k)
  \/ ListRefused(k)
  \/ ListCancelled(k)
  \/ Lock(k)
  \/ AddResult(k)
  \/ Release(k)
  \/ Done(k)

Next ==
  \/ KindsFor
  \/ \E k \in Kinds : Spawn(k)
  \/ SpawnedAll
  \/ Return
  \/ \E k \in Kinds : Goroutine(k)
  \/ Cancel
  \/ ServerStep

Spec == Init /\ [][Next]_vars
------------------------------------------------------------------------------
SliceValues == [objects : SUBSET (Kinds \X Objs), warnings : SUBSET Kinds]

\* Every variable stays within its type.
TypeOK ==
  /\ caller \in {"resolving", "spawning", "waiting", "returned", "failed"}
  /\ kinds \in SUBSET Kinds
  /\ todo \in SUBSET kinds
  /\ pc \in [Kinds -> Places]
  /\ outcome \in [Kinds -> Sweep!Tallies]
  /\ slices \in SliceValues
  /\ seen \in [Kinds -> SliceValues]
  /\ mu \in Kinds \cup {Nobody}
  /\ sem \in Nat
  /\ wg \in Nat
  /\ cancelled \in BOOLEAN
  /\ served \in SUBSET Kinds
  /\ content \in [Kinds -> SUBSET Objs]

\* No more than listConcurrency requests are at the API server at a time
\* (query.go:14-18), whatever the order goroutines take and give tokens in.
InFlightBounded ==
  Cardinality({k \in Kinds : pc[k] = "listing"}) <= ListConcurrency

\* At every moment the shared slices hold the contribution of exactly those
\* kinds whose goroutine is past its append: no append of a concurrent
\* goroutine is lost, none happens twice (query.go:78-88).
NothingLost ==
  /\ slices.objects = {p \in Kinds \X Objs : Appended(p[1]) /\ p[2] \in outcome[p[1]].items}
  /\ slices.warnings = {k \in Kinds : Appended(k) /\ outcome[k].status = "warned"}

\* When Query returns, every kind in scope is accounted for: listed, warned
\* about, or gone; and no goroutine of the call is left to touch its result
\* (query.go:91-105).
AnswerComplete ==
  caller = "returned" =>
    /\ \A k \in kinds :
         /\ pc[k] = "done"
         /\ outcome[k] # Sweep!Pending
         /\ outcome[k].status = "warned" <=> k \in slices.warnings
         /\ \A o \in Objs : <<k, o>> \in slices.objects <=> o \in outcome[k].items
    /\ sem = 0
    /\ mu = Nobody

(***************************************************************************)
(* The bookkeeping the properties rest on, in parts; their conjunction is  *)
(* the inductive invariant of the search (Listing_proofs).                 *)
(***************************************************************************)

\* Tokens, WaitGroup and mutex agree with where the goroutines are.
TokensCounted == sem = Cardinality(Holders) /\ sem <= ListConcurrency
WaitGroupCounted == wg = Cardinality(Runners)
MutexHeld == \A k \in Kinds : pc[k] = "appending" <=> mu = k

\* What the holder of the mutex read is still what the slices hold.
ReadIsCurrent == \A k \in Kinds : pc[k] = "appending" => seen[k] = slices

\* A goroutine has an outcome from the moment its List returned.
OutcomeKnown == \A k \in Kinds : outcome[k] # Sweep!Pending <=> Settled(k)

\* Goroutines run for the kinds in scope that have been started, and the
\* caller is past its loop, or back, only when the rest agrees.
ScopeStarted ==
  /\ \A k \in Kinds : pc[k] = "idle" <=> k \notin kinds \ todo
  /\ caller \in {"resolving", "failed"} => kinds = {}
  /\ caller \in {"waiting", "returned"} => todo = {}
  /\ caller = "returned" => wg = 0

\* Semaphore, WaitGroup, mutex, outcomes and slices are in step with each
\* other after every step of every goroutine (query.go:57-91).
Bookkeeping ==
  /\ TypeOK
  /\ TokensCounted
  /\ WaitGroupCounted
  /\ MutexHeld
  /\ ReadIsCurrent
  /\ OutcomeKnown
  /\ ScopeStarted
  /\ NothingLost

(***************************************************************************)
(* What keeps a search going.  Each goroutine has so many steps to go, and *)
(* the caller has.                                                         *)
(***************************************************************************)
StepsOf(place) ==
  CASE place = "idle" -> 7
    [] place = "acquiring" -> 6
    [] place = "listing" -> 5
    [] place = "locking" -> 4
    [] place = "appending" -> 3
    [] place = "unlocked" -> 2
    [] place = "released" -> 1
    [] OTHER -> 0

CallerSteps ==
  CASE caller = "resolving" -> 3
    [] caller = "spawning" -> 2
    [] caller = "waiting" -> 1
    [] OTHER -> 0

StepsLeft == Cardinality({p \in Kinds \X (1..7) : p[2] <= StepsOf(pc[p[1]])}) + CallerSteps

\* Every step of a goroutine or of the caller brings the search closer to its
\* end, and nothing else takes it back (query.go:50-106).
QueryGoesDown ==
  [][IF Cancel \/ ServerStep THEN StepsLeft' = StepsLeft ELSE StepsLeft' < StepsLeft]_vars

\* A goroutine waits for nothing but a token, an answer or the mutex.
CanGoOn(k) ==
  /\ pc[k] = "acquiring" => sem < ListConcurrency
  /\ pc[k] = "locking" => mu = Nobody

\* The goroutines of a search never all wait for each other, in whatever order
\* they took their tokens, and the caller waits for nobody but them
\* (query.go:57-91).
NobodyIsStuck ==
  /\ Runners # {} => \E k \in Runners : CanGoOn(k)
  /\ caller = "waiting" => wg = 0 \/ Runners # {}

\* Query does what the one-goroutine search of KindSweep promises.
ImplementsSweep == Sweep!Spec
==============================================================================
