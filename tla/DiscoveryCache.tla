---------------------------- MODULE DiscoveryCache ----------------------------
(***************************************************************************)
(* The two discovery caches of a Client (pkg/crossplane/client.go):        *)
(* APIResources and RESTMapper look for a fresh snapshot under the mutex,  *)
(* discover without it when there is none, and store what they found under *)
(* it again.  Tool calls do this concurrently, and nothing orders their    *)
(* stores: a snapshot may overwrite one that was begun later.              *)
(*                                                                         *)
(* Discovery is external and not atomic: it asks one API group after the   *)
(* other while providers are installed and removed.  It may also fail, or  *)
(* return only part of the surface with an error.                          *)
(*                                                                         *)
(* Time is kept as ages, each saturating where nothing depends on it any   *)
(* more, so that the model is finite without bounding how long it runs.    *)
(***************************************************************************)
EXTENDS Integers

CONSTANTS
  Callers,     (* goroutines that serve tool calls                           *)
  Caches,      (* "apis" and "mapper"                                        *)
  APIs,        (* the resource types the API server may serve                *)
  TTL,         (* discoveryTTL                                               *)
  MaxFetch     (* longest time from a cache miss to the store that follows,  *)
               (* which the HTTP client's own timeout bounds                 *)

ASSUME TimesAssumption == TTL \in Nat \ {0} /\ MaxFetch \in Nat

VARIABLES
  surface,     (* the resource types served now                              *)
  since,       (* how long each has been served, or not served               *)
  cache,       (* c.apis, c.apisAt and c.mapper, c.mapperAt                  *)
  caller       (* what each goroutine is doing                               *)

vars == <<surface, since, cache, caller>>

Cap == TTL + MaxFetch + 1
SaturatingInc(n, top) == IF n < top THEN n + 1 ELSE top

(***************************************************************************)
(* A cache entry is the snapshot, whether discovery reported an error with *)
(* it, the time since it was stored (apisAt), and the time its discovery   *)
(* had taken by then, which the code does not record.                      *)
(***************************************************************************)
Empty == [full |-> FALSE, snap |-> {}, partial |-> FALSE, age |-> 0, lag |-> 0]

\* Mutated form: a snapshot is good for ever.
FreshForever(entry) == entry.full

Fresh(entry) == entry.full /\ entry.age < TTL

(***************************************************************************)
(* While a goroutine discovers, "may" are the types served at some moment  *)
(* since it began and "must" those served all the time: what it gets lies  *)
(* between the two.                                                        *)
(***************************************************************************)
Idle == [pc |-> "idle", of |-> "none", took |-> 0, may |-> {}, must |-> {}, snap |-> {}, partial |-> FALSE]

Init ==
  /\ surface \in SUBSET APIs
  /\ since = [a \in APIs |-> Cap]
  /\ cache = [x \in Caches |-> Empty]
  /\ caller = [c \in Callers |-> Idle]

\* Mutated form: a hit renews the time stamp.
AskTouching(c, x) ==
  /\ caller[c].pc = "idle"
  /\ caller' = [caller EXCEPT ![c] =
       IF Fresh(cache[x])
         THEN [Idle EXCEPT !.pc = "answered", !.of = x, !.snap = cache[x].snap, !.partial = cache[x].partial]
         ELSE [Idle EXCEPT !.pc = "discovering", !.of = x, !.may = surface, !.must = surface]]
  /\ cache' = [cache EXCEPT ![x].age = IF Fresh(cache[x]) THEN 0 ELSE @]
  /\ UNCHANGED <<surface, since>>

\* Lock, look, unlock: a hit is the answer, a miss goes on to discovery.
Ask(c, x) ==
  /\ caller[c].pc = "idle"
  /\ caller' = [caller EXCEPT ![c] =
       IF Fresh(cache[x])
         THEN [Idle EXCEPT !.pc = "answered", !.of = x, !.snap = cache[x].snap, !.partial = cache[x].partial]
         ELSE [Idle EXCEPT !.pc = "discovering", !.of = x, !.may = surface, !.must = surface]]
  /\ UNCHANGED <<surface, since, cache>>

\* Discovery answers in full, or with some groups and an error.
Discover(c) ==
  /\ caller[c].pc = "discovering"
  /\ \E snap \in SUBSET caller[c].may, partial \in BOOLEAN :
       /\ ~partial => caller[c].must \subseteq snap
       /\ caller' = [caller EXCEPT ![c] =
            [@ EXCEPT !.pc = "storing", !.snap = snap, !.partial = partial, !.may = {}, !.must = {}]]
  /\ UNCHANGED <<surface, since, cache>>

\* Discovery fails without any group: an error, and the cache stays as it is.
DiscoverFails(c) ==
  /\ caller[c].pc = "discovering"
  /\ caller' = [caller EXCEPT ![c] = [Idle EXCEPT !.pc = "failed"]]
  /\ UNCHANGED <<surface, since, cache>>

\* Lock, store, unlock, and answer with what was stored.
Store(c) ==
  /\ caller[c].pc = "storing"
  /\ cache' = [cache EXCEPT ![caller[c].of] =
       [full |-> TRUE, snap |-> caller[c].snap, partial |-> caller[c].partial, age |-> 0, lag |-> caller[c].took]]
  /\ caller' = [caller EXCEPT ![c].pc = "answered"]
  /\ UNCHANGED <<surface, since>>

\* The tool call is over.
Finish(c) ==
  /\ caller[c].pc \in {"answered", "failed"}
  /\ caller' = [caller EXCEPT ![c] = Idle]
  /\ UNCHANGED <<surface, since, cache>>

\* A provider brings a resource type, or takes it away.
SurfaceChanges(a) ==
  /\ surface' = IF a \in surface THEN surface \ {a} ELSE surface \cup {a}
  /\ since' = [since EXCEPT ![a] = 0]
  /\ caller' = [c \in Callers |->
       IF caller[c].pc # "discovering" THEN caller[c]
       ELSE IF a \in surface THEN [caller[c] EXCEPT !.must = @ \ {a}]
       ELSE [caller[c] EXCEPT !.may = @ \cup {a}]]
  /\ UNCHANGED cache

Busy(c) == caller[c].pc \in {"discovering", "storing"}

\* Time passes, unless a discovery is due to be over.
Tick ==
  /\ \A c \in Callers : Busy(c) => caller[c].took < MaxFetch
  /\ since' = [a \in APIs |-> SaturatingInc(since[a], Cap)]
  /\ cache' = [x \in Caches |-> [cache[x] EXCEPT !.age = SaturatingInc(@, TTL)]]
  /\ caller' = [c \in Callers |-> IF Busy(c) THEN [caller[c] EXCEPT !.took = @ + 1] ELSE caller[c]]
  /\ UNCHANGED surface

Next ==
  \/ \E c \in Callers :
       \/ \E x \in Caches : Ask(c, x)
       \/ Discover(c)
       \/ DiscoverFails(c)
       \/ Store(c)
       \/ Finish(c)
  \/ \E a \in APIs : SurfaceChanges(a)
  \/ Tick

Spec == Init /\ [][Next]_vars
------------------------------------------------------------------------------
Entries == [full : BOOLEAN, snap : SUBSET APIs, partial : BOOLEAN, age : 0..TTL, lag : 0..MaxFetch]
CallerStates ==
  [pc : {"idle", "discovering", "storing", "answered", "failed"}, of : Caches \cup {"none"},
   took : 0..MaxFetch, may : SUBSET APIs, must : SUBSET APIs, snap : SUBSET APIs, partial : BOOLEAN]

\* Every variable stays within its type.
TypeOK ==
  /\ surface \in SUBSET APIs
  /\ since \in [APIs -> 0..Cap]
  /\ cache \in [Caches -> Entries]
  /\ caller \in [Callers -> CallerStates]
  /\ \A c \in Callers : Busy(c) => caller[c].of \in Caches

(***************************************************************************)
(* A snapshot that is at most t old shows no type that has been gone for   *)
(* longer, and unless it is partial misses none that has been served for   *)
(* longer.                                                                 *)
(***************************************************************************)
ShowsOnly(snap, t) == \A a \in snap : a \in surface \/ since[a] <= t
ShowsAll(snap, t) == \A a \in APIs \ snap : a \notin surface \/ since[a] <= t

\* What is cached, being discovered or about to be stored is as old as the
\* clocks say, whatever the order concurrent discoveries are stored in
\* (client.go:184-238, 309-328).
SnapshotsAge ==
  /\ \A x \in Caches : Fresh(cache[x]) =>
       /\ ShowsOnly(cache[x].snap, cache[x].age + cache[x].lag)
       /\ ~cache[x].partial => ShowsAll(cache[x].snap, cache[x].age + cache[x].lag)
  /\ \A c \in Callers : caller[c].pc = "discovering" =>
       /\ ShowsOnly(caller[c].may, caller[c].took)
       /\ ShowsAll(caller[c].must, caller[c].took)
  /\ \A c \in Callers : caller[c].pc = "storing" =>
       /\ ShowsOnly(caller[c].snap, caller[c].took)
       /\ ~caller[c].partial => ShowsAll(caller[c].snap, caller[c].took)

\* "Installing a provider rewrites the API surface, so we refresh often enough
\* to notice" (client.go:39-42): at the moment a caller gets its answer, a
\* type removed, or installed, longer than discoveryTTL and one discovery ago
\* is no longer in it, or is in it; a partial answer may miss some.
AnswersAreRecent ==
  [][\A c \in Callers : caller'[c].pc = "answered" /\ caller[c].pc # "answered" =>
       /\ ShowsOnly(caller'[c].snap, TTL + MaxFetch)
       /\ ~caller'[c].partial => ShowsAll(caller'[c].snap, TTL + MaxFetch)]_vars
==============================================================================
