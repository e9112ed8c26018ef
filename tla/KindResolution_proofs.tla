------------------------ MODULE KindResolution_proofs ------------------------
(***************************************************************************)
(* What a caller of the discovery caches gets is recent, for any number of *)
(* goroutines, caches and resource types, any TTL and any bound on how     *)
(* long one discovery takes (DiscoveryCache).  And what a tool may         *)
(* conclude from it, for any times as well: a kind it takes for the only   *)
(* one of its name is, but for changes that are younger than the caches    *)
(* promise to notice, and a kind it does not know is no old one            *)
(* (KindResolution).                                                       *)
(***************************************************************************)
EXTENDS KindResolution, TLAPS

IInv == TypeOK /\ SnapshotsAge

(***************************************************************************)
(* What a snapshot shows stays true as the environment moves on: a change  *)
(* is recorded as recent, and a tick ages everything by the same amount.   *)
(***************************************************************************)
\* A snapshot that was right for its age is right after a resource type came
\* or went.
LEMMA ChangeKeepsSnapshots ==
  ASSUME TypeOK, NEW a \in APIs, SurfaceChanges(a), NEW snap \in SUBSET APIs, NEW t \in Nat
  PROVE  /\ ShowsOnly(snap, t) => ShowsOnly(snap, t)'
         /\ ShowsAll(snap, t) => ShowsAll(snap, t)'
<1>1. /\ since' = [since EXCEPT ![a] = 0]
      /\ since \in [APIs -> 0..Cap]
      /\ surface' = IF a \in surface THEN surface \ {a} ELSE surface \cup {a}
  BY DEF SurfaceChanges, TypeOK
<1>2. \A b \in APIs : IF b = a THEN since'[b] = 0 ELSE since'[b] = since[b] /\ (b \in surface' <=> b \in surface)
  BY <1>1
<1> QED  BY <1>2 DEF ShowsOnly, ShowsAll

\* A snapshot that was right for its age is right one unit of time later for
\* an age of one more.
LEMMA TickAgesSnapshots ==
  ASSUME TypeOK, Tick, NEW snap \in SUBSET APIs, NEW t \in Nat
  PROVE  /\ ShowsOnly(snap, t) => ShowsOnly(snap, t + 1)'
         /\ ShowsAll(snap, t) => ShowsAll(snap, t + 1)'
<1>1. /\ since' = [a \in APIs |-> SaturatingInc(since[a], Cap)]
      /\ since \in [APIs -> 0..Cap]
      /\ surface' = surface
  BY DEF Tick, TypeOK
<1>2. \A a \in APIs : since'[a] <= since[a] + 1
  BY <1>1, TimesAssumption DEF SaturatingInc, Cap
<1>3. \A a \in APIs : since'[a] \in Int /\ since[a] \in Int
  BY <1>1, TimesAssumption DEF SaturatingInc, Cap
<1> QED  BY <1>1, <1>2, <1>3 DEF ShowsOnly, ShowsAll

LEMMA IdleIsACallerState == Idle \in CallerStates
<1>1. 0 \in 0..MaxFetch  BY TimesAssumption
<1> QED  BY <1>1 DEF Idle, CallerStates

LEMMA TypeStep ==
  ASSUME TypeOK, [Next]_vars
  PROVE  TypeOK'
<1> USE DEF TypeOK
<1>1. ASSUME NEW c \in Callers, NEW x \in Caches, Ask(c, x)  PROVE TypeOK'
  <2> DEFINE hit == [Idle EXCEPT !.pc = "answered", !.of = x, !.snap = cache[x].snap, !.partial = cache[x].partial]
             miss == [Idle EXCEPT !.pc = "discovering", !.of = x, !.may = surface, !.must = surface]
  <2>1. cache[x] \in Entries  OBVIOUS
  <2>2. hit \in CallerStates
    <3>1. cache[x].snap \in SUBSET APIs /\ cache[x].partial \in BOOLEAN
      BY <2>1 DEF Entries
    <3> QED  BY <3>1, IdleIsACallerState DEF CallerStates
  <2>3. miss \in CallerStates /\ miss.of = x
    BY IdleIsACallerState DEF CallerStates
  <2>4. caller'[c] \in {hit, miss} /\ caller' = [caller EXCEPT ![c] = caller'[c]]
    BY <1>1 DEF Ask
  <2>5. \A d \in Callers : Busy(d)' => caller'[d].of \in Caches
    <3> SUFFICES ASSUME NEW d \in Callers, Busy(d)'  PROVE caller'[d].of \in Caches
      OBVIOUS
    <3>1. CASE d # c
      BY <3>1, <2>4 DEF Busy
    <3>2. CASE d = c
      BY <3>2, <2>4 DEF Idle
    <3> QED  BY <3>1, <3>2
  <2> QED  BY <1>1, <2>2, <2>3, <2>4, <2>5 DEF Ask
<1>2. ASSUME NEW c \in Callers, Discover(c)  PROVE TypeOK'
  <2>1. PICK snap \in SUBSET caller[c].may, partial \in BOOLEAN :
          caller' = [caller EXCEPT ![c] =
            [@ EXCEPT !.pc = "storing", !.snap = snap, !.partial = partial, !.may = {}, !.must = {}]]
    BY <1>2 DEF Discover
  <2>2. caller[c] \in CallerStates /\ caller[c].of \in Caches
    BY <1>2 DEF Discover, Busy
  <2>3. snap \in SUBSET APIs  BY <2>2 DEF CallerStates
  <2>4. caller' \in [Callers -> CallerStates]
    BY <2>1, <2>2, <2>3 DEF CallerStates
  <2>5. \A d \in Callers : Busy(d)' => caller'[d].of \in Caches
    BY <2>1, <2>2 DEF Busy, CallerStates
  <2> QED  BY <1>2, <2>4, <2>5 DEF Discover
<1>3. ASSUME NEW c \in Callers, DiscoverFails(c) \/ Finish(c)  PROVE TypeOK'
  <2>1. PICK p \in {"failed", "idle"} : caller' = [caller EXCEPT ![c] = [Idle EXCEPT !.pc = p]]
    BY <1>3 DEF DiscoverFails, Finish, Idle
  <2>2. [Idle EXCEPT !.pc = p] \in CallerStates
    BY IdleIsACallerState DEF CallerStates
  <2>3. \A d \in Callers : Busy(d)' => caller'[d].of \in Caches
    BY <2>1 DEF Busy, Idle
  <2> QED  BY <1>3, <2>1, <2>2, <2>3 DEF DiscoverFails, Finish
<1>4. ASSUME NEW c \in Callers, Store(c)  PROVE TypeOK'
  <2>1. caller[c] \in CallerStates /\ caller[c].of \in Caches
    BY <1>4 DEF Store, Busy
  <2>2. [full |-> TRUE, snap |-> caller[c].snap, partial |-> caller[c].partial, age |-> 0, lag |-> caller[c].took] \in Entries
    BY <2>1, TimesAssumption DEF CallerStates, Entries
  <2>3. caller' \in [Callers -> CallerStates]
    BY <1>4, <2>1 DEF Store, CallerStates
  <2>4. \A d \in Callers : Busy(d)' => caller'[d].of \in Caches
    BY <1>4, <2>1 DEF Store, Busy, CallerStates
  <2> QED  BY <1>4, <2>2, <2>3, <2>4 DEF Store
<1>5. ASSUME NEW a \in APIs, SurfaceChanges(a)  PROVE TypeOK'
  <2>1. \A c \in Callers :
          caller'[c] \in {caller[c], [caller[c] EXCEPT !.must = @ \ {a}], [caller[c] EXCEPT !.may = @ \cup {a}]}
    BY <1>5 DEF SurfaceChanges
  <2>2. \A c \in Callers : caller'[c] \in CallerStates /\ caller'[c].pc = caller[c].pc /\ caller'[c].of = caller[c].of
    <3> SUFFICES ASSUME NEW c \in Callers
                 PROVE  caller'[c] \in CallerStates /\ caller'[c].pc = caller[c].pc /\ caller'[c].of = caller[c].of
      OBVIOUS
    <3>1. caller[c] \in CallerStates  OBVIOUS
    <3> QED  BY <2>1, <3>1 DEF CallerStates
  <2>3. caller' \in [Callers -> CallerStates]
    BY <1>5, <2>2 DEF SurfaceChanges
  <2>4. \A d \in Callers : Busy(d)' => caller'[d].of \in Caches
    BY <2>2 DEF Busy
  <2>5. surface' \in SUBSET APIs /\ since' \in [APIs -> 0..Cap]
    BY <1>5, TimesAssumption DEF SurfaceChanges, Cap
  <2> QED  BY <1>5, <2>3, <2>4, <2>5 DEF SurfaceChanges
<1>6. CASE Tick
  <2>1. since' \in [APIs -> 0..Cap]
    BY <1>6, TimesAssumption DEF Tick, SaturatingInc, Cap
  <2>2. cache' \in [Caches -> Entries]
    <3>1. \A x \in Caches : [cache[x] EXCEPT !.age = SaturatingInc(@, TTL)] \in Entries
      <4> SUFFICES ASSUME NEW x \in Caches  PROVE [cache[x] EXCEPT !.age = SaturatingInc(@, TTL)] \in Entries
        OBVIOUS
      <4>1. cache[x] \in Entries  OBVIOUS
      <4> QED  BY <4>1, TimesAssumption DEF Entries, SaturatingInc
    <3> QED  BY <1>6, <3>1 DEF Tick
  <2>3. \A c \in Callers : caller'[c] \in CallerStates /\ caller'[c].pc = caller[c].pc /\ caller'[c].of = caller[c].of
    <3> SUFFICES ASSUME NEW c \in Callers
                 PROVE  caller'[c] \in CallerStates /\ caller'[c].pc = caller[c].pc /\ caller'[c].of = caller[c].of
      OBVIOUS
    <3>1. caller[c] \in CallerStates  OBVIOUS
    <3>2. caller'[c] = IF Busy(c) THEN [caller[c] EXCEPT !.took = @ + 1] ELSE caller[c]
      BY <1>6 DEF Tick
    <3>3. Busy(c) => caller[c].took < MaxFetch  BY <1>6 DEF Tick
    <3> QED  BY <3>1, <3>2, <3>3, TimesAssumption DEF CallerStates
  <2>4. caller' \in [Callers -> CallerStates]
    BY <1>6, <2>3 DEF Tick
  <2>5. \A d \in Callers : Busy(d)' => caller'[d].of \in Caches
    BY <2>3 DEF Busy
  <2> QED  BY <1>6, <2>1, <2>2, <2>4, <2>5 DEF Tick
<1>7. CASE UNCHANGED vars
  BY <1>7 DEF vars, Busy
<1> QED  BY <1>1, <1>2, <1>3, <1>4, <1>5, <1>6, <1>7 DEF Next

LEMMA AgeStep ==
  ASSUME TypeOK, SnapshotsAge, [Next]_vars
  PROVE  SnapshotsAge'
<1> DEFINE CacheAges(x) == Fresh(cache[x]) =>
             /\ ShowsOnly(cache[x].snap, cache[x].age + cache[x].lag)
             /\ ~cache[x].partial => ShowsAll(cache[x].snap, cache[x].age + cache[x].lag)
           FetchAges(c) == caller[c].pc = "discovering" =>
             /\ ShowsOnly(caller[c].may, caller[c].took)
             /\ ShowsAll(caller[c].must, caller[c].took)
           ResultAges(c) == caller[c].pc = "storing" =>
             /\ ShowsOnly(caller[c].snap, caller[c].took)
             /\ ~caller[c].partial => ShowsAll(caller[c].snap, caller[c].took)
<1>a. /\ \A x \in Caches : CacheAges(x)
      /\ \A c \in Callers : FetchAges(c) /\ ResultAges(c)
  BY DEF SnapshotsAge
<1>b. SUFFICES /\ \A x \in Caches : CacheAges(x)'
               /\ \A c \in Callers : FetchAges(c)' /\ ResultAges(c)'
  BY DEF SnapshotsAge
<1>t. /\ \A x \in Caches : cache[x] \in Entries
      /\ \A c \in Callers : caller[c] \in CallerStates
      /\ surface \in SUBSET APIs
      /\ since \in [APIs -> 0..Cap]
  BY DEF TypeOK
<1>f. ASSUME UNCHANGED <<surface, since>>, NEW d \in Callers, caller'[d] = caller[d]
      PROVE  FetchAges(d)' /\ ResultAges(d)'
  BY <1>a, <1>f DEF ShowsOnly, ShowsAll
<1>g. ASSUME UNCHANGED <<surface, since>>, NEW y \in Caches, cache'[y] = cache[y]
      PROVE  CacheAges(y)'
  BY <1>a, <1>g DEF ShowsOnly, ShowsAll, Fresh
<1>1. ASSUME NEW c \in Callers, NEW x \in Caches, Ask(c, x)
      PROVE  (\A y \in Caches : CacheAges(y)') /\ \A d \in Callers : FetchAges(d)' /\ ResultAges(d)'
  <2>1. UNCHANGED <<surface, since, cache>>  BY <1>1 DEF Ask
  <2>2. \A d \in Callers \ {c} : caller'[d] = caller[d]
    BY <1>1, <1>t DEF Ask, TypeOK
  <2>3. FetchAges(c)' /\ ResultAges(c)'
    <3>1. caller'[c].pc \in {"answered", "discovering"}
          /\ (caller'[c].pc = "discovering" => caller'[c].may = surface /\ caller'[c].must = surface)
      BY <1>1 DEF Ask, Idle, TypeOK
    <3> QED  BY <2>1, <3>1 DEF ShowsOnly, ShowsAll
  <2> QED  BY <1>f, <1>g, <2>1, <2>2, <2>3
<1>2. ASSUME NEW c \in Callers, Discover(c)
      PROVE  (\A y \in Caches : CacheAges(y)') /\ \A d \in Callers : FetchAges(d)' /\ ResultAges(d)'
  <2>1. UNCHANGED <<surface, since, cache>>  BY <1>2 DEF Discover
  <2>2. \A d \in Callers \ {c} : caller'[d] = caller[d]
    BY <1>2, <1>t DEF Discover, TypeOK
  <2>3. FetchAges(c)' /\ ResultAges(c)'
    <3>1. PICK snap \in SUBSET caller[c].may, partial \in BOOLEAN :
            /\ ~partial => caller[c].must \subseteq snap
            /\ caller' = [caller EXCEPT ![c] =
                 [@ EXCEPT !.pc = "storing", !.snap = snap, !.partial = partial, !.may = {}, !.must = {}]]
      BY <1>2 DEF Discover
    <3>2. /\ caller'[c].pc = "storing" /\ caller'[c].snap = snap
          /\ caller'[c].partial = partial /\ caller'[c].took = caller[c].took
      BY <3>1, <1>t DEF TypeOK, CallerStates
    <3>3. ShowsOnly(caller[c].may, caller[c].took) /\ ShowsAll(caller[c].must, caller[c].took)
      BY <1>2, <1>a DEF Discover
    <3> QED  BY <2>1, <3>1, <3>2, <3>3 DEF ShowsOnly, ShowsAll
  <2> QED  BY <1>f, <1>g, <2>1, <2>2, <2>3
<1>3. ASSUME NEW c \in Callers, DiscoverFails(c) \/ Finish(c)
      PROVE  (\A y \in Caches : CacheAges(y)') /\ \A d \in Callers : FetchAges(d)' /\ ResultAges(d)'
  <2>1. UNCHANGED <<surface, since, cache>>  BY <1>3 DEF DiscoverFails, Finish
  <2>2. \A d \in Callers \ {c} : caller'[d] = caller[d]
    BY <1>3, <1>t DEF DiscoverFails, Finish, TypeOK
  <2>3. caller'[c].pc \in {"failed", "idle"}
    BY <1>3 DEF DiscoverFails, Finish, Idle, TypeOK
  <2> QED  BY <1>f, <1>g, <2>1, <2>2, <2>3
<1>4. ASSUME NEW c \in Callers, Store(c)
      PROVE  (\A y \in Caches : CacheAges(y)') /\ \A d \in Callers : FetchAges(d)' /\ ResultAges(d)'
  <2>1. UNCHANGED <<surface, since>>  BY <1>4 DEF Store
  <2>2. \A d \in Callers \ {c} : caller'[d] = caller[d]
    BY <1>4, <1>t DEF Store, TypeOK
  <2>3. caller'[c].pc = "answered"
    BY <1>4, <1>t DEF Store, TypeOK, CallerStates
  <2>4. \A y \in Caches \ {caller[c].of} : cache'[y] = cache[y]
    BY <1>4 DEF Store, TypeOK
  <2>5. ASSUME NEW y \in Caches, y = caller[c].of  PROVE CacheAges(y)'
    <3>1. /\ cache'[y].snap = caller[c].snap /\ cache'[y].partial = caller[c].partial
          /\ cache'[y].age = 0 /\ cache'[y].lag = caller[c].took
      BY <1>4, <2>5 DEF Store, TypeOK
    <3>2. caller[c].took \in Int  BY <1>t, TimesAssumption DEF CallerStates
    <3>3. cache'[y].age + cache'[y].lag = caller[c].took  BY <3>1, <3>2
    <3>4. ResultAges(c) /\ caller[c].pc = "storing"  BY <1>a, <1>4 DEF Store
    <3> QED  BY <2>1, <3>1, <3>3, <3>4 DEF ShowsOnly, ShowsAll
  <2> QED  BY <1>f, <1>g, <2>1, <2>2, <2>3, <2>4, <2>5
<1>5. ASSUME NEW a \in APIs, SurfaceChanges(a)
      PROVE  (\A y \in Caches : CacheAges(y)') /\ \A d \in Callers : FetchAges(d)' /\ ResultAges(d)'
  <2>1. \A y \in Caches : CacheAges(y)'
    <3> SUFFICES ASSUME NEW y \in Caches, Fresh(cache[y])'  PROVE CacheAges(y)'
      OBVIOUS
    <3>1. cache' = cache  BY <1>5 DEF SurfaceChanges
    <3>2. cache[y].snap \in SUBSET APIs /\ cache[y].age + cache[y].lag \in Nat
      BY <1>t, TimesAssumption DEF Entries
    <3>3. CacheAges(y) /\ Fresh(cache[y])  BY <3>1, <1>a DEF Fresh
    <3>4. /\ ShowsOnly(cache[y].snap, cache[y].age + cache[y].lag)
             => ShowsOnly(cache[y].snap, cache[y].age + cache[y].lag)'
          /\ ShowsAll(cache[y].snap, cache[y].age + cache[y].lag)
             => ShowsAll(cache[y].snap, cache[y].age + cache[y].lag)'
      <4> DEFINE s == cache[y].snap
                 t == cache[y].age + cache[y].lag
      <4>1. s' = s /\ t' = t  BY <3>1
      <4>2. \A u \in SUBSET APIs, v \in Nat :
              (ShowsOnly(u, v) => ShowsOnly(u, v)') /\ (ShowsAll(u, v) => ShowsAll(u, v)')
        BY <1>5, ChangeKeepsSnapshots
      <4> QED  BY <4>1, <4>2, <3>2 DEF ShowsOnly, ShowsAll
    <3> QED  BY <3>1, <3>3, <3>4
  <2>2. ASSUME NEW d \in Callers  PROVE FetchAges(d)' /\ ResultAges(d)'
    <3>1. caller[d] \in CallerStates /\ caller[d].took \in Nat  BY <1>t, TimesAssumption DEF CallerStates
    <3>2. /\ since' = [since EXCEPT ![a] = 0]
          /\ surface' = IF a \in surface THEN surface \ {a} ELSE surface \cup {a}
      BY <1>5 DEF SurfaceChanges
    <3>3. \A b \in APIs : IF b = a THEN since'[b] = 0 /\ (b \in surface' <=> b \notin surface)
                          ELSE since'[b] = since[b] /\ (b \in surface' <=> b \in surface)
      BY <3>2, <1>t
    <3>4. CASE caller[d].pc = "discovering"
      <4>1. caller'[d] = IF a \in surface THEN [caller[d] EXCEPT !.must = @ \ {a}]
                         ELSE [caller[d] EXCEPT !.may = @ \cup {a}]
        BY <1>5, <3>4 DEF SurfaceChanges
      <4>2. /\ caller'[d].pc = "discovering" /\ caller'[d].took = caller[d].took
            /\ caller'[d].may = (IF a \in surface THEN caller[d].may ELSE caller[d].may \cup {a})
            /\ caller'[d].must = (IF a \in surface THEN caller[d].must \ {a} ELSE caller[d].must)
        BY <4>1, <3>1, <3>4 DEF CallerStates
      <4>3. ShowsOnly(caller[d].may, caller[d].took) /\ ShowsAll(caller[d].must, caller[d].took)
        BY <1>a, <3>4
      <4>4. caller[d].may \subseteq APIs /\ caller[d].must \subseteq APIs  BY <3>1 DEF CallerStates
      <4>5. ShowsOnly(caller[d].may, caller[d].took)'
        BY <3>1, <3>3, <4>2, <4>3, <4>4 DEF ShowsOnly
      <4>6. ShowsAll(caller[d].must, caller[d].took)'
        BY <3>1, <3>3, <4>2, <4>3, <4>4 DEF ShowsAll
      <4> QED  BY <4>2, <4>5, <4>6
    <3>5. CASE caller[d].pc # "discovering"
      <4>1. caller'[d] = caller[d]  BY <1>5, <3>5 DEF SurfaceChanges
      <4>2. caller[d].snap \subseteq APIs  BY <3>1 DEF CallerStates
      <4>3. ResultAges(d)  BY <1>a
      <4> QED  BY <3>1, <3>3, <3>5, <4>1, <4>2, <4>3 DEF ShowsOnly, ShowsAll
    <3> QED  BY <3>4, <3>5
  <2> QED  BY <2>1, <2>2
<1>6. ASSUME Tick
      PROVE  (\A y \in Caches : CacheAges(y)') /\ \A d \in Callers : FetchAges(d)' /\ ResultAges(d)'
  <2>t. \A u \in SUBSET APIs, v \in Nat :
          (ShowsOnly(u, v) => ShowsOnly(u, v + 1)') /\ (ShowsAll(u, v) => ShowsAll(u, v + 1)')
    BY <1>6, TickAgesSnapshots
  <2>1. ASSUME NEW y \in Caches, Fresh(cache[y])'  PROVE CacheAges(y)'
    <3>1. cache[y] \in Entries  BY <1>t
    <3>2. cache'[y] = [cache[y] EXCEPT !.age = SaturatingInc(@, TTL)]  BY <1>6 DEF Tick
    <3>3. /\ cache'[y].snap = cache[y].snap /\ cache'[y].partial = cache[y].partial
          /\ cache'[y].lag = cache[y].lag /\ cache'[y].full = cache[y].full
          /\ cache'[y].age = SaturatingInc(cache[y].age, TTL)
      BY <3>1, <3>2 DEF Entries
    <3>4. cache[y].age \in Nat /\ cache[y].lag \in Nat /\ cache[y].snap \in SUBSET APIs
      BY <3>1, TimesAssumption DEF Entries
    <3>5. Fresh(cache[y]) /\ cache'[y].age = cache[y].age + 1
      BY <2>1, <3>3, <3>4, TimesAssumption DEF Fresh, SaturatingInc
    <3>6. cache'[y].age + cache'[y].lag = (cache[y].age + cache[y].lag) + 1
      BY <3>3, <3>4, <3>5
    <3>7. CacheAges(y)  BY <1>a
    <3>8. cache[y].age + cache[y].lag \in Nat  BY <3>4
    <3> QED  BY <2>t, <3>3, <3>4, <3>5, <3>6, <3>7, <3>8 DEF ShowsOnly, ShowsAll
  <2>2. ASSUME NEW d \in Callers  PROVE FetchAges(d)' /\ ResultAges(d)'
    <3>1. caller[d] \in CallerStates /\ caller[d].took \in Nat  BY <1>t, TimesAssumption DEF CallerStates
    <3>2. caller'[d] = IF Busy(d) THEN [caller[d] EXCEPT !.took = @ + 1] ELSE caller[d]
      BY <1>6 DEF Tick
    <3>3. CASE Busy(d)
      <4>1. /\ caller'[d].pc = caller[d].pc /\ caller'[d].took = caller[d].took + 1
            /\ caller'[d].may = caller[d].may /\ caller'[d].must = caller[d].must
            /\ caller'[d].snap = caller[d].snap /\ caller'[d].partial = caller[d].partial
        BY <3>1, <3>2, <3>3 DEF CallerStates
      <4>2. /\ caller[d].may \in SUBSET APIs /\ caller[d].must \in SUBSET APIs /\ caller[d].snap \in SUBSET APIs
        BY <3>1 DEF CallerStates
      <4>3. FetchAges(d) /\ ResultAges(d)  BY <1>a
      <4> QED  BY <2>t, <3>1, <4>1, <4>2, <4>3 DEF ShowsOnly, ShowsAll
    <3>4. CASE ~Busy(d)
      BY <3>2, <3>4 DEF Busy
    <3> QED  BY <3>3, <3>4
  <2> QED  BY <2>1, <2>2
<1>7. ASSUME UNCHANGED vars
      PROVE  (\A y \in Caches : CacheAges(y)') /\ \A d \in Callers : FetchAges(d)' /\ ResultAges(d)'
  BY <1>7, <1>f, <1>g DEF vars
<1> QED  BY <1>1, <1>2, <1>3, <1>4, <1>5, <1>6, <1>7 DEF Next

LEMMA Initially ==
  ASSUME Init
  PROVE  IInv
<1>1. Empty \in Entries /\ Idle \in CallerStates
  BY TimesAssumption DEF Empty, Idle, Entries, CallerStates
<1>2. Cap \in 0..Cap  BY TimesAssumption DEF Cap
<1>3. TypeOK
  BY <1>1, <1>2 DEF Init, TypeOK, Busy, Idle
<1>4. SnapshotsAge
  BY DEF Init, SnapshotsAge, Fresh, Empty, Idle
<1> QED  BY <1>3, <1>4 DEF IInv

LEMMA Invariance == Spec => []IInv
<1>1. IInv /\ [Next]_vars => IInv'
  BY TypeStep, AgeStep DEF IInv
<1> QED  BY Initially, <1>1, PTL DEF Spec

\* The two caches, the goroutines that fill them and the clocks of the API
\* surface stay within their types (client.go:184-238, 309-328).
THEOREM TypeCorrect == Spec => []TypeOK
<1>1. IInv => TypeOK  BY DEF IInv
<1> QED  BY Invariance, <1>1, PTL

\* A cached, fetched or about to be stored snapshot is never older than its
\* clock says, in whatever order concurrent discoveries store theirs.
THEOREM SnapshotsAreAsOldAsTheySay == Spec => []SnapshotsAge
<1>1. IInv => SnapshotsAge  BY DEF IInv
<1> QED  BY Invariance, <1>1, PTL

\* The answer a goroutine gets in a step is as recent as it has to be.
Recent(c) ==
  /\ ShowsOnly(caller'[c].snap, TTL + MaxFetch)
  /\ ~caller'[c].partial => ShowsAll(caller'[c].snap, TTL + MaxFetch)

\* A goroutine is answered from a fresh cache entry or from the discovery it
\* has just stored, and both are as recent as they have to be.
LEMMA AnswerStep ==
  ASSUME IInv, [Next]_vars, NEW c \in Callers,
         caller'[c].pc = "answered", caller[c].pc # "answered"
  PROVE  Recent(c) /\ UNCHANGED <<surface, since>>
<1>1. TypeOK /\ SnapshotsAge  BY DEF IInv
<1>t. /\ caller[c] \in CallerStates /\ \A x \in Caches : cache[x] \in Entries
      /\ since \in [APIs -> 0..Cap]
  BY <1>1 DEF TypeOK
<1>o. ASSUME NEW snap \in SUBSET APIs, NEW t \in Nat, t <= TTL + MaxFetch
      PROVE  /\ ShowsOnly(snap, t) => ShowsOnly(snap, TTL + MaxFetch)
             /\ ShowsAll(snap, t) => ShowsAll(snap, TTL + MaxFetch)
  <2>1. \A a \in APIs : since[a] <= t => since[a] <= TTL + MaxFetch
    BY <1>t, <1>o, TimesAssumption DEF Cap
  <2> QED  BY <2>1 DEF ShowsOnly, ShowsAll
<1>2. ASSUME NEW d \in Callers, NEW x \in Caches, Ask(d, x)
      PROVE  Recent(c) /\ UNCHANGED <<surface, since>>
  <2>1. d = c /\ Fresh(cache[x]) /\ caller'[c].snap = cache[x].snap /\ caller'[c].partial = cache[x].partial
    BY <1>1, <1>2 DEF Ask, Idle, TypeOK
  <2>2. cache[x].age + cache[x].lag \in Nat /\ cache[x].age + cache[x].lag <= TTL + MaxFetch
        /\ cache[x].snap \in SUBSET APIs
    BY <2>1, <1>t, TimesAssumption DEF Fresh, Entries
  <2>3. /\ ShowsOnly(cache[x].snap, cache[x].age + cache[x].lag)
        /\ ~cache[x].partial => ShowsAll(cache[x].snap, cache[x].age + cache[x].lag)
    BY <1>1, <2>1 DEF SnapshotsAge
  <2> QED  BY <1>2, <1>o, <2>1, <2>2, <2>3 DEF Ask, Recent
<1>3. ASSUME NEW d \in Callers, Store(d)
      PROVE  Recent(c) /\ UNCHANGED <<surface, since>>
  <2>1. d = c  BY <1>1, <1>3 DEF Store, TypeOK
  <2>2. caller[c].pc = "storing" /\ caller'[c].snap = caller[c].snap /\ caller'[c].partial = caller[c].partial
    BY <1>1, <1>3, <2>1, <1>t DEF Store, TypeOK, CallerStates
  <2>3. caller[c].took \in Nat /\ caller[c].took <= TTL + MaxFetch /\ caller[c].snap \in SUBSET APIs
    BY <1>t, TimesAssumption DEF CallerStates
  <2>4. /\ ShowsOnly(caller[c].snap, caller[c].took)
        /\ ~caller[c].partial => ShowsAll(caller[c].snap, caller[c].took)
    BY <1>1, <2>2 DEF SnapshotsAge
  <2> QED  BY <1>3, <1>o, <2>2, <2>3, <2>4 DEF Store, Recent
<1>4. ASSUME NEW d \in Callers, Discover(d) \/ DiscoverFails(d) \/ Finish(d)
      PROVE  FALSE
  <2>1. d # c => caller'[c] = caller[c]
    BY <1>1, <1>4 DEF Discover, DiscoverFails, Finish, TypeOK
  <2>2. Discover(d) => caller'[d].pc = "storing"
    BY <1>1, <1>t DEF Discover, TypeOK, CallerStates
  <2>3. DiscoverFails(d) \/ Finish(d) => caller'[d].pc \in {"failed", "idle"}
    BY <1>1 DEF DiscoverFails, Finish, Idle, TypeOK
  <2> QED  BY <1>4, <2>1, <2>2, <2>3
<1>5. ASSUME Tick \/ (\E a \in APIs : SurfaceChanges(a)) \/ UNCHANGED vars
      PROVE  FALSE
  <2>1. caller'[c].pc = caller[c].pc
    BY <1>t, <1>5 DEF Tick, SurfaceChanges, vars, CallerStates
  <2> QED  BY <2>1
<1> QED  BY <1>2, <1>3, <1>4, <1>5 DEF Next

\* A caller of APIResources or RESTMapper sees every change of the API
\* surface that is more than discoveryTTL and one discovery old.
THEOREM CallersSeeOldChanges == Spec => AnswersAreRecent
<1>1. IInv /\ [Next]_vars =>
        [\A c \in Callers : caller'[c].pc = "answered" /\ caller[c].pc # "answered" =>
           /\ ShowsOnly(caller'[c].snap, TTL + MaxFetch)
           /\ ~caller'[c].partial => ShowsAll(caller'[c].snap, TTL + MaxFetch)]_vars
  BY AnswerStep DEF Recent
<1> QED  BY Invariance, <1>1, PTL DEF Spec, AnswersAreRecent
------------------------------------------------------------------------------
(***************************************************************************)
(* The tools that use the caches.                                          *)
(***************************************************************************)
Stages == {"none", "resolving", "resolved", "read", "mapping", "mapped",
           "unknown kind", "ambiguous", "failed", "gone", "no match", "answered"}
Calls == [at : Stages, group : APIs \cup {AnyGroup}, api : APIs \cup {AnyGroup}]

\* An answer stays as recent as it was for as long as the call looks at it.
AnswersHold ==
  \A c \in Callers : caller[c].pc = "answered" =>
    /\ ShowsOnly(caller[c].snap, TTL + MaxFetch)
    /\ ~caller[c].partial => ShowsAll(caller[c].snap, TTL + MaxFetch)

RInv == IInv /\ AnswersHold /\ call \in [Callers -> Calls]

\* Seen from the caches, a step of the tools is a step of some goroutine,
\* of the API surface, of time, or none.
LEMMA StepsAreCacheSteps ==
  ASSUME [ResolutionNext]_resolutionVars
  PROVE  [Next]_vars
<1>1. "apis" \in Caches /\ "mapper" \in Caches
  BY CachesAssumption
<1>2. ASSUME NEW c \in Callers, Call(c) \/ FollowReference(c)  PROVE \E x \in Caches : Ask(c, x)
  BY <1>1, <1>2 DEF Call, FollowReference
<1>3. ASSUME NEW c \in Callers, ResolveKind(c) \/ DiscoveryFails(c) \/ RESTMapping(c)  PROVE Finish(c)
  BY <1>3 DEF ResolveKind, DiscoveryFails, RESTMapping
<1>4. ASSUME NEW c \in Callers, Get(c) \/ Show(c) \/ Reply(c)  PROVE UNCHANGED vars
  BY <1>4 DEF Get, Show, Reply
<1>5. ASSUME NEW c \in Callers, Discovering(c)  PROVE Next
  BY <1>5 DEF Discovering, Next
<1>6. Elapse => Tick
  BY DEF Elapse
<1> QED  BY <1>2, <1>3, <1>4, <1>5, <1>6 DEF ResolutionNext, resolutionVars, Next

\* Time does not pass while a call has an answer in hand.
LEMMA AnsweredCallsAreInstant ==
  ASSUME RInv, [ResolutionNext]_resolutionVars, NEW c \in Callers,
         caller[c].pc = "answered", caller'[c].pc = "answered"
  PROVE  /\ caller'[c] = caller[c]
         /\ UNCHANGED <<surface, since>> \/ \E a \in APIs : SurfaceChanges(a)
<1>t. /\ caller \in [Callers -> CallerStates]
      /\ caller[c] \in CallerStates
  BY DEF RInv, IInv, TypeOK
<1>1. ASSUME NEW d \in Callers, NEW x \in Caches, Ask(d, x)
      PROVE  caller'[c] = caller[c] /\ UNCHANGED <<surface, since>>
  BY <1>1, <1>t DEF Ask
<1>2. ASSUME NEW d \in Callers, Finish(d)
      PROVE  caller'[c] = caller[c] /\ UNCHANGED <<surface, since>>
  BY <1>2, <1>t DEF Finish, Idle
<1>3. ASSUME NEW d \in Callers, Discovering(d)
      PROVE  caller'[c] = caller[c] /\ UNCHANGED <<surface, since>>
  BY <1>3, <1>t DEF Discovering, Discover, DiscoverFails, Store
<1>4. ASSUME NEW a \in APIs, SurfaceChanges(a)
      PROVE  caller'[c] = caller[c]
  BY <1>4 DEF SurfaceChanges
<1>5. ~Elapse
  BY DEF Elapse
<1>6. ASSUME UNCHANGED vars
      PROVE  caller'[c] = caller[c] /\ UNCHANGED <<surface, since>>
  BY <1>6 DEF vars
<1>7. "apis" \in Caches /\ "mapper" \in Caches
  BY CachesAssumption
<1>8. ASSUME NEW d \in Callers, Call(d) \/ FollowReference(d)  PROVE \E x \in Caches : Ask(d, x)
  BY <1>7, <1>8 DEF Call, FollowReference
<1>9. ASSUME NEW d \in Callers, ResolveKind(d) \/ DiscoveryFails(d) \/ RESTMapping(d)  PROVE Finish(d)
  BY <1>9 DEF ResolveKind, DiscoveryFails, RESTMapping
<1>10. ASSUME NEW d \in Callers, Get(d) \/ Show(d) \/ Reply(d)  PROVE UNCHANGED vars
  BY <1>10 DEF Get, Show, Reply
<1> QED  BY <1>1, <1>2, <1>3, <1>4, <1>5, <1>6, <1>8, <1>9, <1>10 DEF ResolutionNext, resolutionVars

LEMMA AnswersHoldStep ==
  ASSUME RInv, [ResolutionNext]_resolutionVars
  PROVE  AnswersHold'
<1> SUFFICES ASSUME NEW c \in Callers, caller'[c].pc = "answered"
             PROVE  /\ ShowsOnly(caller[c].snap, TTL + MaxFetch)'
                    /\ ~caller'[c].partial => ShowsAll(caller[c].snap, TTL + MaxFetch)'
  BY DEF AnswersHold
<1>t. TypeOK /\ caller[c] \in CallerStates
  BY DEF RInv, IInv, TypeOK
<1>1. CASE caller[c].pc # "answered"
  <2>1. Recent(c) /\ UNCHANGED <<surface, since>>
    BY <1>1, StepsAreCacheSteps, AnswerStep DEF RInv
  <2> QED  BY <2>1 DEF Recent, ShowsOnly, ShowsAll
<1>2. CASE caller[c].pc = "answered"
  <2>1. /\ caller'[c] = caller[c]
        /\ UNCHANGED <<surface, since>> \/ \E a \in APIs : SurfaceChanges(a)
    BY <1>2, AnsweredCallsAreInstant
  <2>2. /\ ShowsOnly(caller[c].snap, TTL + MaxFetch)
        /\ ~caller[c].partial => ShowsAll(caller[c].snap, TTL + MaxFetch)
    BY <1>2 DEF RInv, AnswersHold
  <2>3. CASE UNCHANGED <<surface, since>>
    BY <2>1, <2>2, <2>3 DEF ShowsOnly, ShowsAll
  <2>4. ASSUME NEW a \in APIs, SurfaceChanges(a)
        PROVE  /\ ShowsOnly(caller[c].snap, TTL + MaxFetch)'
               /\ ~caller'[c].partial => ShowsAll(caller[c].snap, TTL + MaxFetch)'
    <3>1. caller[c].snap \in SUBSET APIs /\ TTL + MaxFetch \in Nat
      BY <1>t, TimesAssumption DEF CallerStates
    <3>2. \A u \in SUBSET APIs, v \in Nat :
            (ShowsOnly(u, v) => ShowsOnly(u, v)') /\ (ShowsAll(u, v) => ShowsAll(u, v)')
      BY <1>t, <2>4, ChangeKeepsSnapshots
    <3> QED  BY <2>1, <2>2, <3>1, <3>2 DEF ShowsOnly, ShowsAll
  <2> QED  BY <2>1, <2>3, <2>4
<1> QED  BY <1>1, <1>2

LEMMA NoCallIsACall == NoCall \in Calls
BY DEF NoCall, Calls, Stages

LEMMA CallStep ==
  ASSUME RInv, [ResolutionNext]_resolutionVars
  PROVE  call' \in [Callers -> Calls]
<1>t. /\ call \in [Callers -> Calls]
      /\ \A c \in Callers : caller[c].snap \in SUBSET APIs
  BY DEF RInv, IInv, TypeOK, CallerStates
<1>0. \A c \in Callers, v \in Calls : [call EXCEPT ![c] = v] \in [Callers -> Calls]
  BY <1>t
<1>r. \A to \in Stages, g, b \in APIs \cup {AnyGroup} :
        /\ [NoCall EXCEPT !.at = to, !.group = g] \in Calls
        /\ [NoCall EXCEPT !.at = to, !.api = b] \in Calls
        /\ [NoCall EXCEPT !.at = to] \in Calls
  BY NoCallIsACall DEF Calls
<1>1. \A c \in Callers, to \in Stages, api \in APIs \cup {AnyGroup} :
        GoesOn(c, to, api) => call' \in [Callers -> Calls]
  <2> SUFFICES ASSUME NEW c \in Callers, NEW to \in Stages, NEW api \in APIs \cup {AnyGroup}, GoesOn(c, to, api)
               PROVE  call' \in [Callers -> Calls]
    OBVIOUS
  <2> DEFINE v == [NoCall EXCEPT !.at = to, !.api = api]
  <2>1. v \in Calls /\ call' = [call EXCEPT ![c] = v]
    BY <1>r DEF GoesOn
  <2> HIDE DEF v
  <2> QED  BY <2>1, <1>0
<1>2. \A c \in Callers, how \in Stages : Ends(c, how) => call' \in [Callers -> Calls]
  <2> SUFFICES ASSUME NEW c \in Callers, NEW how \in Stages, Ends(c, how)
               PROVE  call' \in [Callers -> Calls]
    OBVIOUS
  <2> DEFINE v == [NoCall EXCEPT !.at = how]
  <2>1. v \in Calls /\ call' = [call EXCEPT ![c] = v]
    BY <1>r DEF Ends
  <2> HIDE DEF v
  <2> QED  BY <2>1, <1>0
<1>3. ASSUME NEW c \in Callers, Call(c)  PROVE call' \in [Callers -> Calls]
  <2>1. PICK g \in Groups : call' = [call EXCEPT ![c] = [NoCall EXCEPT !.at = "resolving", !.group = g]]
    BY <1>3 DEF Call
  <2> DEFINE v == [NoCall EXCEPT !.at = "resolving", !.group = g]
  <2>2. v \in Calls /\ call' = [call EXCEPT ![c] = v]
    <3>1. "resolving" \in Stages /\ g \in APIs \cup {AnyGroup}  BY GroupsAssumption DEF Stages
    <3> QED  BY <2>1, <3>1, <1>r
  <2> HIDE DEF v
  <2> QED  BY <2>2, <1>0
<1>4. ASSUME NEW c \in Callers, ResolveKind(c)  PROVE call' \in [Callers -> Calls]
  BY <1>t, <1>1, <1>2, <1>4 DEF ResolveKind, Matches, Stages
<1>5. ASSUME NEW c \in Callers, DiscoveryFails(c) \/ Show(c) \/ FollowReference(c) \/ Get(c)
      PROVE  call' \in [Callers -> Calls]
  BY <1>1, <1>2, <1>5 DEF DiscoveryFails, Show, FollowReference, Get, Stages
<1>6. ASSUME NEW c \in Callers, RESTMapping(c)  PROVE call' \in [Callers -> Calls]
  <2>1. call[c].api \in APIs \cup {AnyGroup}  BY <1>t DEF Calls
  <2> QED  BY <1>1, <1>2, <1>6, <2>1 DEF RESTMapping, Stages
<1>7. ASSUME NEW c \in Callers, Reply(c)  PROVE call' \in [Callers -> Calls]
  BY <1>t, <1>7, NoCallIsACall DEF Reply
<1> QED  BY <1>t, <1>3, <1>4, <1>5, <1>6, <1>7 DEF ResolutionNext, Elapse, Discovering, resolutionVars

\* A call that has found its resource type, or failed to find one, in this
\* step did so in the answer it had in hand.
LEMMA OnlyAnswersDecide ==
  ASSUME RInv, [ResolutionNext]_resolutionVars, NEW c \in Callers, call'[c].at # call[c].at
  PROVE  /\ call'[c].at \in {"resolved", "unknown kind"} => ResolveKind(c)
         /\ call'[c].at = "no match" => RESTMapping(c)
<1>t. call \in [Callers -> Calls]
  BY DEF RInv
<1>1. \A d \in Callers : \A to, api : GoesOn(d, to, api) => d = c /\ call'[c].at = to
  BY <1>t DEF GoesOn, NoCall
<1>2. \A d \in Callers : \A how : Ends(d, how) => d = c /\ call'[c].at = how
  BY <1>t DEF Ends, NoCall
<1>3. ASSUME NEW d \in Callers, Call(d)  PROVE call'[c].at = "resolving"
  BY <1>t, <1>3 DEF Call, NoCall
<1>4. ASSUME NEW d \in Callers, Reply(d)  PROVE call'[c].at = "none"
  BY <1>t, <1>4 DEF Reply, NoCall
<1>5. ASSUME NEW d \in Callers, DiscoveryFails(d) \/ Get(d) \/ Show(d) \/ FollowReference(d)
      PROVE  call'[c].at \in {"failed", "read", "answered", "gone", "mapping"}
  BY <1>1, <1>2, <1>5 DEF DiscoveryFails, Get, Show, FollowReference
<1>6. ASSUME NEW d \in Callers, ResolveKind(d)
      PROVE  d = c /\ call'[c].at \in {"resolved", "unknown kind", "ambiguous"}
  BY <1>1, <1>2, <1>6 DEF ResolveKind
<1>7. ASSUME NEW d \in Callers, RESTMapping(d)
      PROVE  d = c /\ call'[c].at \in {"mapped", "no match"}
  BY <1>1, <1>2, <1>7 DEF RESTMapping
<1>8. call' # call
  OBVIOUS
<1> QED  BY <1>3, <1>4, <1>5, <1>6, <1>7, <1>8 DEF ResolutionNext, Elapse, Discovering, resolutionVars

\* A settled resource type is in every answer that is not partial.
LEMMA SettledIsKnown ==
  ASSUME RInv, NEW c \in Callers, caller[c].pc = "answered", ~caller[c].partial, NEW b \in APIs, Settled(b)
  PROVE  b \in caller[c].snap
<1>1. ShowsAll(caller[c].snap, TTL + MaxFetch)
  BY DEF RInv, AnswersHold
<1>2. since[b] \in Int
  BY TimesAssumption DEF RInv, IInv, TypeOK, Cap
<1> QED  BY <1>1, <1>2, TimesAssumption DEF ShowsAll, Settled

LEMMA ResolutionInvariance == ResolutionSpec => []RInv
<1>1. ResolutionInit => RInv
  <2> SUFFICES ASSUME ResolutionInit  PROVE RInv
    OBVIOUS
  <2>1. IInv  BY Initially DEF ResolutionInit
  <2>2. AnswersHold  BY DEF ResolutionInit, Init, Idle, AnswersHold
  <2>3. call \in [Callers -> Calls]  BY NoCallIsACall DEF ResolutionInit
  <2> QED  BY <2>1, <2>2, <2>3 DEF RInv
<1>2. RInv /\ [ResolutionNext]_resolutionVars => RInv'
  <2> SUFFICES ASSUME RInv, [ResolutionNext]_resolutionVars  PROVE RInv'
    OBVIOUS
  <2>1. IInv'  BY StepsAreCacheSteps, TypeStep, AgeStep DEF RInv, IInv
  <2> QED  BY <2>1, AnswersHoldStep, CallStep DEF RInv
<1> QED  BY <1>1, <1>2, PTL DEF ResolutionSpec

\* The inspection tools use the caches as DiscoveryCache says callers do, so
\* that what is proved of the caches holds under the tools.
THEOREM ToolsUseTheCaches == ResolutionSpec => Spec
<1>1. ResolutionInit => Init  BY DEF ResolutionInit
<1>2. [ResolutionNext]_resolutionVars => [Next]_vars  BY StepsAreCacheSteps
<1> QED  BY <1>1, <1>2, PTL DEF ResolutionSpec, Spec

\* A kind that was given without a group is only taken for a resource type
\* whose every namesake is new, gone or in a group discovery could not read
\* (client.go:258-303).
THEOREM NoKindIsGuessed == ResolutionSpec => NothingIsGuessed
<1> DEFINE Sure == \A c \in Callers :
       call'[c].at = "resolved" /\ call[c].at = "resolving" /\ call[c].group = AnyGroup =>
         \A b \in APIs \ {call'[c].api} : Settled(b) => caller[c].partial
<1>1. ASSUME RInv, [ResolutionNext]_resolutionVars  PROVE Sure
  <2> SUFFICES ASSUME NEW c \in Callers,
                      call'[c].at = "resolved", call[c].at = "resolving", call[c].group = AnyGroup,
                      NEW b \in APIs \ {call'[c].api}, Settled(b), ~caller[c].partial
               PROVE  FALSE
    BY <1>1, GroupsAssumption DEF RInv, IInv, TypeOK, CallerStates
  <2>1. ResolveKind(c)  BY <1>1, OnlyAnswersDecide
  <2>2. caller[c].pc = "answered"  BY <2>1 DEF ResolveKind
  <2>3. b \in caller[c].snap  BY <1>1, <2>2, SettledIsKnown
  <2>4. call \in [Callers -> Calls]  BY <1>1 DEF RInv
  <2>5. PICK a \in Matches(caller[c].snap, call[c].group) :
          Matches(caller[c].snap, call[c].group) = {a} /\ GoesOn(c, "resolved", a)
    BY <2>1, <2>4 DEF ResolveKind, Ends, NoCall
  <2>6. call'[c].api = a  BY <2>4, <2>5 DEF GoesOn, NoCall
  <2>7. b \in Matches(caller[c].snap, call[c].group)  BY <2>3 DEF Matches
  <2> QED  BY <2>5, <2>6, <2>7
<1>2. RInv /\ [ResolutionNext]_resolutionVars => [Sure]_resolutionVars
  BY <1>1
<1> QED  BY ResolutionInvariance, <1>2, PTL DEF ResolutionSpec, NothingIsGuessed

\* Neither cache hides a resource type from a call that was served all the
\* time the caches may be behind, unless discovery was partial
\* (client.go:184-192, 309-317).
THEOREM NoOldKindIsMissed == ResolutionSpec => MissesAreNew
<1> DEFINE New(c) ==
       /\ call'[c].at = "unknown kind" /\ call[c].at = "resolving" =>
            \A a \in APIs : Settled(a) /\ call[c].group \in {AnyGroup, a} => caller[c].partial
       /\ call'[c].at = "no match" /\ call[c].at = "mapping" /\ Settled(call[c].api) =>
            caller[c].partial
<1>1. ASSUME RInv, [ResolutionNext]_resolutionVars  PROVE \A c \in Callers : New(c)
  <2> SUFFICES ASSUME NEW c \in Callers  PROVE New(c)
    OBVIOUS
  <2>t. /\ call \in [Callers -> Calls]
        /\ caller[c].partial \in BOOLEAN
    BY <1>1 DEF RInv, IInv, TypeOK, CallerStates
  <2>1. ASSUME call'[c].at = "unknown kind", call[c].at = "resolving",
               NEW a \in APIs, Settled(a), call[c].group \in {AnyGroup, a}, ~caller[c].partial
        PROVE  FALSE
    <3>1. ResolveKind(c)  BY <1>1, <2>1, OnlyAnswersDecide
    <3>2. a \in caller[c].snap  BY <1>1, <2>1, <3>1, SettledIsKnown DEF ResolveKind
    <3>3. Matches(caller[c].snap, call[c].group) = {}
      BY <3>1, <2>t, <2>1 DEF ResolveKind, GoesOn, Ends, NoCall
    <3> QED  BY <2>1, <3>2, <3>3 DEF Matches
  <2>2. ASSUME call'[c].at = "no match", call[c].at = "mapping", Settled(call[c].api), ~caller[c].partial
        PROVE  FALSE
    <3>1. RESTMapping(c)  BY <1>1, <2>2, OnlyAnswersDecide
    <3>2. call[c].api \notin caller[c].snap
      BY <3>1, <2>t, <2>2 DEF RESTMapping, GoesOn, NoCall
    <3>3. call[c].api \in APIs
      BY <1>1, <2>2 DEF Settled, RInv, IInv, TypeOK
    <3>4. call[c].api \in caller[c].snap
      BY <1>1, <2>2, <3>1, <3>3, SettledIsKnown DEF RESTMapping
    <3> QED  BY <3>2, <3>4
  <2> QED  BY <2>1, <2>2, <2>t
<1>2. RInv /\ [ResolutionNext]_resolutionVars => [\A c \in Callers : New(c)]_resolutionVars
  BY <1>1
<1> QED  BY ResolutionInvariance, <1>2, PTL DEF ResolutionSpec, MissesAreNew
==============================================================================
