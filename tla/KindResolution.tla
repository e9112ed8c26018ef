---------------------------- MODULE KindResolution ----------------------------
(***************************************************************************)
(* The tools that inspect one object (pkg/toolsets/resources/inspect.go)   *)
(* over the discovery caches: the kind a caller names is looked up in one  *)
(* cache (Client.ResolveKind), the references found in the object in the   *)
(* other (Client.GetByReference), and the two are filled by discoveries of *)
(* their own.  A call may so find a kind in one that the other lacks, or   *)
(* be sure of a kind that has been removed since.                          *)
(*                                                                         *)
(* Every resource type here answers to the name that callers use, and is   *)
(* in a group of its own, as Bucket is in those of two providers: without  *)
(* a group the name is ambiguous wherever two of them are served.  Names,  *)
(* namespaces and the events of an object are left out.                    *)
(***************************************************************************)
EXTENDS DiscoveryCache, FiniteSets

CONSTANTS
  Groups,      (* what a call may give as group: resource types, or AnyGroup      *)
  AnyGroup          (* no group is given                                          *)

ASSUME GroupsAssumption == AnyGroup \notin APIs /\ Groups \subseteq APIs \cup {AnyGroup}

ASSUME CachesAssumption == Caches = {"apis", "mapper"}

VARIABLE call    (* where the call a goroutine serves is                      *)

resolutionVars == <<vars, call>>

NoCall == [at |-> "none", group |-> AnyGroup, api |-> AnyGroup]

ResolutionInit ==
  /\ Init
  /\ call = [c \in Callers |-> NoCall]

GoesOn(c, to, api) == call' = [call EXCEPT ![c] = [NoCall EXCEPT !.at = to, !.api = api]]
Ends(c, how) == call' = [call EXCEPT ![c] = [NoCall EXCEPT !.at = how]]

\* A tool is called with a kind and perhaps a group: APIResources is asked.
Call(c) ==
  /\ call[c].at = "none"
  /\ \E group \in Groups : call' = [call EXCEPT ![c] = [NoCall EXCEPT !.at = "resolving", !.group = group]]
  /\ Ask(c, "apis")

Matches(snap, group) == {a \in snap : group \in {AnyGroup, a}}

\* Mutated form: the first of several matches is as good as any.
ResolveKindToFirst(c) ==
  LET matches == Matches(caller[c].snap, call[c].group) IN
  /\ call[c].at = "resolving" /\ caller[c].pc = "answered"
  /\ \/ matches = {} /\ Ends(c, "unknown kind")
     \/ \E a \in matches : GoesOn(c, "resolved", a)
  /\ Finish(c)

\* None matches, or one, or the caller has to say which group is meant.
ResolveKind(c) ==
  LET matches == Matches(caller[c].snap, call[c].group) IN
  /\ call[c].at = "resolving" /\ caller[c].pc = "answered"
  /\ \/ matches = {} /\ Ends(c, "unknown kind")
     \/ \E a \in matches : matches = {a} /\ GoesOn(c, "resolved", a)
     \/ Cardinality(matches) > 1 /\ Ends(c, "ambiguous")
  /\ Finish(c)

\* Discovery failed, and with it the call, or the Get of one child.
DiscoveryFails(c) ==
  /\ call[c].at \in {"resolving", "mapping"} /\ caller[c].pc = "failed"
  /\ Ends(c, "failed")
  /\ Finish(c)

\* The object is read with the resource that was found, which the API server
\* may have ceased to serve.
Get(c) ==
  /\ call[c].at \in {"resolved", "mapped"}
  /\ \/ /\ call[c].api \in surface
        /\ IF call[c].at = "resolved" THEN GoesOn(c, "read", AnyGroup) ELSE Ends(c, "answered")
     \/ call[c].api \notin surface /\ Ends(c, "gone")
     \/ Ends(c, "failed")
  /\ UNCHANGED vars

\* resource_get and resource_events are through with the object itself,
\* resource_tree follows its references: the REST mapper is asked.
Show(c) ==
  /\ call[c].at = "read"
  /\ Ends(c, "answered")
  /\ UNCHANGED vars

FollowReference(c) ==
  /\ call[c].at = "read"
  /\ \E b \in APIs : GoesOn(c, "mapping", b)
  /\ Ask(c, "mapper")

\* GetByReference: RESTMapping has to know the group and kind referred to.
RESTMapping(c) ==
  /\ call[c].at = "mapping" /\ caller[c].pc = "answered"
  /\ IF call[c].api \in caller[c].snap THEN GoesOn(c, "mapped", call[c].api) ELSE Ends(c, "no match")
  /\ Finish(c)

\* The answer is on its way, the goroutine is free for another call.
Reply(c) ==
  /\ call[c].at \in {"unknown kind", "ambiguous", "failed", "gone", "no match", "answered"}
  /\ call' = [call EXCEPT ![c] = NoCall]
  /\ UNCHANGED vars

\* Time passes while discoveries run and requests are under way, not while a
\* call looks something up in a snapshot it has in hand.
Elapse ==
  /\ \A c \in Callers : caller[c].pc # "answered"
  /\ Tick
  /\ UNCHANGED call

Discovering(c) == (Discover(c) \/ DiscoverFails(c) \/ Store(c)) /\ UNCHANGED call

ResolutionNext ==
  \/ \E c \in Callers :
       \/ Call(c)
       \/ ResolveKind(c)
       \/ DiscoveryFails(c)
       \/ Get(c)
       \/ Show(c)
       \/ FollowReference(c)
       \/ RESTMapping(c)
       \/ Reply(c)
       \/ Discovering(c)
  \/ (\E a \in APIs : SurfaceChanges(a)) /\ UNCHANGED call
  \/ Elapse

ResolutionSpec == ResolutionInit /\ [][ResolutionNext]_resolutionVars
------------------------------------------------------------------------------
\* A resource type that everybody can rely on to be known: it is served, and
\* was before the oldest discovery that may still be believed began.
Settled(a) == a \in surface /\ since[a] > TTL + MaxFetch

\* A kind that two providers have is not resolved to one of them by accident
\* (client.go:258-303): where no group is given, a call only goes on with a
\* resource type if every other of that name is new, gone, or in a group
\* discovery could not read.
NothingIsGuessed ==
  [][\A c \in Callers :
       call'[c].at = "resolved" /\ call[c].at = "resolving" /\ call[c].group = AnyGroup =>
         \A b \in APIs \ {call'[c].api} : Settled(b) => caller[c].partial]_resolutionVars

\* Although the caches age separately (client.go:184-192, 309-317), neither
\* hides a settled resource type from a call, and so a reference of an object
\* that was found is not lost to "no match", unless discovery was partial.
MissesAreNew ==
  [][\A c \in Callers :
       /\ call'[c].at = "unknown kind" /\ call[c].at = "resolving" =>
            \A a \in APIs : Settled(a) /\ call[c].group \in {AnyGroup, a} => caller[c].partial
       /\ call'[c].at = "no match" /\ call[c].at = "mapping" /\ Settled(call[c].api) =>
            caller[c].partial]_resolutionVars
==============================================================================
