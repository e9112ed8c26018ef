---------------------------- MODULE HealthReport ----------------------------
(***************************************************************************)
(* The three tools that report on a whole control plane, each from a       *)
(* sequence of searches any of which may fail:                             *)
(*                                                                         *)
(*   crossplane_status and crossplane_unhealthy_resources                  *)
(*   (pkg/toolsets/diagnostics/diagnostics.go): packages, XRDs, and the    *)
(*   resources of the three categories;                                    *)
(*   crossplane_deleting_resources (diagnostics/protection.go and          *)
(*   Client.Deleting): usages, then the resources of the categories.       *)
(*                                                                         *)
(* A category is searched with Client.Query, whose promise is that of      *)
(* KindSweep: every kind is settled by itself, at an instant of its own,   *)
(* as listed or as a warning.  The API server is external and changes      *)
(* throughout.  Of the conditions of an object only whether they are True  *)
(* is kept, and of its finalizers the first that explainDeletion knows.    *)
(* The versions and Compositions that status counts are left out.          *)
(***************************************************************************)
EXTENDS UsageSearch, Integers

CONSTANTS
  Objects,        (* packages, XRDs and resources there may be                *)
  KindOf,         (* the kind of each                                         *)
  SectionOf,      (* the section each kind is searched in                     *)
  Protected,      (* spec.of of each usage: the object it protects            *)
  Arguments,      (* the calls there may be: a tool and its arguments         *)
  StatesFor       (* for each of the three tools, the states objects may have *)

Packages == {"Provider", "Function", "Configuration"}
Categories == {"managed", "composite", "claim"}

\* The sections of the reports, and the order they are searched in.
Position == [Provider |-> 1, Function |-> 2, Configuration |-> 3, XRD |-> 4,
             managed |-> 5, composite |-> 6, claim |-> 7]
Sections == DOMAIN Position

Kinds == DOMAIN SectionOf

(***************************************************************************)
(* An object: its conditions, "-" if it publishes none; since when it has  *)
(* a deletion timestamp, recently or for stuckAfter and more; and what     *)
(* finalizer holds it.                                                     *)
(***************************************************************************)
Holds == {"none", "composite", "managed", "usage", "other"}
State == [ready : {"True", "False", "-"}, leaving : {"no", "recent", "stuck"}, hold : Holds]
Gone == [ready |-> "gone", leaving |-> "no", hold |-> "none"]

ASSUME ObjectsAssumption ==
  /\ IsFiniteSet(Objects) /\ KindOf \in [Objects -> Kinds]
  /\ SectionOf \in [Kinds -> Sections]
  /\ \A k \in Kinds \cap Sections : SectionOf[k] = k /\ k \notin Categories  \* names that are both
  /\ Protected \in [Usages -> Objects]
Tools == {"status", "unhealthy", "deleting"}

ASSUME ArgumentsAssumption ==
  /\ Arguments \subseteq [tool : Tools, scope : {"all", "packages"} \cup Categories,
                          limit : Int, includeRecent : BOOLEAN]
  /\ DOMAIN StatesFor = Tools
  /\ \A tool \in Tools : StatesFor[tool] \subseteq State \cup {Gone}

VARIABLES
  objects,   (* the API server: the state of every object                     *)
  steady,    (* the objects nothing happened to since the call began          *)
  args,      (* the tool and its arguments                                    *)
  plan,      (* the sections still to be searched                             *)
  reading,   (* whether the first of them is being searched                   *)
  pending,   (* its kinds still to be listed                                  *)
  got,       (* what the lists of this section returned                       *)
  rows,      (* what the report counts: an object, as it was, and why         *)
  unread,    (* the sections and kinds that could not be read                 *)
  told,      (* those of them the report mentions                             *)
  shown,     (* how many rows of each section the report has                  *)
  stage      (* where the call is                                             *)

call == <<args, plan, reading, pending, got, rows, unread, told, shown, stage>>
vars == <<usageVars, objects, steady, call>>

InScope(s) ==
  CASE args.tool = "status"    -> TRUE
    [] args.tool = "deleting"  -> s \in Categories
    [] args.tool = "unhealthy" ->
         \/ args.scope \in {"all", s}
         \/ args.scope = "packages" /\ s \notin Categories

Init ==
  /\ args \in Arguments
  /\ objects \in [Objects -> StatesFor[args.tool]]
  /\ SearchInit
  /\ args.tool # "deleting" => installed = {}     \* the others do not look
  /\ steady = Objects
  /\ plan = {s \in Sections : InScope(s)}
  /\ reading = FALSE
  /\ pending = {}
  /\ got = {}
  /\ rows = {}
  /\ unread = {}
  /\ told = {}
  /\ shown = [s \in Sections |-> 0]
  /\ stage = "reading"

------------------------------------------------------------------------------
(***************************************************************************)
(* What a report picks out.  Packages have to be Installed and Healthy,    *)
(* XRDs and resources to report at least one condition and no other than   *)
(* True: Summary.Healthy.  A deletion counts once it is stuck.             *)
(***************************************************************************)
Healthy(state) == state.ready = "True"

\* Mutated form: includeRecent is not looked at.
PicksRecent(state) ==
  CASE args.tool = "status"    -> TRUE
    [] args.tool = "unhealthy" -> ~Healthy(state)
    [] args.tool = "deleting"  -> state.leaving # "no"

Picks(state) ==
  CASE args.tool = "status"    -> TRUE
    [] args.tool = "unhealthy" -> ~Healthy(state)
    [] args.tool = "deleting"  ->
         state.leaving = "stuck" \/ (args.includeRecent /\ state.leaving = "recent")

\* Mutated form: the finalizer is looked at before the usages.
ExplainByFinalizer(o, state) ==
  CASE args.tool # "deleting"    -> "-"
    [] state.hold = "composite"  -> "composed resources"
    [] state.hold = "managed"    -> "provider"
    [] state.hold = "usage" \/ (outcome = "usages" /\ \E u \in found : Protected[u] = o) -> "usage"
    [] OTHER                     -> "finalizer"

\* explainDeletion
Explain(o, state) ==
  CASE args.tool # "deleting"    -> "-"
    [] outcome = "usages" /\ \E u \in found : Protected[u] = o -> "usage"
    [] OTHER ->
         CASE state.hold = "none"      -> "imminent"
           [] state.hold = "composite" -> "composed resources"
           [] state.hold = "managed"   -> "provider"
           [] state.hold = "usage"     -> "usage"
           [] state.hold = "other"     -> "finalizer"

Row(o, state) == [obj |-> o, state |-> state, why |-> Explain(o, state)]

\* Client.Deleting searches for usages before anything else.
LooksUpUsages ==
  /\ args.tool = "deleting"
  /\ Search
  /\ UNCHANGED <<objects, steady, call>>

Ready == args.tool = "deleting" => outcome # "none"

\* The section whose turn it is.
Now == CHOOSE s \in plan : \A t \in plan : Position[s] <= Position[t]

(***************************************************************************)
(* A section cannot be searched: its kinds cannot be resolved, or the one  *)
(* list of packages or XRDs fails.  The report goes on with the next.      *)
(***************************************************************************)
Tells(s) ==
  CASE args.tool = "status"    -> s # "XRD"
    [] args.tool = "unhealthy" -> s \in Categories
    [] args.tool = "deleting"  -> TRUE

\* Mutated form: the report ends at the first section that fails.
FailAndStop ==
  /\ Ready /\ ~reading /\ plan # {}
  /\ failures < MaxFailures
  /\ failures' = failures + 1
  /\ plan' = {}
  /\ unread' = unread \cup {Now}
  /\ told' = IF Tells(Now) THEN told \cup {Now} ELSE told
  /\ UNCHANGED <<protection, changes, search, objects, steady,
                 args, reading, pending, got, rows, shown, stage>>

SectionFails ==
  /\ Ready /\ ~reading /\ plan # {}
  /\ failures < MaxFailures
  /\ failures' = failures + 1
  /\ plan' = plan \ {Now}
  /\ unread' = unread \cup {Now}
  /\ told' = IF Tells(Now) THEN told \cup {Now} ELSE told
  /\ UNCHANGED <<protection, changes, search, objects, steady,
                 args, reading, pending, got, rows, shown, stage>>

SectionOpens ==
  /\ Ready /\ ~reading /\ plan # {}
  /\ reading' = TRUE
  /\ pending' = {k \in Kinds : SectionOf[k] = Now}
  /\ got' = {}
  /\ UNCHANGED <<usageVars, objects, steady, args, plan, rows, unread, told, shown, stage>>

KindIsListed(k) ==
  /\ k \in pending
  /\ pending' = pending \ {k}
  /\ got' = got \cup {Row(o, objects[o]) : o \in {p \in Objects : KindOf[p] = k /\ objects[p] # Gone}}
  /\ UNCHANGED <<usageVars, objects, steady, args, plan, reading, rows, unread, told, shown, stage>>

\* Query makes a warning of a list that fails, which only Deleting passes on.
KindFails(k) ==
  /\ k \in pending
  /\ SectionOf[k] \in Categories
  /\ failures < MaxFailures
  /\ failures' = failures + 1
  /\ pending' = pending \ {k}
  /\ unread' = unread \cup {k}
  /\ told' = IF args.tool = "deleting" THEN told \cup {k} ELSE told
  /\ UNCHANGED <<protection, changes, search, objects, steady,
                 args, plan, reading, got, rows, shown, stage>>

\* Only the resources of a category are cut to limit, and cutting them to
\* less than none is a slice out of range: the process panics.
CutsOff(picked) ==
  args.tool = "unhealthy" /\ Now \in Categories /\ Cardinality(picked) > args.limit

SectionCloses ==
  LET picked == {r \in got : Picks(r.state)}
  IN  /\ reading /\ pending = {}
      /\ CutsOff(picked) => args.limit >= 0
      /\ reading' = FALSE
      /\ plan' = plan \ {Now}
      /\ rows' = rows \cup picked
      /\ shown' = [shown EXCEPT ![Now] = IF CutsOff(picked) THEN args.limit ELSE Cardinality(picked)]
      /\ got' = {}
      /\ UNCHANGED <<usageVars, objects, steady, args, pending, unread, told, stage>>

SectionPanics ==
  /\ reading /\ pending = {}
  /\ CutsOff({r \in got : Picks(r.state)}) /\ args.limit < 0
  /\ stage' = "panicked"
  /\ reading' = FALSE
  /\ plan' = {}
  /\ UNCHANGED <<usageVars, objects, steady, args, pending, got, rows, unread, told, shown>>

\* With nothing to report, unhealthy_resources drops the text it has so far,
\* what it says about searches that failed included.
Return ==
  /\ Ready /\ ~reading /\ plan = {} /\ stage = "reading"
  /\ stage' = "answered"
  /\ told' = IF args.tool = "unhealthy" /\ rows = {} THEN {} ELSE told
  /\ UNCHANGED <<usageVars, objects, steady, args, plan, reading, pending, got, rows, unread, shown>>

------------------------------------------------------------------------------
\* Controllers and other clients change an object.  A deletion begins with
\* no time behind it, and no other change makes it stuck.
ObjectChanges(o) ==
  /\ changes < MaxChanges
  /\ changes' = changes + 1
  /\ \E state \in StatesFor[args.tool] \ {objects[o]} :
       /\ state.leaving = "stuck" => objects[o].leaving = "stuck"
       /\ objects' = [objects EXCEPT ![o] = state]
  /\ steady' = steady \ {o}
  /\ UNCHANGED <<protection, failures, search, call>>

\* A deletion has been pending for stuckAfter.
TimePasses(o) ==
  /\ objects[o].leaving = "recent"
  /\ objects' = [objects EXCEPT ![o].leaving = "stuck"]
  /\ steady' = steady \ {o}
  /\ UNCHANGED <<usageVars, call>>

Step ==
  \/ LooksUpUsages
  \/ SectionFails
  \/ SectionOpens
  \/ \E k \in Kinds : KindIsListed(k) \/ KindFails(k)
  \/ SectionCloses
  \/ SectionPanics
  \/ Return

Next ==
  \/ Step
  \/ /\ stage = "reading"
     /\ \/ \E o \in Objects : ObjectChanges(o) \/ TimePasses(o)
        \/ args.tool = "deleting" /\ UsagesChange /\ UNCHANGED <<objects, steady, call>>

Spec == Init /\ [][Next]_vars
------------------------------------------------------------------------------
Searched(o) ==
  /\ InScope(SectionOf[KindOf[o]])
  /\ SectionOf[KindOf[o]] \notin unread
  /\ KindOf[o] \notin unread

\* What the descriptions of the three tools promise to report on.
ToBeReported(o) ==
  /\ objects[o] # Gone
  /\ args.tool = "unhealthy" => objects[o].ready # "True"
  /\ args.tool = "deleting" =>
       objects[o].leaving \in IF args.includeRecent THEN {"recent", "stuck"} ELSE {"stuck"}

\* Whatever else of a report fails, and whatever changes around it, an object
\* that was in a state to be reported from beginning to end of the call, and
\* whose kind could be searched, is counted (diagnostics.go:183-275,
\* protection.go:158-177).
NothingWrongIsMissed ==
  stage = "answered" =>
    \A o \in steady : ToBeReported(o) /\ Searched(o) =>
      \E r \in rows : r.obj = o

\* No object is counted twice, or after all was well with it, or going
\* according to plan, all along.
NothingRightIsReported ==
  stage = "answered" =>
    /\ \A r, s \in rows : r.obj = s.obj => r = s
    /\ \A r \in rows :
         /\ InScope(SectionOf[KindOf[r.obj]])
         /\ r.obj \in steady => r.state = objects[r.obj] /\ ToBeReported(r.obj)

\* A deletion that a usage refuses all along is explained by that usage, if its
\* kind could be searched, and none is put down to a usage that never was there,
\* whatever fails or changes meanwhile (protection.go:192-218, 221-241).
WhyIsTrue ==
  stage = "answered" /\ args.tool = "deleting" =>
    \A r \in rows :
      /\ (\E u \in Findable : Protected[u] = r.obj) => r.why = "usage"
      /\ r.why = "usage" => r.state.hold = "usage" \/ \E u \in ever : Protected[u] = r.obj

\* "Partial failures are normal on a control plane where a provider is
\* mid-upgrade, and hiding them would make the answers misleading."
\* (pkg/crossplane/query.go:40-41): a report mentions what it could not read.
FailuresAreTold == stage = "answered" => unread \subseteq told

(***************************************************************************)
(* What a report amounts to, made of the sections that are over and of     *)
(* what the lists of the one at hand have returned.                        *)
(***************************************************************************)
InReport == {k \in Kinds : InScope(SectionOf[k])}
Settled ==
  {k \in InReport : SectionOf[k] \in plan => reading /\ SectionOf[k] = Now /\ k \notin pending}
Unreadable(k) == k \in unread \/ SectionOf[k] \in unread
Missing == {k \in Settled : Unreadable(k)}
Countable == {state \in State : Picks(state)}
Picked == rows \cup {r \in got : Picks(r.state)}
Counted == {[obj |-> r.obj, state |-> r.state] : r \in Picked}

Counting == INSTANCE Census WITH
  States <- State, Absent <- Gone, world <- objects, picks <- Countable,
  scope <- InReport, settled <- Settled, missing <- Missing, counted <- Counted

\* Each report is a census: whatever else fails or changes, what it counts it
\* saw at one instant, kind by kind, and it answers when it has been through
\* all of them (diagnostics.go:63-166, 168-283; protection.go:148-190).
ImplementsCensus == Counting!Spec
==============================================================================
