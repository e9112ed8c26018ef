------------------------------- MODULE Listing -------------------------------
(***************************************************************************)
(* The tools that list managed resources, composites and claims and look   *)
(* for drift (pkg/toolsets/resources/managed.go, composite.go, drift.go):  *)
(* each is one Client.Query, here KindQuery with its lists cut off at the  *)
(* caller's limit, and a rendering of what it returned.                    *)
(*                                                                         *)
(* What an object looks like goes by its name, so that every kind has one  *)
(* of each.  Two resource types may share a kind: word is what an object's *)
(* "kind" says.  Namespaces and label selectors, which only narrow a list, *)
(* and ages and messages are left out.  How two documents are compared is  *)
(* in FieldDiff.                                                           *)
(***************************************************************************)
EXTENDS KindQuery, FieldDiff

CONSTANTS
  Words,        (* what the objects of each resource type may state as kind  *)
  Arguments,    (* what the tools are called with                            *)
  Looks,        (* what objects may look like: functions from Objs           *)
  MaxChanges    (* steps of other clients, at most                           *)

ASSUME ListingAssumption ==
  /\ IsFiniteSet(Objs)
  /\ \A a \in Arguments :
       /\ a.tool \in {"summary", "managed", "category", "drift"} /\ a.limit \in Nat
       /\ a.status \in IF a.tool \in {"summary", "drift"} THEN {"any"} ELSE {"any", "ready", "not-ready", "not-synced"}
  /\ \A l \in Looks, o \in Objs :
       /\ {l[o].ready, l[o].synced} \subseteq {"True", "False", "Unknown"}
       /\ l[o].policies \subseteq {"*", "Create", "Update", "LateInitialize", "Observe", "Delete"}
       /\ IsDocument(l[o].desired) /\ IsDocument(l[o].observed)

VARIABLES
  args,         (* tool, status, limit, driftedOnly                          *)
  word,         (* the kind each resource type's objects state               *)
  look,         (* ready, synced, paused, policies, desired, observed        *)
  report,       (* what the tool answers                                     *)
  steady,       (* history: the objects that were there all the time         *)
  changes       (* how often other clients have changed anything             *)

toolVars == <<args, word, look, report, steady, changes>>
listingVars == <<vars, toolVars>>

NoReport == [status |-> "none", rows |-> {}, counts |-> <<>>, warnings |-> {}]

ListingInit ==
  /\ Init
  /\ args \in Arguments
  /\ word \in Words
  /\ look \in Looks
  /\ report = NoReport
  /\ steady = {p \in Kinds \X Objs : p[2] \in content[p[1]]}
  /\ changes = 0

\* List with a limit: the API server answers with one page, and nobody asks
\* for the next.
ListPage(k) ==
  /\ ~cancelled
  /\ \E page \in SUBSET content[k] :
       /\ Cardinality(page) = IF args.limit # 0 /\ args.limit < Cardinality(content[k])
                                THEN args.limit ELSE Cardinality(content[k])
       /\ ListReturns(k, IF k \in served THEN Sweep!Listed(page) ELSE Sweep!Dropped)

------------------------------------------------------------------------------
(***************************************************************************)
(* The renderings.                                                         *)
(***************************************************************************)

\* Mutated form: only a resource that says it is not ready is not ready.
StatusMatchesStated(o, status) ==
  \/ status = "any"
  \/ status = "ready" /\ look[o].ready = "True"
  \/ status = "not-ready" /\ look[o].ready = "False"
  \/ status = "not-synced" /\ look[o].synced = "False"

\* filterByStatus: a condition that is missing or Unknown is not met.
StatusMatches(o, status) ==
  \/ status = "any"
  \/ status = "ready" /\ look[o].ready = "True"
  \/ status = "not-ready" /\ look[o].ready # "True"
  \/ status = "not-synced" /\ look[o].synced # "True"

\* CountByKind, by apiVersion and kind.
CountByKind(objects) ==
  [k \in {p[1] : p \in objects} |->
     LET names == {o \in Objs : <<k, o>> \in objects} IN
     [total  |-> Cardinality(names),
      ready  |-> Cardinality({o \in names : look[o].ready = "True"}),
      synced |-> Cardinality({o \in names : look[o].synced = "True"})]]

Summary(objects) == [NoReport EXCEPT !.counts = CountByKind(objects)]

ManagedList(objects) ==
  [NoReport EXCEPT !.rows = {[of |-> p] : p \in {q \in objects : StatusMatches(q[2], args.status)}}]

\* Mutated form: objectKey goes without the kind.
NameAlone(p) == <<"any", p[2]>>

ObjectKey(p) == <<word[p[1]], p[2]>>

\* indexObjects: of several objects with one key the last in the order of the
\* result is kept, and their order is any.
Indexes(objects) ==
  {index \in [{ObjectKey(p) : p \in objects} -> objects] :
     \A key \in DOMAIN index : ObjectKey(index[key]) = key}

\* listCategory: the Composition shown is that of the indexed object.
CategoryList(objects, index) ==
  [NoReport EXCEPT !.rows =
     {[of |-> p, composition |-> index[ObjectKey(p)]] :
        p \in {q \in objects : StatusMatches(q[2], args.status)}}]

WritesToProvider(policies) ==
  policies = {} \/ policies \cap {"*", "Create", "Update", "LateInitialize"} # {}

InspectDrift(p) ==
  LET o == look[p[2]] IN
  [of |-> p,
   fields |-> DiffFields(o.desired, o.observed),
   correcting |-> ~o.paused /\ WritesToProvider(o.policies) /\ o.synced = "True"]

\* Mutated form: a resource that cannot be reconciled is left out with those
\* that match.
DriftOnlyFields(objects) ==
  [NoReport EXCEPT !.rows =
     {r \in {InspectDrift(p) : p \in objects} : args.driftedOnly => r.fields # <<>>}]

DriftReport(objects) ==
  [NoReport EXCEPT !.rows =
     {r \in {InspectDrift(p) : p \in objects} :
        ~(args.driftedOnly /\ r.correcting /\ r.fields = <<>>)}]

\* Query is back: the tool answers with what it got, or with its error.
Answers(r) ==
  /\ report.status = "none"
  /\ report' = [r EXCEPT !.status = "ok", !.warnings = slices.warnings]
  /\ UNCHANGED <<vars, args, word, look, steady, changes>>

Report ==
  /\ caller = "returned"
  /\ \/ args.tool = "summary" /\ Answers(Summary(slices.objects))
     \/ args.tool = "managed" /\ Answers(ManagedList(slices.objects))
     \/ /\ args.tool = "category"
        /\ \E index \in Indexes(slices.objects) : Answers(CategoryList(slices.objects, index))
     \/ args.tool = "drift" /\ Answers(DriftReport(slices.objects))

ReportError ==
  /\ caller = "failed"
  /\ report.status = "none"
  /\ report' = [NoReport EXCEPT !.status = "error"]
  /\ UNCHANGED <<vars, args, word, look, steady, changes>>

------------------------------------------------------------------------------
Querying ==
  /\ \/ KindsFor
     \/ \E k \in Kinds : Spawn(k)
     \/ SpawnedAll
     \/ Return
     \/ \E k \in Kinds :
          \/ Acquire(k) \/ ListPage(k) \/ ListRefused(k) \/ ListCancelled(k)
          \/ Lock(k) \/ AddResult(k) \/ Release(k) \/ Done(k)
     \/ Cancel
  /\ UNCHANGED toolVars

OthersAct ==
  /\ changes < MaxChanges
  /\ ServerStep
  /\ changes' = changes + 1
  /\ steady' = {p \in steady : p[2] \in content'[p[1]]}
  /\ UNCHANGED <<args, word, look, report>>

ListingNext == Querying \/ OthersAct \/ Report \/ ReportError

(***************************************************************************)
(* The scheduler runs every goroutine that can run, the deadline that      *)
(* Server.invoke puts on the call passes, and the handler goes on.         *)
(* Nothing is assumed of the API server: only a list whose context is done *)
(* has to return.                                                          *)
(***************************************************************************)
ListingFairness ==
  /\ WF_listingVars(Cancel /\ UNCHANGED toolVars)
  /\ WF_listingVars(((\E k \in Kinds : Spawn(k)) \/ SpawnedAll \/ Return) /\ UNCHANGED toolVars)
  /\ \A k \in Kinds :
       WF_listingVars(/\ \/ Acquire(k) \/ ListCancelled(k)
                         \/ Lock(k) \/ AddResult(k) \/ Release(k) \/ Done(k)
                      /\ UNCHANGED toolVars)
  /\ WF_listingVars(Report \/ ReportError)

ListingSpec == ListingInit /\ [][ListingNext]_listingVars /\ ListingFairness
------------------------------------------------------------------------------
LimitedSweep == INSTANCE KindSweep WITH
  limit <- args.limit,
  phase <- CASE caller \in {"spawning", "waiting"} -> "sweeping"
             [] caller = "returned" -> "answered"
             [] OTHER -> caller,
  scope <- kinds,
  tally <- outcome,
  answer <- IF caller = "returned" THEN slices ELSE [objects |-> {}, warnings |-> {}]

\* What the tools that list get is what a search of one goroutine under their
\* limit could have got: for each kind all it held at one instant of the call,
\* or as many as the limit, or nothing and a warning (client.go:329-355,
\* query.go:50-106).
ImplementsLimitedSweep == LimitedSweep!Spec

\* What the caller of a tool wants to be told of.
OnlyLooks(policies) == policies # {} /\ policies \subseteq {"Observe", "Delete"}
Corrected(o) == ~look[o].paused /\ ~OnlyLooks(look[o].policies) /\ look[o].synced = "True"

Wanted(o) ==
  /\ args.tool = "drift" /\ args.driftedOnly =>
       ~Corrected(o) \/ DriftedPaths(look[o].desired, look[o].observed) # {}
  /\ args.status = "ready" => look[o].ready = "True"
  /\ args.status = "not-ready" => look[o].ready \in {"False", "Unknown"}
  /\ args.status = "not-synced" => look[o].synced \in {"False", "Unknown"}

\* The list of kind k may have been cut off.
Cut(k) == args.limit # 0 /\ Cardinality(outcome[k].items) >= args.limit

RowObjects == {r.of : r \in report.rows}

\* An object that is there all the time and that the caller asked for is in
\* the answer or counted in it, unless the answer warns about its kind or the
\* limit was reached there; and nothing else is.  The status is looked at
\* after the limit has cut the list off, but that only hides objects of a
\* kind that has as many as the limit (client.go:338-344, managed.go:121-173).
NothingWantedIsHidden ==
  report.status = "ok" =>
    /\ \A p \in steady : p[1] \in kinds /\ Wanted(p[2]) =>
         \/ p[1] \in report.warnings
         \/ Cut(p[1])
         \/ p \in RowObjects
         \/ /\ args.tool = "summary"
            /\ LET there == {o \in Objs : <<p[1], o>> \in steady} IN
               /\ report.counts[p[1]].total >= Cardinality(there)
               /\ report.counts[p[1]].ready >= Cardinality({o \in there : look[o].ready = "True"})
    /\ \A p \in RowObjects : p \in slices.objects /\ Wanted(p[2])

\* The COMPOSITION column of an object is its own, unless two resource types
\* in scope share a kind (inspect.go:241-252, composite.go:94-99).
CompositionIsItsOwn ==
  report.status = "ok" /\ args.tool = "category" =>
    \A r \in report.rows :
      r.composition = r.of \/ \E k \in kinds \ {r.of[1]} : word[k] = word[r.of[1]]

\* The fields of a resource that are reported as drifted are those whose
\* declared and observed values differ, the first maxDriftFields of them in
\* order of their paths, although every level of the walk sorts and cuts for
\* itself (drift.go:148-191).
FieldsAreExact ==
  report.status = "ok" /\ args.tool = "drift" =>
    \A r \in report.rows :
      LET all == DriftedPaths(look[r.of[2]].desired, look[r.of[2]].observed)
          told == {r.fields[i] : i \in DOMAIN r.fields}
      IN /\ told \subseteq all
         /\ Cardinality(told) = Len(r.fields)
         /\ \A i, j \in DOMAIN r.fields : i < j => Before(r.fields[i], r.fields[j])
         /\ all # told => /\ Len(r.fields) = MaxDriftFields
                          /\ \A p \in all \ told, q \in told : Before(q, p)

\* A tool whose kinds are known answers, even if the API server never does:
\* the deadline frees every goroutine, those still waiting for a token
\* included (query.go:69, server.go:184-188).
EventuallyAnswers == caller = "spawning" ~> report.status = "ok"
==============================================================================
