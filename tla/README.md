# Verification of crossplane-mcp-server

crossplane-mcp-server answers the tool calls of an MCP client about Crossplane
control planes. It reads a cluster through client-go, and writes to it with one
tool. These TLA+ modules model its concurrent and its fallible parts, check
them with TLC on small instances, and prove the most important properties for
every instance with TLAPS. Line numbers are of the repository's sources under
`src/`.

```
tlc -workers 2 -config KindQuery.cfg MCKindQuery      # any cfg with its MC module
tlapm Listing_proofs.tla                              # any *_proofs module
```

## The system

| Part | State | Operations | Used by |
|---|---|---|---|
| Tool server (`pkg/mcp/server.go`) | registered and withheld tools, the provider | `NewServer`, `call`, `invoke`: write gate, deadline, `cluster` argument, client, handler, result | MCP client, over stdio or HTTP; `internal/cli` |
| Clients per cluster (`pkg/crossplane/provider.go`, `pkg/kube/config.go`) | one client per target, under a mutex; the kubeconfig and the exposed contexts | `Provider.Client`, `Loader.Resolve`, `Targets` | every tool call |
| Discovery caches (`pkg/crossplane/client.go`) | `apis`, `mapper` and when each was stored, under a mutex | `APIResources`, `RESTMapper`, `ResolveKind`, `GetByReference` | every search, walk and write |
| Concurrent listing (`pkg/crossplane/query.go`) | per call: semaphore, mutex, WaitGroup, two slices | `Query` | lists, health reports, deletions |
| Write path (`pkg/crossplane/write.go`, `pkg/toolsets/provisioning/manifest.go`) | none between calls; per call the progress through a manifest | `parse`, `Apply` per document | `crossplane_resource_apply` |
| Composition tree (`pkg/crossplane/tree.go`) | per call: the tree, the `seen` set, the depth | `Tree`, `treeNode`, `child` | inspect, tree, diagnose, impact |
| Root cause search (`pkg/toolsets/resources/diagnose.go`) | per call: the causes | `deepestUnready`, `investigate`, `diagnose` | `crossplane_diagnose` |
| Usages and deletions (`pkg/crossplane/protection.go`) | per call: `lastErr`, `seen` | `Usages`, `UsagesFor`, `Deleting` | usages_list, deleting_resources, impact |
| Deletion impact (`pkg/toolsets/diagnostics/impact.go`) | per call: the report | `collectDoomed`, `classifyUsages`, `impactVerdict` | `crossplane_impact` |
| Health reports (`pkg/toolsets/diagnostics/diagnostics.go`) | per call: lines of the report | `status`, `unhealthyResources` | the tools of the same names |
| Lists and drift (`pkg/toolsets/resources/managed.go`, `composite.go`, `drift.go`) | per call: the index of objects, the report | one `Query`, filtered, counted, indexed or compared | managed_list, composites, claims, drift_detect |
| Provisioning (`pkg/toolsets/provisioning/claim.go`, `database.go`, `workload.go`) | per call: the pick, the schema, the spec | `resolve`, `pick`, `schemaFor`, `buildSpec`, then the write path | database_create, workload_create |
| Validation and rendering (`pkg/crossplane/validate.go`, `render.go`) | per call: the findings; a directory and the processes of the CLI | `ValidateComposition`, `Render` | composition_validate, composition_render |
| Packages, configuration, events, XRD and Composition lists | none | single reads reshaped for display | their tools |

A tool call runs in a goroutine of the MCP library: `invoke` gives it a deadline
and a client, the handler calls the client, and the client shares nothing with
other calls but its two discovery caches. All else that calls share is the API
server, which other clients and Crossplane's controllers change at any time.

What is hard here:

- goroutines of one search that append to shared slices, bounded by a semaphore,
  while the deadline passes (`KindQuery`);
- calls that discover concurrently and store in any order (`DiscoveryCache`);
- a manifest of several documents whose requests may be lost or answered late,
  next to other writers (`ManifestApply`);
- calls that race for the client of a cluster, which is made under a lock, while
  the kubeconfig is edited and the server told to stop (`ToolServer`);
- walks and searches of many requests, whose parts fail one by one and which
  read objects at different moments (`CompositionTree`, `Diagnosis`,
  `UsageSearch`, `DeletionImpact`, `HealthReport`);
- two caches of different ages asked in one call (`KindResolution`);
- lists cut off before they are filtered, and a comparison that cuts on every
  level of its recursion (`Listing`, `FieldDiff`);
- a claim built from the words of a kind and the schema of an XRD that is read
  in two requests, for an API server that prunes in silence (`Provisioning`);
- processes that may never end, of which the deadline ends one (`CompositionCheck`).

What makes each part correct:

| Part | Correct when |
|---|---|
| Tool server, clients | one client per cluster and one cluster per client; nobody waits for the lock behind a handler; no cluster reached that is not exposed; no write when read-only; every call with a deadline answered, but a render that outlasts it |
| Discovery caches | an answer is never older than the TTL and one discovery, however stores are ordered; no ambiguous kind is guessed, no settled one missed |
| Concurrent listing | every kind accounted for, no append lost, the bound on requests held, and the whole indistinguishable from a sequential search |
| Write path | an error leaves at most one document in doubt; a retry settles it; no field taken over without force; a dry run persists nothing |
| Composition tree | the walk ends, expands nothing twice, and shows all that is below the root when undisturbed |
| Root cause search | the causes are the deepest failures, none below another |
| Usages, deletions, impact | every usage of a kind that could be searched found, whichever kinds are installed; whatever blocks a deletion reported as blocking it |
| Health reports | what is wrong and could be read is counted once; what could not be read is told |
| Lists and drift | nothing asked for is hidden, but behind a limit; a Composition shown is the object's own; the drifted fields are exactly the first ones |
| Provisioning | what was asked for is stored or told; no better fitting API is passed over; the API server refuses nothing that had a form it accepts |
| Validation and rendering | a verdict is right about a control plane left alone; a render ends and leaves no directory, unless docker or a process the CLI left behind is waited for |

## Modules

| Module | Models | Its state and actions in the code |
|---|---|---|
| `KindSweep` | what a search promises | abstract: kinds settled one at a time, by all they hold or as much as a limit lets through, then the answer |
| `Census` | what a health report promises | abstract: each kind looked at once or passed over, then the answer |
| `ClientDirectory` | what `Provider.Client` promises | abstract: clients handed out one at a time, a cluster keeps its own |
| `KindQuery` | `Client.Query` | a variable per local of `Query` (`sem`, `mu`, `wg`, `slices`), an action per step a goroutine can be interrupted after; an append is a read and a write of the slice header |
| `ManifestApply` | `resourceApply`, `parse`, `Client.Apply` | where each call is (`pc`, `at`, `rows`, `answer`), its requests on the `network`, the server's `store`; one action per request sent, carried out, answered or lost |
| `DiscoveryCache` | `APIResources`, `RESTMapper` | `cache` is the pair of snapshots and ages; `Ask`, the external discovery, `Store` |
| `KindResolution` | `ResolveKind`, `Get`, `GetByReference`, as `crossplane_resource_get`, `_tree` and `_events` call them | extends the caches by what a call concludes from each: `call` is where it is |
| `FieldDiff` | `diffFields` | pure: a document is the function from its paths to what is there, the walk a recursive function of the path it is at (`DriftsOf` is one level of it), next to what a drift is without a walk |
| `Listing` | `managedResourcesSummary`, `managedResourcesList`, `listCategory`, `indexObjects`, `driftDetect`, `inspectDrift` | extends `KindQuery` and `FieldDiff`: lists cut at a limit, then the `report` |
| `CompositionTree` | `Client.Tree`, `treeNode`, `child`, `childReferences` | the recursion as a `stack`, the tree as its `nodes` in preorder, one action per Get |
| `Diagnosis` | `diagnose`, `deepestUnready`, `investigate`, `verdictFor` | extends the walk by the second reading and the verdict |
| `UsageSearch` | `Client.Usages` | the loop over three kinds (`asking`) with `lastErr`. A kind may not be found although it is installed, since `ResolveKind` goes by a snapshot that may be old or partial (`client.go:186`): this counts as a failure. `lasting`, `ever` and `missed` only record what was there and what could not be searched |
| `DeletionImpact` | `impact`, `collectDoomed`, `classifyUsages`, `impactVerdict` | composes `CompositionTree` and `UsageSearch` over a server that changes under both |
| `HealthReport` | `status`, `unhealthyResources`, `deletingResources`, `Client.Deleting`, `explainDeletion` | extends `UsageSearch`; a report is a `plan`, the sections still to come, taken in the order of `Position`, each opened, its kinds listed or failed one by one, and closed; `unread` is what failed, `told` what the report says of it |
| `ToolServer` | `run`, `buildServer`, `NewLoader`, `NewServer`, `invoke`, `Provider.Client`, `Loader.Resolve`, `Targets` | `loader` is what was read at the start, `kubeconfig` what the file says now; a call goes idle, waiting, locked, connecting, handling, answered or failed |
| `ControlPlane` | what the next two read | XRDs, Functions, a Composition, the discovery snapshot; others change them |
| `Provisioning` | `databaseCreate`, `workloadCreate`, `resolve`, `pick`, `schemaFor`, `XRDSchemaFor`, `buildSpec`, `place`, `coerce` | `provision` goes from the request to the stored spec, one action per request to the API server and per round of the two loops of `buildSpec` (`PlaceValue`, `PlaceParameter`: a Go map, so in any order) |
| `CompositionCheck` | `ValidateComposition`, `checkCompositeType`, `checkPipeline`, `Render`, `renderEnvironment` | `check` has the findings, or the stage of the render, its directory, whether its context is done (`expired`), and two processes: the `cli`, which the context kills, and one `heir` of its pipes, which nothing does and `cmd.Run` waits for |

`MC<module>` gives the constants their values for TLC (`MCPlatform` those of `Provisioning` and `CompositionCheck`,
`MCDiscoveryCache` those of `KindResolution`). The theorems are in

| Proof module | About |
|---|---|
| `Listing_proofs` | `KindQuery` and `Listing` |
| `ManifestApply_proofs` | `ManifestApply` |
| `KindResolution_proofs` | `DiscoveryCache` and `KindResolution` |
| `CompositionTree_proofs` | `CompositionTree`, `Diagnosis` and `DeletionImpact` |
| `UsageSearch_proofs`, `HealthReport_proofs` | `UsageSearch`, `HealthReport` |
| `ToolServer_proofs` | `ToolServer` |
| `Platform_proofs` | `Provisioning` and `CompositionCheck` |

The modules compose as the code does. `KindQuery` instantiates `KindSweep`
under a refinement mapping. `Listing` runs the goroutines of `KindQuery` under
each tool that lists. `HealthReport` uses one search per section the way
`KindSweep` promises it: each kind settled by itself, at its own instant, so
it need not repeat the goroutines. Three modules are proved to implement an
abstract one under a mapping: the search, without a limit in `KindQuery` and with
one in `Listing`, is a `KindSweep`; the reports of `HealthReport` are a `Census`;
`ToolServer`'s clients are a `ClientDirectory`. `Diagnosis` and `DeletionImpact` extend the
walk; `DeletionImpact` and `HealthReport` extend the search for usages.
`KindResolution` extends the caches, and is proved to use them only as
`DiscoveryCache` says. `Provisioning` and `CompositionCheck` share one control
plane (`MCPlatform`); the apply of `Provisioning` is one step, whose details
are `ManifestApply`. `ToolServer` takes a handler for external: the other
modules are what handlers do.

The API server, the kubeconfig and the clock are external, and appear as
actions of their own: objects, kinds and permissions change between any two
requests of this program, as often as a bound named `MaxChanges`, `MaxMishaps`,
`MaxForeign`, `MaxEvents` or `MaxEdits` allows.

## What the runs check

Each property is stated in words where it is defined. `Mutated form` in a module
marks a definition that a run has been seen to refute when it takes the place
of the next one: it shows that the property can fail.

| Run | Instance | What it shows |
|---|---|---|
| `KindQuery.cfg` | 3 kinds, 2 tokens, 1 object per kind, symmetric in the kinds | at most `ListConcurrency` lists in flight, no append lost (`Bookkeeping`), every kind accounted for (`AnswerComplete`), and the concurrent search implements the sequential one (`ImplementsSweep`) |
| `Listing.cfg` | 2 kinds, of one name or two, 2 objects each, 1 token, 6 calls with limits 0 to 3, 5 ways to be out of order, 1 change | nothing asked for is hidden but behind a limit (`NothingWantedIsHidden`), a Composition is the object's own (`CompositionIsItsOwn`), drifted fields are exactly the first (`FieldsAreExact`), and a tool answers even if the API server never does (`EventuallyAnswers`) |
| `ManifestApply.cfg` | 1 call made twice, manifests of 2 documents, 1 foreign write | an error leaves at most one document in doubt; a malformed manifest touches nothing; a success is not undone by a late request of an earlier attempt (`RetrySettles`) and says "created" truly (`CreatedIsTrue`); writes are confined |
| `DiscoveryCache.cfg` | 2 calls over both caches, 2 types of one name, TTL 2, discovery up to 1, symmetric in both | `AnswersAreRecent` whoever stores last, `SnapshotsAge`; no ambiguous kind is guessed (`NothingIsGuessed`) and no settled one missed in either cache (`MissesAreNew`) |
| `Diagnosis.cfg` | all 512 graphs over 3 objects, depth limit 3, statuses that vary in the downward ones, 2 mishaps, 2 causes | the walk ends, in cycles too, expands nothing twice and is complete where undisturbed; causes are apart, and deepest where no object is reached twice; the verdict for "nothing below it" is not reached |
| `DeletionImpact.cfg` | downward graphs over 3 objects, 3 usages of three kinds, 1 mishap, 1 failed list, 1 change | a usage that is there all along is found (`SearchFindsAll`) and, if it protects what goes, reported as blocking (`NothingProtectedIsMissed`), whatever fails or changes beside it; what is said to be left dangling protects nothing that goes; what is said to be deleted alone is (`AloneMeansAlone`) |
| `Platform.cfg` | 4 landscapes of XRDs over 7 APIs, in one of them an API that another strictly dominates, 64 requests, 19 Compositions, 2 Functions, 1 change during a call, snapshots of any landscape | what was asked for is stored or told (`StoredOrTold`), refusals have a reason, no API that meets more hints is passed over, a verdict is right about a control plane left alone, a render ends unless it waits for docker or for a process that outlived the CLI (`RenderEnds`) |
| `HealthReport.cfg` | 3 objects, 5 calls, 1 failure, 1 change | nothing wrong missed, nothing right reported, a deletion that a usage blocks all along is put down to it, none to a usage that never was there (`WhyIsTrue`) |
| `ToolServer.cfg` | 2 calls, 3 tools, one of which may outlast its context, 2 contexts, 4 command lines, 3 kubeconfigs, 1 edit | one client per cluster and no client for two (`OneClientPerCluster`), only exposed clusters, no write unasked, every call answered unless it is in such a handler |

Three runs show that the code and a statement about it disagree, and TLC
finds the behaviour:

| Run | Statement | What happens |
|---|---|---|
| `ManifestRefused.cfg` | `manifest.go:93-94`: `parse` rejects "anything that could not be applied before the first write goes out" | kinds are only resolved and checked in `Apply`: the first document is written, then the second is refused for its kind |
| `DiagnosisSymptom.cfg` | `README.md:106`: diagnose "finds the deepest failure, not the symptom at the top" | an object reached twice is a leaf the second time, so it is blamed though the failure is below it |
| `HealthSilence.cfg` | `query.go:40-41`: hiding partial failures "would make the answers misleading" | `crossplane_unhealthy_resources` drops warnings and failed searches and answers that nothing is failing |

### Bounds, and why they are enough

- *Kinds, calls, callers, contexts.* The code treats them alike and only two
  can be in each other's way at one mutex or slice; three kinds for two tokens
  let one goroutine wait for a token while two run, two kinds for one token do
  so under the tools that list. For any number, see the proofs.
- *Objects and depth.* Three objects hold a chain, a fork, a shared object, a
  cycle and a self reference. The depth limit of 3 is reached by a chain of
  three; `DiagnosisSymptom` takes four objects, the fewest that show it. In
  graphs with a cycle nothing is ready to begin with, and the second of two
  mishaps comes after the walk, where it meets the second reading: what a
  status is plays no part in the walk, and one mishap disturbs it in any way
  two can.
- *Failures, changes, edits.* One or two, each at any point of a call. The
  properties about usages hold whatever fails and changes, and speak of what was
  there all along and could be read. Where a property speaks of an undisturbed
  call or control plane (`TreeIsComplete`, `CausesAreDeepest`, `CreatedIsTrue`,
  `VerdictIsRight`), the disturbed one is in the run, and others cover it:
  `SomebodyIsBlamed`, `CausesAreApart`, `AtMostOneInDoubt`, `RetrySettles`.
- *Time.* `DiscoveryCache` counts time in units with a TTL of 2, so that a
  snapshot may be fresh, just fresh and stale; ages stop counting where no
  property tells them apart. `MCDiscoveryCache` checks two goroutines racing
  through one cache, and one goroutine through both caches while the API
  surface changes; the proofs are about any number in both.
- *Attempts.* Two: a first attempt that may leave a request on the wire, and
  its retry.
- *Documents of a drift.* Three keys and two levels with a cap of three fields:
  the cap is met exactly, exceeded below a map and exceeded at the top. The
  code's 25 is the constant `MaxDriftFields`.
- *Processes.* Whatever a CLI starts that inherits its pipes is one process:
  `cmd.Run` waits for the last of them.
- *Schemas.* Fields at the top only, below `parameters` only, in both, with the
  types exchanged, and none at all; XRDs of one version and of two.

`CHECK_DEADLOCK FALSE` stands where a behaviour really ends: a call that was
answered, a process that is down, bounds that are used up.

### Fairness

- `Listing` (`ListingFairness`): the scheduler runs every goroutine that can go
  on, a free token or mutex is taken, the handler goes on once the search has
  returned, and the deadline of `invoke` (`server.go:184-188`, two minutes
  unless it is switched off) passes. A list in progress is *not* assumed to end
  by itself, only once its context is done, which client-go requests observe.
- `Diagnosis`: the goroutine runs and every Get of the walk returns, with an
  error at the latest when the deadline passes.
- `CompositionCheck` (`RenderFairness`): the server's own process goes on and
  time passes, so that the two minutes are over at last and the CLI is killed.
  No other process owes anything. Docker need not answer (`render.go:147` starts
  it without a context), the CLI need not end, nor what it has started:
  `exec.CommandContext` kills the CLI alone, and as the output goes to buffers
  and `WaitDelay` is not set (`render.go:100-109`), `cmd.Run` returns only when
  nobody holds the pipes. `RenderEnds` names these two waits as its exceptions.
- `ToolServer`: a call that can go on does; a deadline passes; a handler
  returns once its context is done. A handler with time left may hang, and so
  may one of a tool in `Heedless`, whatever its context: a render is one, for
  the reasons above. Weak
  fairness is enough although the calls compete for a mutex, since each makes
  one attempt and holds it for a finite time: what is done under the lock
  reads files only, the credentials plugin of a context runs with the first
  request. Discovery takes no context, but the discovery client has a timeout
  of its own.

## What is proved

TLAPS checks the proofs for every value of the constants that meets the
assumptions. These say that sets of kinds and objects are finite, bounds are
positive, and the names that stand for "nobody", "none" or "any" are nobody's;
and of arguments, looks, states and requests that they are of the kinds the
code can be given. Four of them are about data and worth knowing:

- `ListingAssumption`: what a look shows of a managed resource is two documents
  (`IsDocument`): finitely many paths, each below a map.
- `ProvisioningAssumption`: the names the tools try for one value are not among
  those of another of the same tool, and none is "parameters"
  (`database.go:70-75`, `workload.go:72-77`); a schema without properties
  declares none.
- `ObjectsAssumption`: a kind that has the name of a section of the report is
  the kind that section lists (a section that lists one fixed kind goes by its
  name), so that the two names are never mistaken for one another.
- `LabelsAssumption`: objects and usages have labels, and no object's label is
  the one for "none".

| Theorem | Says |
|---|---|
| `Listing_proofs`: `BookkeepingInvariant`, `TypeCorrect`, `InFlightBound`, `NothingIsLost`, `AnswersAreComplete` | the safety of the search, for any number of kinds and tokens |
| `Listing_proofs`: `QueryImplementsSweep`, `ListingsImplementLimitedSweep` | the concurrent search implements the sequential one, and under the tools that list the one with a limit: a kind is settled at one instant, by all it holds or as many objects as the limit |
| `Listing_proofs`: `NobodyWaitsForGood`, `QueriesGoDown`, `ListingsGoDown` | a search never gets stuck, and each step of its goroutines and its caller lowers a number nothing raises; for any number of kinds and tokens, alone and under the list tools |
| `Listing_proofs`: `DiffFieldsFirst`, `DriftsAreExact` | what `diffFields` returns, for documents of any depth and breadth: the first of the fields that differ, in order, each once, up to the cap; and so what every drift report says |
| `Listing_proofs`: `ListingInvariant`, `WantedIsNotHidden`, `CompositionsAreOwn` | the list, summary and drift tools hide nothing asked for but behind a limit and show nothing else, and a Composition shown is the object's own; for any arguments, looks and words |
| `ManifestApply_proofs`: `InStepInvariant`, `TypeCorrect`, `OneInDoubt`, `OnlyWhatWasAsked` | calls, requests and the store stay in step, for any number of calls, documents, retries and foreign writes |
| `ManifestApply_proofs`: `IncompleteIsRefused`, `RetryIsSafe`, `CreatedIsCreated` | a malformed manifest sends nothing, a success lasts, "created" is true, for the same |
| `KindResolution_proofs`: `SnapshotsAreAsOldAsTheySay`, `CallersSeeOldChanges`, `TypeCorrect` | no answer older than the TTL and one discovery, for any number of callers |
| `KindResolution_proofs`: `ToolsUseTheCaches`, `NoKindIsGuessed`, `NoOldKindIsMissed` | the tools implement `DiscoveryCache`, and what they conclude from both caches is right, for any number of calls and types |
| `ToolServer_proofs`: `InOrderInvariant`, `TypeCorrect`, `OneClient`, `OnlyExposed`, `WritesAsked` | the safety of the server, for any number of calls, tools, contexts and edits |
| `ToolServer_proofs`: `ServerImplementsDirectory` | the server, with its lock, failures, deadlines and edits of the kubeconfig, implements the directory of clients |
| `ToolServer_proofs`: `NobodyKeepsTheLock`, `CallsMoveOn` | who waits for the lock waits for a call that is looking for its client or making it, and every call makes each of its steps at most once |
| `UsageSearch_proofs`: `SearchIsComplete` | a search finds every usage that is there all along and of a kind it could search, and none that never was; for any usages, failures and changes |
| `CompositionTree_proofs`: `ExpandsOnce`, `WalkFindsAll` | the walk goes below nothing twice, whatever changes, and finds all there is when undisturbed; for any graph, cycles included |
| `CompositionTree_proofs`: `WalksAreBounded`, `WalksGoDown` | a walk makes a bounded number of Gets, is never stuck before it is over, and each of its steps lowers a number nothing else raises; for any graph and changes |
| `CompositionTree_proofs`: `ImpactWalksAreBounded`, `ImpactSearchesForUsages` | within `crossplane_impact` the walk is as bounded, and the search for usages is that of `UsageSearch`, so that what is proved of it holds there |
| `CompositionTree_proofs`: `SomethingIsBlamed`, `CausesStayApart`, `BlameIsRight` | a failure is always blamed on something, no cause is below another, and where no object is reached twice the causes are the deepest failures |
| `CompositionTree_proofs`: `ProtectedIsReported`, `DanglingProtectsNothing`, `AloneIsAlone` | a usage that is there all along, could be found and protects anything that goes is said to block; what is left dangling protects nothing; alone means alone; for any objects, usages, failures and changes |
| `HealthReport_proofs`: `ReportInvariant`, `WrongIsReported`, `RightIsNotReported`, `ReasonsAreTrue` | the reports are right about whatever was in one state throughout, whichever parts fail, and put a deletion down to a usage that blocks it all along; for any objects, kinds and arguments |
| `HealthReport_proofs`: `ReportsAreCensuses` | every report implements the census: no kind is looked at twice, what is counted was there in that state at the instant its kind was looked at, what could not be read is remembered, and the answer comes when no kind is left |
| `Platform_proofs`: `ProvisioningInvariant`, `NothingIsDroppedSilently`, `RefusalsHaveAReason`, `TheBestIsPicked` | what was asked for is stored or told, refusals have a reason, no better API is passed over; for any APIs, schemas, requests and orders of the parameters |
| `Platform_proofs`: `ValidationIsRight` | the verdict on a Composition, for any APIs, Functions and pipelines |
| `Platform_proofs`: `NothingStaysBehind`, `ChecksGoDown` | however a render ends its directory is gone, and so is every process that holds its pipes; each step of a validation or a render, of its deadline and of its processes lowers a number that nothing raises, fourteen at most |

The arguments:

- *`Bookkeeping`* is inductive; `InFlightBounded` alone is not. It counts the
  tokens by the goroutines that are between taking and giving back (so the
  bound needs cardinalities of sets), the WaitGroup by those that are not done,
  and ties the copy of the slice header a goroutine has read to the mutex it
  holds: that is why no append is lost. Refinement follows step by step:
  publishing the answer is `Return`, settling a kind is the return of its list,
  all else stutters.
- *`NobodyIsStuck`* follows from `Bookkeeping`: who holds the mutex can go on;
  if nobody does, whoever holds a token can; if nobody does that either, a token
  is free for anyone who waits for one; and when all goroutines are done the
  WaitGroup is zero and the caller goes on. *`StepsLeft`* counts the steps that
  the goroutines and the caller have still before them, as the cardinality of
  the set of pairs of a kind and a step: a step of a goroutine takes one pair
  out of it. What is left to TLC is only that a step that can be taken is.
- *The limited sweep* of `Listing` needs of a list that what it returns is one
  of the pages its kind has at that instant (`Pages`), which `PageStep` gives by
  cardinality, and that the API server's own steps are the sweep's.
- *`ListingInv`* keeps `Bookkeeping` under lists that are cut off (`PageStep`),
  and adds two things: of a kind that is settled and was neither refused nor
  reached the limit, the list has all that has been there since the beginning
  (a page as large as the whole is the whole, which takes cardinalities); and
  an answer is what its tool makes of the slices, which after `Return` nobody
  can touch, because no goroutine is left. The rest is about the renderings
  alone: a filter that drops exactly what is not asked for, a count over a
  larger set, and an index that agrees with its key in word and name.
- *`DiffFieldsFirst`* is about a walk over documents of any depth, and the
  induction theorems of the library cannot be used for it. It is proved by least
  counterexamples instead: the walk is a function of the path it is at, which
  exists because a level deeper down has a longer path and documents have a
  bound on those (`WalkExists`); then, were its answer wrong anywhere, take a
  longest path where it is. What makes the cut on every level harmless is
  `FirstOf`, which says of a list that it is the first of a set: it survives
  appending what comes later and cutting at the cap (`FirstOfBoth`,
  `FirstOfCapped`), for a field that a lower level has cut has the cap's number
  of fields before it there already.
- *`InStep`* relates three views of a call: where the call is, its request on
  the wire, and what the server persisted. `AtMostOneInDoubt` follows since a
  request in flight is the only one of its attempt and for the document the
  call is at. `Confined` adds that a request carries the document, dry-run and
  force of its call and is only sent for a kind that `Writable` lets through;
  `Refusing` that a manifest that does not parse is never under way.
- *`Settling`* says what lasts: a request carries the document its call has at
  that place, so whichever of a call's attempts lands last writes the same, and
  for a call nobody disturbs all that ever landed is still in effect.
  *`Truthful`* adds that where the existence check found nothing there is still
  nothing, unless an attempt of the same call has been born there meanwhile.
- *`SnapshotsAge`* bounds what a snapshot may still show by the time since its
  discovery began; a store by a slower caller replaces a newer snapshot, and
  its `lag` says so. `KindResolution` shows that its steps are steps of that
  specification, and adds that an answer stays as recent while it is looked at.
- *`InOrder`*: the mutex is held by exactly the calls between locking and
  having a client, the map has no entry for the name such a call connects to,
  and every client a call has is the map's. Entries are never replaced, so two
  calls for one name agree. Names in the map were exposed when they were
  added, and what is exposed never changes after the start.
  *`ClientsAreApart`* adds that no client is in the map under two names, because
  a new one is never one that was given out before. That is what the *directory*
  needs: reading the kubeconfig at the start is `Open`, finding a client in the
  map or connecting a new one is `Give`, all else stutters. `StepsOf` numbers the
  states of a call in the order it goes through them.
- *`Progress`*: what is there all along, of the kinds the loop is past and did
  not miss, has been found, and what has been found was there at some time.
- *`TreeInv`* ties the preorder list of nodes to the recursion: the depths of
  the activations fall by one from the innermost to the outermost, so that a
  node has been gone below exactly if it has children or is the innermost
  activation's own; each of those is in `seen`, which `treeNode` asks.
- *`BoundInv`* bounds the walk: `Ahead` counts the references still on the
  lists of the activations, the activations, and for every object not yet in
  `seen` as many references as there are objects and one activation. Every Get
  and every return lowers it: an object is put in `seen` when its references are
  put on a list, so that the last part pays for the others. That no object is
  expanded twice is why the walk ends in cycles too.
- *`WalkInv`* makes the walk's answer an invariant of the walk, so that no
  induction over what it computes is needed: of the first node of every object
  above the depth limit, each reference has a node below it or is still on the
  list of the activation at its depth (`GoneBelow`), and every node but the
  root hangs below one that refers to it (`Rooted`). When the stack is empty
  the nodes are closed under references, so that `Reachable`, the least closed
  set, is among them; and no node is outside it, because the first one that was
  would hang below one that is inside.
- *`BlameInv`* adds that the last failure in preorder has none below it, so
  there is always one to blame, and *`OrderInv`* that causes and suspects are
  deepest failures in the order of the tree: two of them are never above one
  another, because the one above would not be deepest. *`CoverInv`* says that
  none is left out, and, where no object is in two places, that what hangs
  below a node is all that is below its object.
- *`ImpactInv`* puts the walk's and the search's invariants side by side: the
  steps of either leave the other alone, and the report is made of both. What
  goes (`Doomed`) is the tree that was read, and with a whole tree all that is
  below the resource: `WalkInv` makes the two one.
- *`HealthInv`* says the promises of the sections that are over (`SoFar`) and of
  those kinds of the section at hand that were listed (`Underway`). A row is
  honest about an object nothing happened to, and its reason is what
  `explainDeletion` makes of usages that are no longer read by then.
- *`CensusInv`* is what the mapping to `Census` needs beside it: between sections
  nothing is left over from the last one, a report that broke off does nothing
  more, and what is still to be looked at is not among what could not be read.
  A list that returns is `LookAt`, one that fails or a section that cannot be
  opened is `PassOver`, and opening and closing sections stutter.
- *`Provisioned`* holds in every round of `buildSpec`: what has been set has the
  form of the declared type (`Conforms`), each of the tool's values handled so
  far is in the spec, or reported, or an explicit parameter has taken its place
  (`Kept`), and the schema that was read is the API server's (`SchemaIsServers`).
  It is inductive in whatever order the parameters come because two of them
  never have one name, and one called "parameters", which replaces what is
  below it, is an exception of its own. *`TheBestIsPicked`* rests on a score
  being the number of `Points`, a set that grows with the hints a kind meets.
- *`Checked`* says at every point of a validation what has been found by then;
  a kind is found if and only if one API has its name and group, which needs
  the cardinality of what discovery returned.

- *`Tidy`* ties the directory of a render to its stage: it is there from the
  moment it is made until the deferred removal, which every way out passes.
  The processes are alive only while `cmd.Run` waits, which is before the
  removal. `StepsToGo` adds what they and the deadline have before them.

TLC checked each of these invariants on the run of its module before it was
proved, and on the same instances the definitions that have no entry in a cfg:
the measures, `NobodyIsStuck`, `WaitsAreShort`, `NothingIsLeft`, and the
refinements `ImplementsLimitedSweep`, `ImplementsDirectory`, `ImplementsCensus`. `TypeCorrect` and `NothingIsLost` have no entry of their own in a cfg:
they are conjuncts of `Bookkeeping`, `InStep` and the other inductive invariants.

Model-checked only: liveness (`EventuallyAnswers`, `WalkEnds`,
`EveryCallAnswered`, `RenderEnds`), which like `ENABLED` is out of the prover's
reach. Their safety side is proved: that steps lower a number which nothing
raises (`ListingsGoDown`, `WalksGoDown`, `CallsMoveOn`, `ChecksGoDown`), and that
nobody waits for good (`NobodyWaitsForGood`, `NobodyKeepsTheLock`); what stays
with TLC is that fair behaviours take the steps. Every other property of a passing run is the statement of a
theorem.

## Divergences met while modelling

Besides the three runs above, seen in the source and left without a run:

- `write.go:42, 112-127`: whether an object was created is asked in a request
  before the one that applies it, and wrong if somebody else creates it between
  the two. `CreatedIsTrue` says when it is right.
- `claim.go:277, 293-301` against `claim.go:233-236` ("Rather than guessing and
  having the API server silently prune"): where the schema gives `spec` no
  properties, values go below `spec.parameters` as if there were no schema, and
  the answer reports nothing as ignored. `StoredOrTold` leaves this case out.
- `claim.go:258-262`: an explicit parameter the schema does not declare is sent,
  pruned by the API server, and the answer does not say so; one called
  "parameters" replaces what was set below it or is added to, in the order of a
  Go map.
- `database.go:79-82`, `claim.go:146-152`: a generic `Database`, which counts
  double for its exact hint (10), beats `RedisInstance` (8) and `PgCluster` (6)
  and ties with `MySQLInstance`, although the specific kind is said to win.
  `NothingDominatesThePick` states what the scores do guarantee.
- `claim.go:318-336`: numbers of a JSON object are `float64`, which `coerce`
  does not convert, so that `storageGB: 50` in the parameters is refused where
  the schema says string.
- `claim.go:284-291, 319-336`: an explicit parameter called "parameters" is set
  as it is, and `coerce` does not look inside it, so that a version given as
  digits there is refused where the schema says integer, although the same
  value one level up is converted. `RejectedForGoodReason` names this exception
  (`IsVerbatim`).
- `validate.go:78-82`: a failed discovery is reported as a kind that is "not
  installed"; the version in `compositeTypeRef` is not looked at, and a kind
  that is no composite is only a warning, with the Composition called valid.
- `drift.go:219-222`: with no report to show, the text says "None have drifted"
  and drops the warnings about kinds that could not be listed (the structured
  answer has them).
- `drift.go:208-210`: a resource with the policy `Create` or `LateInitialize`
  alone counts as one Crossplane would correct.
- `client.go:338-344`, `managed.go:121-173`: the limit cuts a list off before
  the status filter looks at it.
- `inspect.go:241-252`: objects are indexed without their group, so that of two
  kinds of one name either may show the Composition of the other.
- `render.go:24-26` ("renderTimeout bounds a render") and `README.md:459`
  ("Maximum time a single tool call may run"): neither bounds a `docker context
  inspect` that hangs (`render.go:147`, without a context), nor the wait for a
  process that keeps the pipes open after the CLI was killed (`render.go:100-109`,
  without `WaitDelay`). Without either of the two exceptions of `RenderEnds`, TLC
  finds a render that never ends.
- `render.go:97, 115-118`: a render cut off by the caller's deadline is also
  said to have "timed out after 2m0s".
- `config.go:76-92`: packages that cannot be listed are left out of the users
  of a runtime config without a word.
- `manifest.go:127-137`: the progress an error reports reads as if it had been
  applied although the call was a dry run.
- `diagnose.go:244-245`: "%d resources are failing" counts causes, at most
  `maxRootCauses`.
- `protection.go:69, 84-89`, `diagnostics/protection.go:108`: a list of usages
  that fails for lack of permission is dropped, and the answer is that nothing
  is protected; whether the control plane supports usages is decided by the
  last error of three.
- `protection.go:230-236`: the finalizer of a usage contains "apiextensions",
  so the case for usages is not reached for it.
- `impact.go:148`: usages are matched by kind and name without namespace, so
  one of another namespace counts.
- `impact.go:125, 168-170`: the external name of a doomed resource is looked
  for but never filled in.
- `diagnostics.go:260-261`: a negative `limit` is a slice out of range
  (`clusters.go:51` guards the same cut). `SectionPanics` models it.
- `diagnostics.go:120, 219`: status counts an XRD by one condition, the report
  on unhealthy resources by all.
- `cli.go:157-169`: the process does not wait for `Shutdown`; calls under way
  end with it (`Signal`, `Exit`).
- `config.go:150-166`: after an edit of the kubeconfig, `crossplane_clusters_list`
  still shows the server a context pointed to at the start.

## Not modelled

- *Formatting, prompts, schemas of arguments, transports* (`internal/cli` flags,
  `api`, `prompts.go`, the MCP SDK): display and library code without state.
- *Versions and Compositions in `crossplane_status`; `crossplane_api_resources`;
  `crossplane_xrds_list`, `_xrd_schema`, `_compositions_list`; packages,
  configuration and events*: single reads reshaped for display, with nothing
  between two requests to go wrong.
- *`Sanitize` and `Manifest`* of the write path rewrite a document, whose
  content the modules do not tell apart.
- *Matching of names*: that a kind may be given in any case, in the plural or by
  its short name (`ResolveKind`) is one way to name it in the modules.
- *Dry runs and namespaces of provisioning* are those of the write path, where
  they are modelled; XRD versions that are not served, which `XRDSchemaFor` passes
  over, are not there in `ControlPlane`.
- *Namespace and label selectors, ages and messages* of lists only narrow or
  decorate them.
- *What a render printed* (`summariseRendered`): a YAML stream read once.

## What is left

In order of what would add most:

1. One abstract report for the answers of `Listing` and `DeletionImpact` too, as
   `Census` is for `HealthReport`.
2. The versions of an XRD that are not served, and the tools that only read.
