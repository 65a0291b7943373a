# A verification project for Agent Features

TLA+ models of the gateway (`gateway/`, Python) and of the operator
(`operator/`, Go) of Agent Features, the TLC runs that check them on small
instances, and TLAPS proofs of their safety properties. Paths below are relative to the
repository; `PROJECT.json` maps every definition to the lines it models.

## 1. The system

| Part | State | Operations | Talks to |
|---|---|---|---|
| Outcome counters, `gateway/ranking.py` `MetricsStore` | three counters per feature id, a lock | `record` (locked), `get` (unlocked, hands out the live object) | every invoking route records; ranking reads |
| Ranking, `ranking.py` `MetricsPolicy`, `BaselinePolicy` | none | `score`, `rank` | counters, `rank_features` |
| Versions and selection, `gateway/catalog.py` | none | `match_version`, `rank_features`, `resolve_feature` | ranking, capability routes |
| Catalogs, `catalog.py` | dev: a fixed dict; cluster: the API server's Feature resources | `list`, `get` | every route; `_resolve` reads it a second time |
| Invokers, `gateway/invoker.py` | a channel per endpoint | `invoke`, `close` | workloads over gRPC, with a deadline |
| Invocation path, `gateway/main.py`, `mcp.py`, `validation.py` | none of its own | REST by name and by capability, chat stream, MCP `tools/call`; listings, MCP `initialize`, notifications | catalog, validation, invoker, counters |
| Composer, `gateway/composer.py` and its routes | the registry of composites; per run a context and a trace | publish (`/compose`, `/agents/compile`), list, run | the capability path, once per step |
| Agent DSL, `gateway/agentdsl.py` | none | `parse`, `codegen` | publishes composites; the clients it writes call them |
| Signing, `gateway/signing.py` | bundles and temporary files on disk | `resolve_bundle`, `verify` | catalog, cosign, CI that delivers bundles |
| Operator, `feature_controller.go`, `cmd/main.go` | none beyond informer caches and the work queue | `Reconcile`, `fail`, `setCondition` | API server; publishes the endpoint the gateway resolves |
| Dashboard, samples, infrastructure | – | – | – |

How they interact: routes declared `async def` run on one event loop and give
way only at an `await`; routes declared `def` run on a thread pool. Both share
the counters and the composite registry. The gateway and the operator share
nothing but the Feature resources in the API server: the operator writes
`status.endpoint`, the gateway reads it, and pods are rolled out underneath.

What is hard, and what makes each part right:

* *counters*: a score is put together from several unlocked reads while another
  thread is inside `record`. Every outcome is to count exactly once, and a rate is
  to be a rate;
* *selection*: a ranking that learns; ties, leading zeros in versions, pins.
  The best eligible provider is to be served, whatever was recorded;
* *invocation*: two catalog reads and a rollout around one call; deadlines,
  clients that hang up, malformed resources, blocking calls inside coroutines,
  outputs that cannot be encoded. Counters, answers and executions
  are to agree and every request is to end;
* *composer*: composites replaced while runs await a step, steps failing after
  earlier ones had effects, listings of a registry that grows. Data is to flow
  as composed, results are all or nothing, and the generated clients are to see
  which;
* *signing*: two catalog reads, a file that CI replaces, and a process that may
  hang on a thread that others wait for. A digest called verified is to be one
  that was signed, and nothing is to be left behind or stuck;
* *operator*: lagging caches, conflicts, partial failures, crashes, events
  caused by its own writes, revisions whose pods never come up. It is to
  converge and then to rest, never to report what it has not applied, and to
  keep serving while it updates.

The full list, line by line, is `hazards` in `PROJECT.json`.

## 2. Modules

* `OutcomeCounters` – the abstract specification of the counters: one
  indivisible step per outcome.
* `MetricsStore` – `record` and `score`, one step per attribute access (`+=` is
  a load and a store). `SwitchAnywhere` chooses between switching threads
  everywhere and only where CPython 3.11 (the interpreter of
  `gateway/Dockerfile`) does, which is at calls. `Outcomes` instantiates
  `OutcomeCounters` with the counters minus the half-done update of the lock's
  holder: the refinement `CountsEveryOutcomeOnce`.
* `Versions` – the version arithmetic as operators. Versions are sequences of
  parts, a range is an operator, a possible blank, parts, and the number of dots in
  a `-suffix` (which `~` counts as parts); a part that is not a number counts as 0,
  as in `_semver_key`. `Satisfies` is the docstring's
  meaning, by components, and shares nothing with the computation of upper ends.
* `Marketplace` (extends `Versions`) – ranking, pins and the learning loop, one
  request at a time. Scores are exact fractions scaled by 20 (the code's floats
  differ from them by rounding only). The sort key is tier, version and vendor, as in
  `rank_features`; the sort is stable, so what ties in the key keeps the order of the
  list that was ranked: names for the routes, which rank what `list()` returns
  (`BaselineBefore`), and the order of insertion for the in-memory catalog's summaries
  and `resolve` (`SeededBefore`). Counters are capped by `MaxInvocations`:
  at the cap only outcomes that leave the rate and the average alone are taken.
* `Gateway` – concurrent requests, in cluster or dev mode as `create_app`
  decides. An invocation goes from received (before the first catalog read) to
  validated (before `_resolve`) to sent to done; Feature resources and workloads
  change between any two of these. Other requests do not: a REST or MCP handler
  holds the event loop from its first read to the gRPC call (`Blocks`,
  `LoopFree`), since the Kubernetes client is synchronous; a chat handler lets go
  at every event it streams. In dev mode the catalog is fixed and the handler
  runs in the loop (`RunLocally`), with the outcomes the samples can have.
  Listings and messages answered without the catalog are one step. A schema is a
  model value and a payload the set of schemas accepting it. Which provider ranks
  first is left open. So is the invoker's cache of channels: look-up and store are one
  step, before anything in the call can fail, and nothing a request sees tells a kept
  channel from a new one.
* `AgentDsl` – the DSL's `parse` as operators on a document's statements: what
  is an error, that the last of several agent names and outputs wins, and that
  an argument it does not recognise is skipped. The clients `codegen` writes are
  given by what they make of a reply: an output, nothing, or an error.
* `Composer` (extends `AgentDsl`) – composite runs. A value is its producer, so that
  data flow can be checked, and the set of paths that lead to something inside it;
  `Resolves` walks a reference part by part. What a workload answers is open, since
  outputs are not validated. So is whether JSON can carry what a run ends with
  (`odd`): the route encodes the result after the run, and answers 500 for it
  whatever the run came to. A composite posted with an input schema that is not one
  (`broken`) makes validation raise before the run. A composite's capability is its name, the default of
  `model_post_init`. A run may also be a listing, which reads the registry name by
  name on another thread and fails, as Python's iterator does, when the registry
  has grown.
* `Signing` – calls of the signature route and readiness probes on a thread pool
  of `PoolSize`, while the feature is edited and CI delivers and withdraws
  bundles. Digest and manifest are a revision, a bundle is the revision it signs and
  who signed it. cosign exits with 0 only for a bundle of the blob it was given, made
  by CI where `SIGNING_IDENTITY` is set and by anybody where it is not; it may
  exit otherwise for any reason (no identity, no network, arguments), which the code
  reports as `failed` all the same.
* `Operator` – one Feature reconciled. A spec, its generation and the objects
  built from it are one revision number. Resource versions are only compared for
  equality, so the model keeps which copies are `current`. `CreateOrUpdate` on an
  object that is as desired may or may not send an update, because the mutate
  functions omit the API server's defaults. A Deployment has the set of revisions
  with available pods: an update adds the new one before the old ones go, and a
  revision in `broken` never comes up.
* `MetricsStoreProofs`, `VersionsProofs`, `MarketplaceProofs`, `GatewayProofs`,
  `SigningProofs`, `OperatorProofs`, `ComposerProofs` – theorems.
* `MCMetricsStore`, `MCMarketplace`, `MCGateway`, `MCComposer` – small instances.

External parts, modelled from how the code uses them: the API server,
informers, garbage collector, Deployment controller, users, workloads, cosign, the event
loop and the thread pool.

Definitions introduced by a comment that starts with "Defect:" are not part of
any specification: each is a plausible mistake in the definition after it, and
`mutants` in `PROJECT.json` says which property notices it.

## 3. Runs

Passing:

| Run | Checks | Bounds |
|---|---|---|
| `metrics_store` | `ObservedRateSane`, `ObservedAverageSane`, `CountsEveryOutcomeOnce`, `LockIsReleased` | 2 threads, 2 features, 3 calls of `record`, switches anywhere; 3 calls let a reader meet a finished and an unfinished update of the same feature |
| `marketplace` | `PinsHonoured`, `BestServed`, `PerformanceBeatsTrust`, `AlikeFollowsBaseline` | 4 providers (2 tiers, pre- and post-1.0, two of them tied in the key, with names and places in opposite orders), 4 ranges, 2 invocations each, two latencies; rates 0, 1/2 and 1 cross both priors and the cold start |
| `gateway_accounting` | `CountersMatchAnswers`, `AnswersMatchWork`, `RevisionAgrees`, `EveryRequestEnds` | both modes; 2 requests, 2 features, 1 change of one of them (`Edited`), which may also be missing at first; one change is enough for every pair of lookup, resolution and execution to be of two revisions |
| `signing` | `VerdictIsSound`, `BlobsAreTemporary`, `EveryCallEnds` | 3 calls on 2 threads, so that one waits for the others; with and without cosign and `SIGNING_IDENTITY`; at first no bundle, or CI's of revision 1; then 1 change, of the feature or of the bundle, anywhere in a call, which suffices for a verdict on a bundle that is not the one found |
| `composer` | `DataFlowsAsComposed`, `AllOrNothing`, `EveryStepCounted`, `ListingIsComplete`, `SelfContainedResolves`, `ClientsReportFailure`, `EveryRunEnds` | 2 runs or listings, 3 names of which two are registered at first, 3 composites (one shadows names and has a broken schema; one refers to a part of a part and nests) and 2 agent documents (one does not parse, one declares an input twice), 3 shapes of values, 1 publication, which a run or a listing meets at any of its steps |
| `operator` | `ObservedIsApplied`, `NeverRollsBack`, `ServesThroughRollout`, `Converges`, `ComesToRest` | 3 disturbances of any kind, revision 2 scaled to zero, revision 3 possibly broken |

Every passing run also checks its module's type invariant.
`CHECK_DEADLOCK FALSE` is set where the system may stop: all requests answered,
all runs ended, the operator at rest.

Runs that end in a violation, each a place where a comment or document and the
code disagree (`findings` in `PROJECT.json` quotes them):

* `torn_score` – a score mixes two sets of outcomes; the store is called
  thread-safe. The rate and the average are each sane (proved), so the effect is
  a ranking that is off by one outcome.
* `starvation` – a provider that always succeeds quickly is picked for ever;
  the cold start is said to keep new providers from being starved.
* `equals_range` – `=1.2.0` means `0.2.0`; `=` is a documented comparator.
* `stale_validation` – a rollout between validation and execution; features are
  said never to see malformed arguments.
* `unrecorded_mcp` – MCP calls are not recorded; every invocation is said to be.
* `recursive_composite` – a step cannot target a composite; it is said it may.

Smaller disagreements the models contain and no run is spent on:

* `catalog.py:111` has the newest version first; `1.2` comes before `1.2.1`, because a
  tuple that is a prefix of another is the smaller one (`ShortVersionFirst`).
* `~1-rc.1` is patch-level although it has one number: `catalog.py:89` counts parts
  before the suffix is cut (`TildeUpper`).
* Of two releases that tie in tier, version and vendor, the dev catalog's summary
  may show another one than the routes serve (`AlikeFollowsBaseline`).
* `signing.py:67-68` says `verify` never raises; writing its temporary file is
  outside the `try` (`WriteFails`).
* `composer.py:88-90` documents failures as data; undeclared exceptions pass
  through `Composer.run` (`Raise`).
* `models.py:109-110` calls `preferred` the provider that would be picked by
  default; that is so only until the counters tell providers apart
  (`AlikeFollowsBaseline`).
* The Go, Rust and Java clients return nothing, without an error, for a
  composite that is unknown or an input that is refused (`ClientsReportFailure`
  states what does hold).
* `feature_types.go:124` has the endpoint "once Ready"; it is published while
  still Provisioning (`ReadyPhase`). And Ready may be the old revision's pods,
  for good when the new revision is broken.

## 4. Fairness

* `MetricsStore`: a thread inside `record` or `score` keeps running (weak
  fairness of `Continue`); nobody has to call.
* `Marketplace`: requests for the capability keep coming. Only the starvation
  run uses it.
* `Gateway`: a handler that can go on does. The API server answers or fails, and
  every gRPC call carries a deadline (`invoker.py:111`), so `Expire` needs no
  assumption about workloads; `Execute`, rollouts and edits are not fair. Weak
  fairness is enough although handlers wait for the event loop: each holds it for
  finitely many steps.
* `Signing`: threads run, the pool hands free threads to waiting calls, and
  `subprocess.run` gives up after 30 seconds. cosign need not end.
* `Composer`: the event loop resumes every run that can go on, and every call of a
  step has a deadline, as in `Gateway`: `Unavailable` happens if nothing else does.
  `Answered`, `Rejected` and `Raise` are not fair, so no run ends only because
  a workload answers.
* `Operator`: the work queue retries, watches deliver, and the cluster's own
  controllers act. Disturbances are not fair and are finitely many: `Converges`
  and `ComesToRest` speak of what happens once they stop.

## 5. What is proved

`MetricsStoreProofs`, for any sets of threads, features and latencies, any
number of calls and both switching disciplines, from `StoreAssumption`
(latencies are naturals up to `MaxLatency`; the sets are not empty):

* `TypeCorrect`, `RateSane` and `AverageSane`: `TypeOK`, `ObservedRateSane` and
  `ObservedAverageSane` are invariants of `Spec`;
* by `Invariance`, that `IInv` is. None of the three is inductive alone. `IInv`
  adds mutual exclusion (`MutexInv`), that what the lock's holder loaded is
  still the attribute's value (`HolderInv`), the relation between the counters
  including what the holder still owes (`CountersInv`: successes never exceed
  invocations because the invocation is stored first), and what a reader half
  way through knows, relative to counters that only grow (`ReaderInv`). One
  lemma per action shows that it preserves `IInv`.

`VersionsProofs`: `RangesAsDocumented`, for every version and every range with a
recognised operator, `MatchVersion` is `Satisfies`. It rests on lemmas about
triples, and on one for caret and one for tilde ranges. The excluded cases are
an operator that is not recognised, which `equals_range` shows to fail, a blank
after the operator, which no document allows and which makes the first part 0, and
dots in a suffix, which `~` takes for parts.

`SigningProofs`, for any finite set of requests, any pool and any number of
changes, from `SigningAssumption`: `TypeCorrect`, `VerdictSound` and
`BlobsTemporary`, that is `TypeOK`, `VerdictIsSound` and `BlobsAreTemporary`.
`VerdictIsSound` says that `verified` is only said of a digest somebody signed (CI,
where `SIGNING_IDENTITY` is set), and what the status means where nothing changed
during the call. `failed` gives no information: cosign may fail for any reason. They
follow from `IInv`, which adds that the installed bundle is one that was signed,
and for each request: while nothing has changed, the bundle and the manifest are
still what it found, and from the existence check on there was a bundle
(`LookupInv`); a request that is not answered has no code, and its file exists only
between the write and the unlink (`FileInv`); and a status already says at
the verdict what it says in the answer (`StatusInv`). `OneRequest` reduces a
step of one request to its own part of the invariant, `ChangeStep` treats edits
and deliveries together. Neither property is inductive alone: an answer is
given steps after the reads it rests on.

`MetricsStoreProofs!Refinement`: `Spec => CountsEveryOutcomeOnce`. The mapping
(`Position`, `Stored`, `Committed`) takes back what the lock's holder has written
of an unfinished outcome. `Release` maps to `Record`, every other step to a
stutter; that needs `MutexInv` (one unfinished outcome at most)
and `HolderInv` (the value written is the current one plus the gain).

`OperatorProofs`, for any number of disturbances, any revisions scaled to zero and
any that may break, from `OperatorAssumption`: `TypeCorrect`, `ObservedApplied`,
`NoRollback` and `ServesOn`, that is `TypeOK`, `ObservedIsApplied`, `NeverRollsBack`
and `ServesThroughRollout`. `IInv` says that a copy with the stored resource version
is the stored object (`CopiesInv`), that revisions only grow along the way from the
caches to the Feature in hand to the API server (`RevisionsInv`), and, for each
child, that its cached copy is not newer, and that what `Reconcile` is past, and
what the status calls observed, is in place (`ChildInv`). However late the caches
are, the Feature `Reconcile` works from is at least as new as everything in place:
a newer revision would have been put there from a newer copy, and a reconcile
starts only after the one before has ended. That is why nothing is rolled back,
without an appeal to conflicts.

`GatewayProofs`, for any finite set of requests, any names, vendors, schemas and
payloads and any number of edits, in both modes, from `GatewayAssumption`:
`TypeCorrect`, `CountersAccounted`, `WorkAccounted` and `RevisionsAgree`, that is
`TypeOK`, `CountersMatchAnswers`, `AnswersMatchWork` and `RevisionAgrees`. `IInv` adds that a workload of a
resource's revision was built from it (`ResourceInv`), how far a request has come
(`ProgressInv`), and that resource and workload, if they are of the revision that
was looked up, accept the input (`LookupInv`); an edit takes a revision number
nobody has looked up, which is why it is preserved. For the counters, `CountersStep`
reduces a step to the set of answers growing by the request, or not at all.

`MarketplaceProofs`, for any finite set of providers, any ranges, latencies and
bound on the counters, from `MarketplaceAssumption` (no two providers have the same
name, as the catalogs key them by name, or the same place in the dict):

* `PerformanceWins` and `BaselineFollowed`: `PerformanceBeatsTrust` and
  `AlikeFollowsBaseline`. The second compares the pick of the routes with the
  catalog's preferred provider by the sort key, since the two break ties
  differently, and only where the counters are the same, so that equal scores are
  equal floats too. Both need only that the
  counters are natural numbers with no more successes than invocations
  (`Invariance`); the rest is arithmetic of fractions (`HigherChain`,
  `Difference`), that tuples are totally ordered (`TupleTotal`, `TupleTransitive`
  in `VersionsProofs`, by `LeastElement`: the first part in which two tuples
  differ), that a stable sort makes a total order of the key, which is only a weak
  one (`KeyAsymmetric`, `KeyWeak`, `StableSort`), and that such an order has a first
  element in a finite set (`FirstExists`, `TopIsFirst`, `PreferredIsFirst`);
* `PinsKept`: `PinsHonoured`, when ranges have an operator the docstring lists
  and the code knows (`RangesDocumented`). `equals_range` shows that it fails
  without;
* `BestIsServed`: `BestServed`, when moreover every version has at least three
  parts (`VersionsFull`). This hypothesis was found by the proof: `NewestFirst`
  cannot be shown without it, and `ShortVersionFirst` proves that it fails then.

`ComposerProofs`, for any finite set of runs, any composites and documents, any
answers of workloads and any number of publications, from `ComposerAssumption` (steps and
documents are sequences; the built-in names are different): `TypeCorrect`,
`DataFlows`, `WholeOrNothing`, `StepsCounted`, `ListingsComplete`,
`ReferencesSound` and `FailuresReported`, that is every invariant of the
`composer` run. `IInv` has a part about the registry (its order has no name
twice and only grows at its end) and one about each run:

* `PhaseInv`, what is still empty and how long the trace is at each stage;
* `FlowInv`, every name in the context leads to the producer the composite means
  before the next step. `MeantNext` says what a step changes in this meaning,
  which is exactly what `Extend` changes in the context (`ContextMeant`);
* `ContextInv`, the context has the accepted input, with its required fields, unless
  a step took its name, and all earlier steps; so sound references resolve
  (`SoundResolves`). A reference is sound if it names an earlier step's whole
  output, the input, or one of its required fields; anything deeper depends on
  what is inside;
* `ListInv`, a listing has shown a prefix of the order it began with.

The counters are those of all runs together (`Counted`): one step of one run adds
one element to one of the sets counted, or none (`AnswerCounted`,
`FailureCounted`, `NothingCounted`).

Only model-checked:

* liveness (`LockIsReleased`, `EveryRequestEnds`, `EveryCallEnds`, `EveryRunEnds`,
  `Converges`, `ComesToRest`): fairness is out of the proof system's reach;
* what the violating runs show, which is refuted rather than proved.

Every invariant, action property and refinement of a passing run is proved, two of
them (`PinsHonoured`, `BestServed`) under the hypotheses above. The proofs hold for
the models: that these are faithful to the code rests on the map.

## 6. What is not modelled

The DSL's tokeniser and the text of the stubs, text search in the catalog, the
rows of the ranking report, the dashboard, the example server and client, and
all deployment configuration: they keep no state and only format, filter or
declare. `GrpcInvoker.close` is called by nothing. Of the wire protocol only
`Invoke` is used by the gateway. Whether a channel is kept or opened anew makes no
difference to a request, so `Gateway` has none; that the cache never shrinks while
endpoints come and go is not covered. JSON Schema is abstracted to acceptance, time to
the choice between an answer and a deadline. `Operator` has one active operator,
as deployed (`--leader-elect` in `deploy/operator/operator.yaml`); the flag's
default in `cmd/main.go` is false, and two active operators are not covered.
The Kubernetes client's calls carry no timeout: that the API server answers or fails
is assumed, and a gateway that waits for it for ever is not covered. Some hazards
in `PROJECT.json` have no property, because no document or comment of the repository
says what should hold: a listing that one malformed resource makes fail for every
request, counters that a new revision inherits because `feature_from_cr` sets no
version, a Feature that is Ready by the pods of an older revision, an argument the
DSL skips. The models contain all of these.
`Gateway` has its own, coarser picture of what the operator does (`Publish`,
`Rollout`) and is not composed with `Operator`.

## 7. Plan

* A step-wise correspondence between `Gateway`'s picture of the operator (`Publish`,
  `Rollout`) and `Operator`, as a refinement.
* Mutual exclusion of the event loop (at most one handler that blocks between its
  first read and its call) as a property and a theorem of its own.
