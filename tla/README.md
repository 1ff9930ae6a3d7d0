# TLA+ models of declarative-controller-runtime

This directory holds TLA+ models of the Go code under `src/`: the
controller loop, its error reporter, the fake runtime cache used by the
tests, and the JSON expression language. It also holds the TLC
configurations that model-check them and TLAPS proofs about the
controller loop, the error reporter, the fake cache and the expression
operators. `PROJECT.json` maps every modelling definition to the source
lines it translates. It also lists the runs, mutants, findings, hazards and
theorems.

## The system and its parts

`src/` contains four files. The rest of the package the controller calls is
not in this source tree: the pipeline, its engine and view caches, the
target writer and the source watchers. The specification (`spec.md`)
describes that part, and the model takes its behaviour from there.

| Part | Source | Module(s) | Status |
|---|---|---|---|
| Controller event loop | `pkg/controller/controller.go` | `Controller`, `MCController`, `ControllerProofs` | modelled |
| Pipeline engine, view caches, target writer (not in the tree) | spec 4.2-4.4 | inside `Controller`; abstract spec `EngineContract` | partly (from the specification) |
| Error reporter | `pkg/controller/status_reporter.go` | `ErrorReporter`, `MCErrorReporter`, `ErrorReporterProofs` | modelled |
| Fake runtime cache | `pkg/cache/fake_cache.go`, lines 1-141 | `FakeCache`, `MCFakeCache`, `FakeCacheProofs` | modelled |
| Object helpers appended to `fake_cache.go`, lines 142-224 | | none | not modelled: pure conversions |
| Expression language | `pkg/pipeline/expression.go` | `ExpressionOps`, `Expression`, `MCExpression`, `ExpressionOpsProofs` | partly |

How the parts interact:

- A runtime controller (controller-runtime) watches each source kind and
  adds a `Request` (kind, namespace, name, event type) to its workqueue.
  The workqueue drops a Request equal to one already queued; one equal to
  the Request being reconciled is queued again when that one is done.
- Its worker calls `ContrllerReconciler.Reconcile`, which blocks sending the
  request on the shared bounded channel `c.watcher`.
- `Controller.Start` receives from that channel and runs `processRequest`:
  - it `Get`s the object for Added/Updated events;
  - it evaluates the pipeline, which updates the engine's base-view caches
    and its emitted-view cache and returns deltas;
  - it writes each delta to the target.
- Pipelines are written in the expression language. The error reporter
  collects the errors of processing and notifies a status channel through a
  rate limiter. The fake cache stands in for the manager's cache in the
  tests.

## Modules and how they correspond to the code

### `Controller`

The state is as follows:

- `cluster`: the objects, each abstracted to a version.
- `inbox`: per kind, the runtime controller's workqueue.
- `reconciling`: the request a runtime worker is handing to Reconcile.
- `redo`: per kind, the workqueue's dirty mark for the request being
  reconciled: it was added again meanwhile.
- `watcher`: `c.watcher`, a sequence bounded by `WatcherBufferSize`.
- `wpc`: where Start's goroutine is.
- `outbox`: the deltas of the current request still to be written.
- `base` and `view`: the engine's caches.
- `target`.
- The shutdown flags `ctxDone`, `closed` and `panicked`.
- Bounded counters, and the histories `failedIds` (composites whose write
  failed) and `skipped` (composites whose last evaluation failed).

The actions correspond to the code as follows:

- `Reconcile(k)` is the blocking send at `controller.go:234`, followed by
  the workqueue's `Done` (`Done(k)`), which re-queues a request marked in
  `redo`.
  `SendOnClosed(k)` is the same send after the close, which panics in Go.
- `ProcessGetFails` and `ProcessEvaluate` are one iteration of Start's
  `select` (165-171) together with `processRequest` up to the pipeline
  (179-203).
- `ProcessEvaluateFails` is the error return of `Pipeline.Evaluate`
  (197-202). The engine has already applied the delta to its base cache
  (spec 4.2), so `base` changes; the emitted view, the target and the
  outbox do not, and the touched composites join `skipped`. The engine's
  code is not in the tree: which evaluations fail is the constant
  predicate `ExprFails`, checked on the composites the delta touches
  (`EvaluateFails`, marked `spec_modelled`).
- `WriteDelta` and `WriteFails` are the loop at 205-213.
  - `WriteFails` empties the outbox, because the code returns on the first
    error.
  - Deletes are written first. This is the order the specification gives
    for a fan-out. Among the other deltas the order is nondeterministic.
- `Cancel` and `Stop` are `ctx.Done()` and the deferred `close(c.watcher)`
  (162, 172-174).
- `Init` is `New`. Its sanity checks (65-76) are the named assumption
  `ControllerAssumption`.
- The environment creates, updates and deletes objects, and each change
  adds a Request to its kind's workqueue (`Emit`): dropped when an equal
  one is `Queued`, marked in `redo` when it equals the one being
  reconciled, appended otherwise. `Dequeue(k)` is the runtime controller's
  worker taking the next one.
- The pipeline is the full join (`FullView`) and its incremental form
  (`EvalDeltas`, `EvalView`):
  - a composite present before and absent after is emitted as Deleted;
  - one absent before and present after is emitted as Added;
  - one present both times keeps the event's type.

  These definitions are marked `spec_modelled` in the map.

`MCController` instantiates the example of the specification:

- A Deployment refers to a ConfigMap through its content, so an update
  moves it between composites. This produces a Deleted/Added fan-out.
- There are 2 kinds, 2 keys and 2 versions.
- The channel has capacity 1, so the blocking send happens.
- There are at most 4 cluster changes and 1 write failure, so a create,
  delete, re-create of one object fits.
- `MCExprFails` makes every composite whose ConfigMap is at version 2
  fail to evaluate, so both outcomes of Evaluate occur.
- The run reaches 61940 distinct states.

### `EngineContract`

This is the abstract specification of what the controller promises of the
engine and the target writer. It has no queues, no channel, no Get and no
outbox. Its variables are `cluster`, `base` and `target`, and its actions
are:

- `Change`: one cluster object changes;
- `Adopt`: the base cache takes in one object, either as the cluster holds
  it at that moment or as gone;
- `Publish`: one view object of the target is set to the full evaluation
  (`FullView`) of the current base cache.

`Controller` instantiates it as `EC` with the identity mapping on the three
variables. `EngineRefinement == EC!Spec` is checked as a PROPERTY and
proved. Every `Get` races later changes, an evaluation may fail after
the base cache took the delta, and deltas are computed
incrementally and written one by one. The refinement says that despite
this, the engine never records a version the object does not have at that
moment, and that no write, even after a failed one, puts a stale delta in
the target. A writer that stores a Deleted delta's object instead of
deleting breaks it.

### `ErrorReporter`

- `errorStack`, `critical` and the limiter's `count` and `last` are the
  fields of `errorReporter` and of `rate.Sometimes`.
- `now` is an abstract clock, advanced by `Tick` and bounded by `MaxTime`.
- `notes` records the time of every send on `errorChan`.
- `errorChan` is the status channel, a queue of capacity `ChanCap`, and
  `chanIsNil` says the channel was never set. `sending` holds the error
  that the limiter's callback is blocked sending (`errorChan <- err`,
  line 50).
- `ideal` is the stack the reporter would hold without eviction. Both
  `notes` and `ideal` are history variables.

The actions:

- `PushError` and `PushCriticalError` are lines 37-44.
- Both run `Push` (46-61): the shifting eviction when the stack is full,
  then the deferred `ratelimiter.Do`. `SometimesFires` is the condition of
  `rate.Sometimes.Do`.
- `Pop` is a no-op on an empty stack (63-68).
- `SometimesDo` is `rate.Sometimes.Do` around the callback of lines 48-52.
  With a nil channel the callback returns at once and `DoReturns` updates
  the limiter. Otherwise the callback blocks in `sending` until `SendDone`
  finds room in the channel, and only then does `Do` update its `count`
  and `last`. `errorReporter` has no mutex of its own; only
  `rate.Sometimes` holds its mutex around the callback. `Push` and `Pop`
  wait while `sending` is non-empty because their one caller, the
  controller's worker (spec 5: the reporter is written by the worker), is
  the goroutine blocked in that send.
- `Receive` is the notifier draining the channel. Its code is not in the
  tree, so it is modelled from the specification.

The MC instance has a stack of depth 2, `First = 2`, `Interval = 2`,
3 ticks and 4 pushes. Eviction, the end of the burst and both sides of the
interval all occur. The channel has capacity 1, so a second notification
blocks until the first is received.

### `FakeCache`

- A heap of cells tells copies from aliases. The callers own the cells in
  `Refs`, and `StoreCell` is the cache's own copy.
- `store` is `c.Store`. `informers` is `c.InformersByGVK`, with informers
  numbered in the order they were created. The cache is the one
  `NewFakeRuntimeCache` builds, so `c.Scheme` is never nil.
- Every method that changes state is an action: `GetInformerForKind`,
  `GetInformer`, `RemoveInformer`, `informerFor` (inside both), `Get`,
  `List`, `Upsert` and `Delete`.
- `Scheme.ObjectKinds` succeeds for known GVKs and for unstructured
  objects of any GVK. This is the `unstructured` input of `GetInformer`
  and `RemoveInformer`.
- `Mutate` and `SetError` are the test code editing its own objects and
  setting the exported `Error` field.

### `ExpressionOps` and `Expression`

Expression values and JSON documents are records with one payload field per
variant. Numbers are kept in halves, so 1.0 and 0.5 are exact.

The language is split into two modules:

- `ExpressionOps` holds the values, the outcomes (`Ok`, `Err`, `Panic`),
  the `as*` helpers, the map case of the decoder and the operators that
  take their argument's value. It declares no RECURSIVE operator, so its
  operators can be reasoned about with TLAPS.
- `Expression` extends it with the recursive decoder, evaluator and
  encoder and the state machine.

An early return in the code is written as `IF ... THEN ... ELSE` in
`ExpressionOps`, never as a CASE arm that overlaps a later one. TLC takes
the first true arm of a CASE, but in TLA+ an overlapping CASE is a choice
among its true arms. The proofs found the following overlaps. Each matched
the code only under TLC's reading.

- `null` for `@selector` also passes `asObject`.
- In `ObjectExp`, the TLA+ semantics cannot tell whether the empty key
  starts with `@`. The code indexes `op[0]` first, so the map case is now
  nested IFs in the code's order.

The CASE chains of the recursive `Expression` are read first-match by TLC.
That is the only tool that reads them.

- `Unmarshal` is `UnmarshalJSON` (807-867). It tries the decoders in the
  code's order: bool (a JSON null decodes as false), int, float, non-empty
  string, list, then map.
  - `ObjectExp` is its map case: a single `@` key is an operator, and the
    empty key panics at `op[0]`.
  - A list stops at its first failing element, as `encoding/json` does.
- `Eval` is `Evaluate`. Its coercions, `@list` (with `unpackList`),
  `@dict`, the list commands and the operator switch are separate
  operators: `FilterLoop`, `AnyLoop`, `MapLoop`, `BoolOp`, `CompareOp`,
  `SelectorOp`, `FloatOp`, `ListOp` and `ApplyOp`.
  - Each loop stops at the first failure, as the code's early returns do.
  - `@any`, `@all` and `@none` break at the deciding element.
- `Marshal` is `MarshalJSON` (869-960). `@any` writes its literal, and
  `@list` and `@dict` with an argument write the argument alone. A float
  with no fraction is written without a point.
- The `as*` conversion helpers, `GetJSONPath` and label matching are not in
  the tree. They are modelled from the specification and marked so in the
  map.
  - JSON paths are `$` (the subject, or the object) and `$.key`.
  - Any other string is a string literal.

The state machine decodes one document, evaluates it against each object,
encodes it, and decodes the encoding. `MCExpression` enumerates 572 small
documents:

- scalars;
- lists, including nested lists;
- the comparisons and `@sum` over ints, floats and mixed pairs;
- boolean operators;
- list commands over literal lists with `$` conditions, including `@map`
  with one argument;
- maps, including the empty key and an unknown operator.

The documents are evaluated against two objects, `{"a": 1}` and
`{"a": 1.0}`. `Expression` declares RECURSIVE operators, so it is checked
only by TLC.

## Runs

Each passing run checks a type invariant plus the properties below. TLC
finishes each run in seconds.

- **error_reporter** (pass):
  - `StackKeepsMostRecent`: the bounded stack is always the top of `ideal`,
    so `Top()` is the latest error not yet popped.
  - `NotificationsRateLimited`: after the first `First` notifications, any
    two consecutive ones are at least `Interval` apart. It also holds when
    a send blocks, because `Do` updates `last` only after the callback
    returns.
  - `PushReturns` (under `FairSpec`): a Push blocked on the full status
    channel eventually returns. This holds only if the channel is non-nil
    and its receiver keeps draining it. A send on a nil channel would block
    forever, and the nil guard of line 49 is what prevents it.
- **controller** (pass):
  - `TargetConverges`: when nothing is pending and no write has failed,
    the target holds the full evaluation of the join on the engine's base
    caches at every composite whose last evaluation did not fail. The
    incremental deltas and the emitted-view cache make this true; a failed
    evaluation leaves its composites stale until a later evaluation of
    them succeeds.
  - `EngineRefinement`: every step is a step of `EngineContract` or a
    stutter on `cluster`, `base` and `target`.
- **fake_cache** (pass):
  - `StoreIsolated`: the stored object is what was last upserted, whatever
    the callers do to their objects afterwards.
  - `InformerNotDuplicated`: a GVK gets a second informer only after
    RemoveInformer.
- **expression** (pass):
  - `TypeOK` includes that every decoded expression is well formed.
  - `FilterMatchesReference`: `@filter` agrees with `SelectSeq`.
  - `QuantifiersMatchReference`: `@any`, `@all` and `@none` agree with a
    first-deciding-index reference.
  - `NumericOpsMatchReference`: the comparisons and `@sum` agree with the
    numeric coercion rule.

Each violation run checks one property that the specification states, and
TLC finds it violated. The findings in `PROJECT.json` describe each one.

| Run | Property | What the code does |
|---|---|---|
| controller_base_tracks | `BaseTracksCluster` | the workqueue drops an Added equal to one still queued; after create, delete, re-create the base cache lacks an object the cluster holds |
| controller_write_abort | `WriteFailureIsolated` | a failed write returns from `processRequest`, so the request's remaining deltas are lost |
| controller_shutdown_send | `NoSendOnClosedChannel` | Start closes the channel while a Reconcile is still sending, which panics |
| controller_shutdown_drain | `WorkerDrainsOnShutdown` | `select` may take `ctx.Done` with requests still buffered |
| expression_unpack | `UnpackOnlySingletons` | `[[1],[3]]` evaluates to `[1]` |
| expression_round_trip | `RoundTrip` (P1) | 1.0 is written as `1` and decodes as an int |
| expression_map_arity | `EvalNeverPanics` | `@map` with one argument indexes `args[1]` |
| expression_empty_key | `UnmarshalNeverPanics` | `{"": 1}` indexes `op[0]` |

`BaseTracksCluster` (when nothing is pending the base caches equal the
cluster) is what the specification's FIFO delivery of every event (4.5,
5) would give. The shortest trace: create an object (Added queued),
delete it (Deleted queued), re-create it (Added dropped, an equal one is
queued); the Added then fetches the object, the Deleted removes it, and
no request is left to restore it. `TargetConverges` is stated relative to
the base caches, so it holds whatever the workqueue delivers.
`WriteFailureIsolated` is stated outside the failed evaluations, so its
violation is the write abort alone.

Every property of a passing run has a mutant in `PROJECT.json`: a plausible
bug in the mapped definition that TLC detects. Examples are an off-by-one in
the full-stack test, a write loop that returns early, an Upsert that aliases
instead of copying, a quantifier loop with no `break`, and `@lte` compared
strictly.

### Bounds and why they suffice

- Each bound makes its case happen at least once, and the runs show that it
  does:
  - the stack fills and evicts;
  - the channel fills, so Reconcile blocks;
  - a Deployment update moves it between composites;
  - an object is created, deleted and re-created while its Requests are
    queued, and an evaluation fails;
  - an informer is removed and recreated;
  - the Store is overwritten after a caller's edit;
  - the status channel (capacity 1) is full while the limiter's callback
    sends, and the channel is nil in some initial states.
- The properties compare whole states: caches against the cluster, the
  target against the full view, a stack against its history. Larger
  instances repeat the same interleavings with more names.
- `CHECK_DEADLOCK FALSE` is set only where the system really stops:
  - the controller once the bounded environment is exhausted and every
    request is handled;
  - the expression pipeline of four calls.

### Fairness

`Spec` of `Controller` assumes no fairness: its properties are invariants
and a refinement, which are safety properties.

`FairSpec` of `ErrorReporter` assumes weak fairness of `SendDone` and of
`Receive`. `SendDone` is the Go runtime completing a send once the channel
has room. `Receive` is an assumption about the notifier, whose code is not
in the tree: it keeps reading the status channel. `Spec`, which has no
fairness, is what the proofs are about.

## Proofs

`ErrorReporterProofs` proves three theorems with TLAPS, for every stack
size, `First`, `Interval` and set of errors allowed by
`ReporterAssumption`:

- `TypeCorrect`: `Spec => []TypeOK`, including the bound
  `Len(errorStack) <= ErrorReporterStackSize`;
- `StackKeepsMostRecentHolds`;
- `NotificationsRateLimitedHolds`.

The inductive invariant `IInv` is the conjunction of `TypeOK`,
`StackKeepsMostRecent`, `NotificationsRateLimited`,
`LimiterMatchesHistory` and `InFlightDue`. The last conjunct says that the limiter's count is
the number of notifications and that `last` is the time of the latest one.

- `NotificationsRateLimited` is not inductive on its own. Its step needs the
  limiter's `last` to be the time of the previous notification.
- The lemma `PushStackKeepsTop` shows that the shifting eviction keeps the
  stack the top of the history with the new error appended.
- `PopKeepsTop` and `DropLast` do the same for `Pop`.
- `SometimesDoKeepsLimit` shows that a limiter step keeps the history
  spaced.
- `InFlightDue` covers the blocked send: while `sending` is non-empty, the
  limiter's condition is still true of the current clock. The clock only
  moves forward, and `Do` stamps `last` when the send completes.
- `InitIInv` and `NextIInv` give `Spec => []IInv` by PTL.

`FakeCacheProofs` proves three theorems for every set of GVKs, callers'
objects and bounds allowed by `FakeCacheAssumption`:

- `TypeCorrect`;
- `StoreIsolatedHolds`: Upsert's and Get's deep copies keep the store equal
  to the last upserted object;
- `InformerNotDuplicatedHolds`.

Its inductive invariant adds three conjuncts to the properties:

- the types of the history variables;
- `StoreIsOwnCell`: `c.Store` is nil or the cache's own cell, never a
  caller's. A caller editing its object therefore cannot reach the store.
- `InformerCount`: a GVK is one creation ahead of its removals only while it
  has a registered informer. `InformerNotDuplicated` alone is not inductive:
  a create step needs to know that the GVK has no informer.

The lemma `InformerForKeeps` covers `informerFor` once for both callers.

`ControllerProofs` proves three theorems for every set of kinds and keys,
join condition, expression failure, channel capacity and bounds allowed
by `ControllerAssumption` and `JoinCondBoolean`:

- `TypeCorrect`, including the workqueue's coalescing (`Emit` has three
  cases) and `Done`'s re-queue;
- `TargetConvergesHolds`;
- `EngineRefinementHolds`: `Spec => EngineRefinement`.

`TargetConverges` is not inductive. It rests on `TInv`, which is `TypeOK`
and four conjuncts:

- `ViewIsFull`: outside `skipped`, the emitted-view cache is the full
  evaluation of the base caches. `FullViewLocal` shows that Evaluate, and
  a failed Evaluate's update of the base cache, change the full
  evaluation only at the composites containing the object; those are the
  ones a successful evaluation rewrites and a failed one adds to
  `skipped` (`EvalViewFull`, `EvaluateFailsKeeps`).
- `IdleEmpty`: the worker is idle only with an empty outbox.
- `WritesPending` has two parts. While no write has failed, the target
  differs from the view only at composites a pending delta will write.
  Whether or not a write has failed, each pending delta writes the view's
  value: a failed write empties the outbox, and the next evaluation fills
  it afresh. `EvaluateWrites` and `WriteDeltaWrites` prove it.
- `PendingEvaluated`: every pending delta is on a composite outside
  `skipped`, since a successful evaluation removes the composites it
  touches from `skipped` and returns deltas only on those.

`TInvConverges` then reads the target off the view at quiescence. The
proof needs nothing about the queues: it holds whatever order and
multiplicity the workqueue delivers requests in.

`EngineRefinementHolds` rests on `TInv` too:

- `InitRefines` maps `New` to the contract's initial state.
- `FullViewIsContract` identifies the controller's `FullView` with the
  contract's.
- In `NextRefines`, a cluster change is `Change`. `ProcessEvaluate` is
  `Adopt`: the Get returned the cluster's object, or the request was a
  Deleted one with no object. `WriteDelta` is `Publish`, by the delta part
  of `WritesPending`, `PendingEvaluated` and `ViewIsFull`.
  `ProcessEvaluateFails` is `Adopt` as well. The queue steps, `ProcessGetFails`
  and `WriteFails` leave `cluster`, `base` and `target` alone.

`ExpressionOpsProofs` proves five theorems about the operator layer. They
hold for every number: int64s of any size, and float64s as any number of
halves.

- `CompareFollowsCoercion`: `@lt`, `@lte`, `@gt` and `@gte` on a pair of
  numbers return the comparison of their values. A mixed pair is compared
  as floats. The lemma `BinaryNumbers` shows what `asBinaryIntOrFloatList`
  returns for such a pair.
- `OperatorsNeverPanic`: for every operator name and every argument,
  `ApplyOp` returns a value or an error and never panics. The proof has one
  case per operator group, and a sub-case for each early return of
  `@selector` and the list operators.
- `RoundingIsMath`: `@ceil`, `@floor` and `@abs` return the least integer
  not below the value, the greatest integer not above it, and its
  magnitude.
- `EmptyKeyIsTheOnlyPanic`: for a finite object, whatever each field
  decoded to, the map case of `UnmarshalJSON` panics exactly when a field
  panicked or the object is `{"": x}`. It rests on `FS_Singleton` and the
  lemma `ChooseSingleton`: the key the map iteration yields in a one-key
  object is that key. The run `expression_empty_key` shows the panic on a
  small instance. The theorem shows that no other object panics.
- `UnpackDivergence`: `unpackList` agrees with the `@list` rule on every
  list except one of two or more elements whose first is a list. That is
  the case the run `expression_unpack` exhibits.

These theorems are about operators, not states, so they state no run's
invariant. `NumericOpsMatchReference` and the other `Expression`
invariants are stated over the recursive `Eval` and stay with TLC.
`CompareFollowsCoercion` is the operator-level core of its comparison
half.

Only TLC checks the following:

- Every liveness property (`PushReturns`). The provers cannot reason
  about fairness and ENABLED.
- The whole `Expression` module, which uses RECURSIVE operators that the
  proof system cannot use.
- `@sum` over lists of every length. Its total is a `FoldLeft`, and what
  a fold computes for every input needs induction over data. The library's
  induction theorems take an operator parameter, which the installed
  provers cannot instantiate. `NumericOpsMatchReference` checks it on the
  documents of `MCExpression`.
- The properties of the violation runs. They are false, and TLC shows the
  traces.

## Not modelled, and why

- **The pipeline operators beyond one join** (projection, aggregation,
  `@gather`) and the real engine code: they are not in this source tree.
- **int64 overflow in `@sum`**: the document values are small.
- **The random order of `@dict` field evaluation**: the model prefers a
  panic over an error when both can occur.
- **The error channel's receiver**: it is not in the tree. `Receive` is its
  abstraction, and `PushReturns` assumes it keeps draining.
- **A `FakeRuntimeCache` built as a struct literal**: the model starts
  from `NewFakeRuntimeCache`, whose Scheme is never nil. On a literal,
  `GetInformerForKind` (fake_cache.go:46) would call `Scheme.New` on a nil
  Scheme without the default that `GetInformer` and `RemoveInformer`
  apply; no run checks this.
- **Concurrent calls into the fake cache**: it has no locking, and each
  method is modelled as atomic.
- **Formatting**: `Report`, `String`, `trim` and the log calls. One thing
  noticed while reading `trim` (status_reporter.go:106) is left unchecked.
  The code keeps `s[0:TrimPrefixSuffixLen-1]`, a 119-character prefix, so
  a trimmed message is 244 characters. spec.md says 120 + 5 + 120 = 245.
  No property is about display length, so this is not a run.

## Further work

- Model concurrent callers of the fake cache, which has no locking, as
  non-atomic reads and writes of `c.Store`.
- Make the controller's base caches robust to the workqueue's coalescing
  (a Request carrying a resource version, or a re-list on Deleted) and
  check `BaseTracksCluster` again.
- Give the expression language's `@dict` evaluation and the JSON-path
  setter their own operators. Add a run over nested paths.
