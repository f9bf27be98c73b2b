# A TLA+ model of TenSnap

TenSnap shows and steers an agent-based simulation. A *simulator* (user code
behind a language binding) owns the model; a *renderer* (the web application or
the headless agent) keeps a projection of it, the *scenario*, and drives it: it
synchronises the scene, changes parameters, invokes actions, captures and
restores scenes. The two speak an asynchronous message protocol over one
in-order connection. The renderer is also the clock of a run: it sends one
action, waits for its result, waits until the result was drawn (the render
barrier), and only then sends the next.

This directory models the parts of the code in which the order of events
matters, checks them with TLC, and proves the invariants of the core with TLAPS.
Paths below are relative to `src/`.

## 1. Inventory

| component | code | state it keeps | status |
| --- | --- | --- | --- |
| Action pipeline | `packages/core/src/runtime/{TaskQueue,SyncBoundary,PipelineRuntime}.ts` | queue, active task, continuous keys, dispatch commands, handshake, holds | modelled, proved |
| Run controller | `.../runtime/RunController.ts` | the run, task owners, action timer, wall-time timer, reset bracket | modelled, proved |
| JavaScript simulator binding | `packages/tensnap-js/src/bindings/session.ts`, `runtime/SimulatorSession.ts`, `transport/WebSocketTransportHost.ts` | busy flags, restore results, diff baselines, the model's hooks | partly, proved |
| Renderer session | `packages/core/src/runtime/RendererSession.ts` | open control request and its timer, transaction and staging scene, required sync | partly, proved |
| Scenario and layers | `packages/core/src/scenario/` | committed scene and its strict mutation rules | partly, proved |
| Renderer client, handshake | `runtime/RendererClient.ts`, `transport/handshake.ts` | active and candidate transports, connection generation, correlated waits | modelled, proved |
| Recording store | `persistence/recording-store.ts`, `packages/tensnap-agent/src/runtime/NodeRecordingStore.ts` | objects, segments, index, roots, lease, pins, the writer's queue | modelled and proved (store), not modelled (queries, playback) |
| Recording collection | `runtime/RecordingCollection.ts` | buffered changes, hold, trigger windows, checkpoint budget | modelled, proved |
| Agent runtime | `packages/tensnap-agent/src/runtime/AgentRuntime.ts` | phase, connection attempts, dirty scene and checkpoint chain, recording writes | partly, proved |
| Snapshot recorder, projected restore | `packages/core/src/snapshot/` | segments, key frames | not modelled |
| Python binding | `packages/tensnap-python/tensnap/` | the same protocol, another implementation | not modelled |
| Render barrier, metrics | `BrowserRunRenderBarrier.ts`, `ActionRunMetrics.ts` | animation frames, timings | seen as a promise |
| Codec, network layout, web UI, Go and Julia bindings | - | - | not modelled |

How they interact:

    user, agent --calls--> RunController --owns--> PipelineRuntime
                               |  ^                  |- TaskQueue (one active task, a deque)
                          send |  | action_result    `- SyncBoundary (state-sync handshake)
                               v  |
    RendererSession (guards, transaction, scene) == toSim / toRen ==> WebSocketTransportHost
                                                                          | void dispatch(...)
                                          createBoundSession handlers (async, overlapping)
                                                                          | await hook(...)
                                                                       user's model

    AgentRuntime --connect, disconnect, stop--> RendererClient --owns--> RendererSession
         |                                            `- handshake of a candidate transport
         |- checkpointChain --> scene file
         `- RecordingCollection --hold--> RunController
                   |- capture --> RendererSession
                   `- append, collect, close --> RecordingStoreWriter --> directory
                                                 RecordingStoreReader, rebuild --> directory

The renderer side is single-threaded and its methods are synchronous: what
interleaves are whole calls (user, messages, timers, barrier promises). On the
simulator side every message starts an `async` handler that nobody awaits, so
handlers interleave at every `await`.

### What is hard, and what makes each part correct

*Action pipeline.* Calls that mutate the array, the deduplication map and the
active slot one by one; a hold, a handshake and a rendered task that end in any
order. Correct when no task is lost, doubled or revived; when nothing waits that
could be dispatched; when nothing is dispatched under a hold or inside a
handshake; when re-enqueued continuous tasks and front insertions starve nobody.

*Run controller.* A pause, stop, timeout, late result, failed render, failed send
or disconnect at any point of a tick; one timer shared by all ticks; tasks of a
finished run next to those of the following one. Correct when the counters of a
run are exact unless it says that they are not, a bounded run never exceeds its
quota, nothing acts for a run that is over, the stop hook is sent once and last,
and a stopped run settles.

*Binding and renderer session.* A hook that throws between two messages; a
handler that outlives the renderer's patience; a request that arrives while
another is suspended; messages of an abandoned transaction. Correct when the
baseline the binding diffs against is what the renderer shows, when replays
and actions exclude one another, when a request id is restored once, and when no
answer is lost.

*Renderer client.* A transport is replaced while another replacement is in progress,
and retiring the old one, activating the new one and replaying its buffer call the host,
which may call the client again. Correct when no transport is leaked or shared, the newest
operation wins, nothing that the candidate sent is lost before the session listens, and a
wait ends with its connection.

*Recording store.* A garbage collection races a reader that is opening; a crash comes
between any two writes of a commit; recovery asks two questions at two moments.
Correct when everything that a published root or an open reader names can be read,
when "complete" and "interrupted" are true, and when one process writes.

*Recording collection.* A frame is captured, stored and reclaimed asynchronously
while the simulator may go on. Correct when every change that belongs to a frame is in exactly one,
which shows it, windows and budgets add up, and the hold is released on every path.

*Agent runtime.* Connect, disconnect and stop interleave at their awaits; scenes are
written asynchronously. Correct when the file and the scene agree, a stopped runtime
is really stopped, and stop ends whatever does not answer.

The full list of hazards, each at its line, is `PROJECT.json` "hazards".

## 2. Modules

| module | models | mapping |
| --- | --- | --- |
| `TaskQueue` | every state-changing method of TaskQueue, SyncBoundary and PipelineRuntime, as operators from one pipeline record to the next | the deque is a *set* of tasks ordered by `Place`: `enqueueFront` gives a negative place, so the order is that of the array and removal is set difference; ids are the code's counter |
| `PipelineRuntime` | the class under an arbitrary client that answers only what was dispatched | one action per method; `retired` is history |
| `TaskQueue_proofs` | lemmas about its operators, for both users | |
| `PipelineRuntime_proofs` | theorems about it | |
| `RunController` | every public method, the timer callback, the barrier callback | private methods are operators on a control record (`Flush`, `Finish`, `MaybeSettle`, ...), composed in the code's order; the field `threw` skips what an exception skips |
| `RunController_proofs` | theorems about it | |
| `SimulatorBinding` | the binding's five stateful handlers | a handler is a record whose `pc` names the await it is suspended at; one action per segment between two awaits |
| `SceneSync` | the renderer's control requests and transactions, the strict rules of the scenario, composed with the binding over two message queues | one action per method and per received message |
| `SceneSync_proofs` | theorems about the two together | |
| `RendererClient` | connect, attach, replace, disconnect, the handshake of a candidate and its buffer, waits of actions | the client is one record, private methods are operators on it composed in the code's order; the host that calls the client again is `HostCall` inside `Release`, and `Perform` in `RemoteClose` and `Finish` |
| `RendererClient_proofs` | theorems about it | |
| `Recording` | what a store promises, without files | a growing range, the frames kept, the ranges readers opened |
| `RecordingStore` | writer, garbage collection, readers, recovery and index rebuild over the Node directory | every write to the directory is an action; `w.job` and `w.step` name the running operation and its next write |
| `RecordingStore_proofs` | its invariants, that it implements `Recording`, and what `Recording` promises | |
| `RecordingCollection` | the collection over what it sees of session, controller and store | `c.job` names the await of the frame being written |
| `RecordingCollection_proofs` | theorems about it | |
| `AgentRuntime` | connection attempts, disconnect, stop, actions and recordings in flight, scene checkpoints | `call[a]` and `op.step` name the await an operation is suspended at |
| `AgentRuntime_proofs` | theorems about it | |
| `MCRecordingStore`, `MCRendererClient`, `MCSceneSync` | symmetry sets for TLC, and the state constraint of the last | |

`TaskQueue` is written with operators on purpose: `PipelineRuntime` and
`RunController` both use them, the first for an arbitrary client, the second for
the client that exists, and so do the proofs about both.

Definitions called "Mutant" are faulty variants of a definition that follows them.
No specification uses them: each documents a plausible bug that a named property excludes.

### Abstractions

* `TaskQueue`: the `inFlight` metadata, action arguments and kwargs are left out.
* `RunController`: a transport delivers asynchronously, so a result never arrives
  inside `send` (re-entrant callbacks are not modelled). The stop hook is declared
  or not for a whole behaviour. The clock is abstracted: `timer.early` says that
  the armed host timer belongs to an earlier deadline. `handleRenderBarrierError`
  and `markActionRendered` are one step, as in the promise chain. Left out is one
  consequence of `controller_stranded`: `setActionTimeoutMs` times an active action whose
  command was never sent too, and `ActionTimeout` does not fire for it. Timings,
  invocations, retained summaries, listeners and metrics are left out.
* `SimulatorBinding`: the model is the set of items of one layer and the value of
  one parameter. Hooks are external: they may change that state and may throw.
  Consecutive awaits of emitter sends between which nothing shared is read are one
  segment. Charts, monitors, assets and selectors appear as "may throw", and so does the
  target check of an action, which calls the layers of the user outside the `try`. An
  unknown parameter and a mismatched model are folded into the refusal they lead to.
  Dense layers only: the sparse producers `updates` and `changes` are left out.
* `SceneSync`: one connection, lossless and in order (a WebSocket), no reconnect;
  each request is sent at most once; `syncRequired = TRUE` initially stands for the
  first sync that RendererClient demands. `runAction` stands for the one action that
  the controller keeps in flight: the pipeline has one active task.
* `RendererClient`: messages are ordinals; the replay of buffered messages is one step, with
  one place in it where the host may call the client. From a handshake's end to the
  installation (one microtask) the candidate only receives messages. A callback makes at
  most one call of the client, and the close event which that call causes at most one more;
  callbacks of an identity reset and of the metrics are left out, as are listeners called
  from a rejected attempt and a `transport.disconnect` that throws. Waits of control
  requests (`collectRequest`) have the shape of the first wait of an action.
* `RecordingStore`: the stream chunk and the assets of a frame are one member of
  `Contents`, so that sharing between frames, all that matters to a collection, remains.
  A recording starts at frame 0. `observedFrame` of an open root, the summary and byte
  budgets are left out: a write over `maxStoredBytes` is a `Fault`. Obsolete roots and
  segments are swept in one step (only a writer reads them). Refused calls of `create`
  and `collect` change nothing. Each reader slot opens once. The IndexedDB backend is not modelled.
* `Recording` has no bounds: it is what a reader of the documentation expects.
* `RecordingCollection`: one trigger rule, with `onTrigger` on. `requirePreWindow`,
  truncated queries and an inconsistent boundary are folded into `CaptureFails`. The
  session is a counter of changes and one action; late and duplicate results, which
  the collection ignores by its own guard, are left out. What follows a settled run in
  the same turn of the event loop is atomic (`Ending`). The store is the range of
  frames it retains.
* `AgentRuntime`: `latest` is the attempt with the current number; the client is
  `link`. Only the status write that `connect` awaits is modelled. Readiness
  waiters, collected-run admission, presentation and catalogs are left out, and one
  render is under way at a time. A scene is named by the revision that made it, or it is
  `Empty`, which is what a connection leaves; painters may render an empty scene too.

## 3. Runs

| run | question | instance |
| --- | --- | --- |
| `pipeline` | is the pipeline sound under any client? | 2 keys, 4 tasks, 2 overlapping holds, 2 handshake ids |
| `controller_runs` | is the controller sound when sends succeed? | 3 actions (step, reset, stop), 4 tasks, 2 runs, 1 hold, manual runs and quota 2 |
| `controller_failures` | which guarantees survive failing sends and any host? | 3 tasks, 1 run, manual or quota 1, two failures in one call, handshakes, the entry points that no host calls |
| `scene_sync` | do renderer and binding agree on the scene? | 2 syncs, 2 actions, 2 restores under one id, 1 capture, 1 parameter change, 1 item; syncs and restores time out |
| `recording_store` | does the store keep its promises whatever crashes or fails? | 4 frames retained 1 back, 2 contents, 2 pending frames, roots pruned every 2 generations, 1 reader |
| `recording_collection` | is every change in one frame, and the run never held for good? | 4 changes, windows 2 before and 1 after, 2 triggers, budget 2 checkpoints of 2 units, all modes and policies |
| `renderer_client` | is a transport ever lost, shared or installed too late? | 3 transports, 2 messages each |
| `agent_runtime` | do connect, disconnect, stop and checkpoints agree? | 2 attempts, 2 changes of the scene, 1 checkpoint waiting |
| `controller_pause`, `controller_stranded`, `scene_nesting`, `scene_restore` | disagreements, section 5 | the smallest instance with the counterexample |

Why the bounds suffice. Two keys and four tasks give a continuous task cancelled
and restarted while its old instance is active, the longest chain the deduplication map
can confuse, with one task that waits and one that could overtake it; two holds show that only the last
release dispatches; two handshake ids distinguish a stale end from the right one.
Four tasks and two runs let a task, timer or hook of a finished run meet the next
one; quota 2 is the smallest in which a tick is re-enqueued before the quota ends the run. Two syncs
and two restores are a request and its retry, before or after its verdict; one item suffices, as the diff treats
keys independently, so a stale baseline shows as a single wrong key. The bounds
`MaxTasks`, `MaxRuns` and `MaxHolds` only limit counters: `Room` keeps free the ids
that one call can create.

Four frames of which a rolling store retains the last and one before let the content of
frame 0 be collected and stored again at frame 3, the case in which a forgotten
object matters, while a reader pins the first generations; readers do not
interact, so one is enough. Four changes are two more than the window before, so a
window meets retention, budget and the end of the run. Three transports are an active
one, a candidate, and the one that a listener starts in between. Two attempts are a
retired and a current one; two scenes are an older and a newer write, and the third
revision, that of the start, is the empty one.

What the properties say:

* pipeline: `WorkConserving`, `CommandIsActive`, `NoTaskLost`,
  `OneContinuousPerKey`, `DispatchOnlyAtBoundary`, `OnlyCleanupOvertakes` (the tasks that
  must run before a queued one are joined by no other, but one-shot work put at the front).
* controller: `OverdueIsNoticed` (the shared timer covers the waiting action),
  `RunAccounting` (the counters of a run, its quota included), `OwnersAreLive`,
  `ResetBracket`, `NoTickAfterStop`, `HookOnceAndLast`, `SettledIsFinal`, `StoppedRunSettles`.
* scene: `BaselineIsCommitted` (when all is quiet and no restore has failed, the
  diff baseline is the committed scene), `OneOperationUnlessOvertaken`,
  `RestoreAppliedOnce`, `NothingUnanswered`.
* client: `EveryTransportIsOwned`, `NothingLostInTheSwap`, `LatestOperationWins`.
* store: `PromisedIsReadable` (published roots and open readers), `WriterIsAlone`,
  `InterruptedIsTrue`, `CompleteLostNothing`, and `ImplementsRecording`: the store is a
  refinement of `Recording`, with the published root as range and status, the readable
  frames up to it as what is kept, the pinned range as the view of an open reader, and
  `cut`, the history of the last rebuild, as itself.
* collection: `EveryCommitIsKept`, `WindowsAddUp`, `CheckpointsWithinBudget`,
  `ResultsDoNotOverrun`, `HoldIsReleased`.
* agent: `SceneIsSaved`, `StoppedIsClean`, `StopEnds`.

The failures run leaves out what is false or empty there: `NoTickAfterStop`, because a
host that requests a continuous action outside a run (none in the repository does) makes
one that no run ends; `StoppedRunSettles`, because a stop
hook whose send fails skips `maybeSettle`. `NoStrandedCommand` is its own run (section 5).

Where the code breaks a promise in one situation, the property names that situation as its
exception and holds otherwise, so that nothing else can break it unseen; section 5 lists
what is excepted. It is a restore that is `overtaken` (the renderer gives it up while the
binding has not marked it active) in the scene properties; a transport that a close
listener attaches and a buffer that `onActivated` leaves behind in the client; the rows
below the range that a rebuild finds (`cut`) in the store; and the scene that `connect`
empties in the agent. The scene run is cut off (`CONSTRAINT NotOvertaken`) where a restore
is overtaken: all its properties but the type invariant are about the states before that,
and what follows is run `scene_nesting`. Its syncs and restores may time out at any
moment; the timer of a capture, which requires no sync and multiplies the states by five,
is left to the proofs, which let all three expire. `NothingUnanswered` states the absence of
lost answers at quiescence, as an invariant; the corresponding liveness formula
takes TLC too long on this instance.

### Fairness

`RunController`: weak fairness of two *effects*: an action that was sent is
answered (the simulator's duty; the timeout does the same for it), and the host's
barrier promise settles either way (`BrowserRunRenderBarrier` resolves or rejects).
No user action and no timer is assumed to occur.

`RecordingCollection`: weak fairness of the chain of a frame and of the end: a capture
has a timeout, a write of the store succeeds or fails, and continuations run. The
simulator owes nothing: an action that never answers is given up by the timeout or
by nobody, and `HoldIsReleased` holds as no frame waits for it.

`AgentRuntime`: weak fairness of writes (of the scene, of recordings), which end one
way or the other, and of the continuations of a disconnect and a stop. Settlement
of an action ends by its answer or its deadline (`Settles`); the simulator owes nothing here either.

`PipelineRuntime`, `SceneSync`, `RecordingStore` and `RendererClient` state no fairness and
no liveness: a client may never answer, a process may crash, a connection may stay silent.
That a queued task gets its turn is split in two safety properties instead:
`WorkConserving` (whoever can be dispatched is) and `OnlyCleanupOvertakes` (what it waits for
does not grow), which bound the wait by the tasks it found, for every number of tasks.

Deadlock checking is off throughout: a session in which the user does nothing, or
in which a bound is reached, may stop.

## 4. Proofs

`PipelineRuntime_proofs` proves, for every set of keys, every bound and every
interleaving (assuming only that the bounds are natural numbers and that `None`
is no number, no handshake id and no task):

| theorem | statement |
| --- | --- |
| `TypeCorrect` | `Spec => []TypeOK` |
| `NeverIdleWithWork` | `Spec => []WorkConserving` |
| `CommandsAreActive` | `Spec => []CommandIsActive` |
| `TasksAreAccounted` | `Spec => []NoTaskLost` |
| `ContinuousTasksAreUnique` | `Spec => []OneContinuousPerKey` |
| `DispatchIsGated` | `Spec => DispatchOnlyAtBoundary` |
| `NobodyStarves` | `Spec => OnlyCleanupOvertakes` |

The inductive invariant is `IInv == Core(pipe, retired) /\ Busy(pipe)`. The two
parts are separate because a call is a composition: between freeing the active task
and dispatching the next, `Busy` (nothing waits that could be dispatched) is false,
while `Core` (types, every id accounted for, no task in two places, the pending
command belongs to the active task, the deduplication entries) holds throughout.
`NoTaskLost` is not inductive alone: its preservation needs that ids not yet used
are nowhere, and `OneContinuousPerKey` needs that the entry of a queued continuous
task names that very task, or a re-enqueue could double it. Each operator of
`TaskQueue` has a lemma that it preserves `Core` (`EnqueueAtCore`, `CancelKeysCore`,
`MarkRenderedCore`, ...) and `DispatchCore` says that dispatching establishes `Busy`;
an action of the specification is a case that cites them. `FirstIsQueued`, that the
`CHOOSE` of the earliest place picks a member of a non-empty queue, is by
well-foundedness of `<` on the naturals (`WFMin`) and needs no finiteness of the
queue. `DispatchIsGated` follows from `Gated`, which each operator's lemma gives for the
active slot. `NobodyStarves` follows from the same lemmas and `InOrder`, the property as a
relation between two pipeline records that composes: taking tasks out leaves the order of
the others alone (`FewerInOrder`), a new one-shot or continuous task has the greatest
place, and a dispatch turns the first of the queue into the active task, which is before
the rest either way.

`RunController_proofs` proves, for every set of actions, every bound, every outcome of
the sends and any of the public extras (assuming `KeysAssumption`, `OutcomesAssumption`,
`BoundsAssumption` and `OwnerAssumption`: the reset key is a key, outcomes are those of a
send, bounds are numbers, `None` is no owner):

| theorem | statement |
| --- | --- |
| `TypeCorrect` | `Spec => []TypeOK` |
| `RunsAreAccounted` | `Spec => []RunAccounting` |
| `OverdueActionsAreTimed` | `Spec => []OverdueIsNoticed` |
| `ResetIsBracketed` | `Spec => []ResetBracket` |
| `HookIsOnceAndLast` | `Spec => HookOnceAndLast` |
| `SettledRunsAreFinal` | `Spec => SettledIsFinal` |
| `OwnersStayLive` | `Spec => []OwnersAreLive`, assuming `"continuous-action" \notin PublicExtras` |
| `NoTickIsSentAfterStop` | `Spec => NoTickAfterStop`, under the same assumption |

The assumption says that no host requests a continuous action outside a run. No host of the
repository does, and without it both are false: such an action is repeated by no run, so
none ends it. A method of the controller composes a dozen private operators, so the
invariant is about the control record and holds between any two of them: `Good(c)` says
which tasks were sent, whom they belong to, that there is one stop hook, and that counters,
shared timer and reset bracket agree with the active task. The properties are corollaries
of its conjuncts, but none is inductive by itself: `RunAccounting` needs that the task in
flight is owned by the run exactly when the run counts it (`Owns`, `Waiting`), and that a
task was sent at most once (`Sends`). Two parts are false in the middle of a method and
restored by its end: `OnTrack` (a running run whose send failed still believes it waits)
and `Tidy` (a run that is over has nothing to repeat, one that is not has the pipeline to
itself). `Tidy` holds only under the assumption above, so it is in a second invariant,
`Orderly`. What a step may not do is a relation between two records that composes:
`Follows` (a run that is over stays over, a settled one keeps its account) gives
`SettledIsFinal` and `HookOnceAndLast`, `Hush` (once it is over no tick becomes active)
gives `NoTickAfterStop`.

`RendererClient_proofs` proves, for every set of transports and any number of
messages (assuming `ClientAssumption`: names do not collide, the bound is a number):

| theorem | statement |
| --- | --- |
| `TypeCorrect` | `Spec => []TypeOK` |
| `Ownership` | `Spec => []EveryTransportIsOwned` |
| `SwapLosesNothing` | `Spec => []NothingLostInTheSwap` |
| `LastOperationWins` | `Spec => LatestOperationWins` |

An operation of the client calls others, and between two of them a transport
belongs to nobody but the code that runs: `Release` has taken the old one from the client
and not destroyed it, `Install` holds the candidate. So the invariant is stated
about a client value `k` and the set `H` of transports *in hand*: `Good(k, H)` says that the
value is sound, every live transport is active, candidate or in `H`, and the ones in
`H` are neither. Each operator has a lemma from `Good` to `Good` with the change of
`H` it makes, and a step of the specification starts and ends with an empty hand:
`IInv == Good(client, {}) /\ Listening(client) /\ Complete(client)`. `Listening` says that the
session listens to the active transport unless that was attached by a close listener; it is
false inside `Release`, which is why it is not part of `Good`. `Complete` is the strengthening
that the swap needs: of the transport the session listens to it has received what was sent
after the part that was skipped, only a rejected attempt skips a buffer, and only a
transport attached in the middle of a replay gets messages of another. Within `Good`, the
buffer of a candidate is exactly what the candidate has sent, so draining it at the swap
establishes `Complete`. The calls the host makes from a callback are operations like the
others: `Perform` has one lemma, used for a call of the host, a listener of a remote close,
`onActivated` and the replay. `LastOperationWins` follows from the lemma about `Install`, as
`Superseded` compares the generation of the attempt, which `Good` makes that of the
candidate, with the one after the retirement.

`RecordingStore_proofs` proves, for every number of frames and readers, every set of
contents and every retention, queue and pruning bound:

| theorem | statement |
| --- | --- |
| `TypeCorrect` | `Spec => []TypeOK` |
| `OneWriter` | `Spec => []WriterIsAlone` |
| `InterruptedMeansIt` | `Spec => []InterruptedIsTrue` |
| `CompleteIsComplete` | `Spec => CompleteLostNothing` |
| `PromiseHolds` | `Spec => []PromisedIsReadable` |
| `StoreImplementsRecording` | `Spec => ImplementsRecording` |
| `NothingIsMissing` | `Log!Spec => []Log!NothingMissing` |
| `StoreLosesNothing` | `Spec => []Log!NothingMissing` |

The assumptions are those of the module (`BoundsAssumption`, `NamesAssumption`,
`NoneAssumption`: bounds are positive, contents are no frames and `None` is neither a
content nor a root). The inductive invariant has three layers, and each action has one lemma
for each of the first two (`PublishRootControl`, `PublishRootStorage`, ...).

* `Control` says where the writer is: which steps a job has, how `next`, `pending`,
  `observed` and the generation are related, that the published root is the one the
  writer remembers and ends right before `next`, what the draft of the next root says,
  and that a reader has the published root or one of an earlier generation. It says
  nothing of what is stored, and suffices for the first four theorems.
  `InterruptedIsTrue` alone is not inductive: it needs that a reader which found the
  lease free in its first question is looking at a store without a writer.
* `Storage` says what the directory holds. `PromisedIsReadable` needs of a commit that the
  objects, the descriptor and the row of the frame are there before the root that names it
  is (`Progress`), and that what the writer remembers to have stored is stored. It needs
  of a collection that before it deletes, every open reader's generation is either to
  be kept or on the list of pins still to be read (`Tracked`), and that afterwards the
  marked objects and the floor of the index cover all that anyone is entitled to
  (`Covered`). A reader that opens in the middle is in neither set; it becomes open
  only when its second read of the root returns the same root, which is the published one
  and so is kept anyway. `RootsStored`, that roots are told apart by their generation
  and that roots in use are stored, is what makes marking by generation find them.
* `Cut` says that an index is rebuilt only once the writer is gone, so the cut is the first
  frame of a root that stays the published one. `Promise`, in `Storage`, keeps the objects of
  a pinned range (`Stored`) apart from its rows: only the rows below the cut may be missing.

The refinement maps `PublishRoot` of a commit to `Commit` and of a close to `Finish`,
`Confirm` of a reader to `Open`, `CloseReader` and `CrashReader` of an open reader to
`Close`, a rebuild that succeeds to `Rebuild`, and every other step to `Reclaim` or a stutter: `RootMoves` and
`OthersLeaveReaders` say that nothing else touches root and views, and `Reclaims`
that a step which leaves them alone keeps `PromisedIsReadable`, hence all that anyone is
entitled to. `NothingIsMissing` is about the steps of the abstract recording alone (`LogInv`,
`LogInvStep`): it needs only that the range grows by one frame and that `Reclaim` spares
what anyone is entitled to. With the refinement it gives `StoreLosesNothing`, the promise
of the store in terms that name no file.

`SceneSync_proofs` proves, for every finite set of requests and any items and values (assuming
`RequestsAssumption` and `NoneAssumption`: kinds of requests are disjoint, restore ids are
no request ids, `None` is no other value):

| theorem | statement |
| --- | --- |
| `TypeCorrect` | `Spec => []TypeOK` |
| `OneAtATime` | `Spec => []OneOperationUnlessOvertaken` |
| `AppliedOnce` | `Spec => []RestoreAppliedOnce` |
| `EverythingAnswered` | `Spec => []NothingUnanswered` |
| `BaselineCommitted` | `Spec => []BaselineIsCommitted` |
| `NothingRefused` | `Spec => [](~overtaken /\ NoFailed => NoRejectedMutation)` |

Any of the three timers may expire at any moment. What is proved by induction is
`~overtaken => Inv /\ Spared` (`Invariance`): `overtaken` is history, set when the renderer
gives a restore up that the binding has not marked active, and never unset
(`OnceOvertaken`), so only the steps before that have to preserve `Inv`. A restore
that is given up later than that is marked or over (`AllMarked`), and then the timer takes
nothing from `Inv` (`TimeoutFails`): the binding refuses as busy what comes while it is marked,
and remembers the verdict of its id. `scene_nesting` shows that an overtaken restore does
break `OneOperation` (section 5).

A request is unsent, in the queue to the simulator, at work, and over; what it says is in
the queue to the renderer and then read. `Inv` says of each stage what the others may be in.

* `Base`: types, one message per request and no handler before it (`Queued`), and each
  handler at one of its own awaits (`Placed`). It is inductive by itself, whatever times
  out, and gives `TypeCorrect`.
* The simulator. `Busy`: of all operations at work one is marked, by the flag that is its own.
  `Ending`: nothing an operation says comes before its call or after its last word. `Begun`:
  a restore opens its bracket once.
* The renderer. `Guarded`: what its guards keep apart; `Known`: while no sync is required it
  waits for every operation that is open or has an answer on its way; `Patient`: a restore
  that is not marked yet is one of those. Marking after the `await` of the validation is
  sound for this reason only, and `Patient` is exactly what an overtaken restore breaks.
* `Alone`: the sync the renderer waits for has no operation behind it in the queue, once
  accepted none beside it, and nothing of another operation after its begin. This is what
  makes the staging scene of a sync hold its replay and nothing else.
* `Answered`: for whatever the renderer waits for there is an open request or an answer on
  its way; the exceptions, a sync that failed without a request id and an action whose
  target check threw (`thrown`), are visible here.
* `Applied`: an id that has no verdict was not applied, or its restore is under way.
* `Tracks`: the item messages under way lead, one after another and each allowed by the
  strict rules of the scenario, from the items the renderer has to those last pushed
  (`Leads`), and from the empty scene if the begin of a sync is among them. The
  baseline is set after the push, so `Pushed` says which of the two values is meant.

`NothingRefused` bounds the disagreements `scene_restore` and `scene_nesting` show: a restore
that failed and one that was overtaken are the only ways the simulator comes to send what the
committed scene refuses. `Tracks` is silent
about that scene while a sync is on its way, since the baseline is that of the sync by
then, although the committed scene goes on receiving what was said before. `Spared`, an
invariant beside `Inv`, is about that time. `Behind`: the messages before the
begin of the sync are allowed one after another (`Fit`), and the item messages
after it are in its staging scene. `Heard` says why there is nothing else: a sync that is
accepted and silent has nobody beside it, so what is pushed meanwhile is its own.
`Valued`: a scene that is committed has the parameter, so an update is allowed; a sync
defines it between its begin and its end (`Defines`), and `Bracketed` says that nothing else
does, so no definition reaches a scene that has it. A sync that is given up by its timer
makes another one required, and an error of a sync comes instead of its begin: neither
leaves a definition behind. The parts of `Spared` were first checked
with TLC as invariants of small instances, with all three timers.

Every step of the simulator is reduced to one lemma (`SimulatorSteps`): a handler runs to
its next await and says a few words, in the terms the invariant speaks of (`Step`). The
parts of `Step` are then enough to preserve each conjunct, so that no conjunct is compared
with every segment of every handler. On the renderer's side, `Reads` says
what every step there has in common: it reads at most one message and starts nothing.

`RecordingCollection_proofs` proves, for every number of changes and triggers, every
window, retention and checkpoint budget, in all modes and policies (`ConfigAssumption`:
the bounds are numbers):

| theorem | statement |
| --- | --- |
| `TypeCorrect` | `Spec => []TypeOK` |
| `CommitsAreKept` | `Spec => []EveryCommitIsKept` |
| `ResultsMeetNoHold` | `Spec => ResultsDoNotOverrun` |
| `WindowsAreExact` | `Spec => []WindowsAddUp` |
| `CheckpointsFit` | `Spec => []CheckpointsWithinBudget` |

`IInv` has a part for each. `Held`: while a frame is written no result is awaited,
as the hold is taken in the turn that begins the frame. `Keeps`: `EveryCommitIsKept`
compares all pairs of stored frames with all changes, and says nothing of how the next frame
will fit. The invariant says it by the order of changes: the store holds consecutive frames
up to `Newest`, each with changes after the last of the one before (`InOrder`), none is left
out between the first and the last (`Complete`), and what came after is exactly what waits
in the buffer, the batch or the draft, by the step of the job (`Waits`). Then appending
a frame and forgetting old ones are local. `KeptBack` says when a change may be in the
buffer: while a result is awaited, or `late`, after one or after its action was given up.
`Windowed`: a window is, by intervals, what it asked for (`Split`); it has no frame that retention may have taken (`Fresh`), which a
frame that is appended and one that is forgotten move in opposite directions; and it has
come as far as the newest frame, or is complete (`Grown`). Both parts are waived once
the collection has failed, as in the properties.

`CheckpointsFit` is about sums, and needs an account that says more than its total. `Ledger`
names what was charged: a set `D` of frames with a size for each, where the count is the
number of `D`, the bytes are the sum `Total(b, D)`, both within the budget, and every checkpoint
still in the retained range is in `D` with its size. In full history mode `D` may keep frames
the store has forgotten; in rolling mode it is exactly `c.checkpoints`, so that an eviction
takes back what was charged, and no more. `Charged` is the existence of such an
account, and is an invariant of its own, as it is about numbers and `IInv` is about order.
What a sum over a set is (that it does not depend on the order in which `CHOOSE` takes the
members, that a part of it is no larger) is proved by the smallest counterexample
(`TotalAdds`, `TotalWithout`), as the theorems on induction take an operator.

`AgentRuntime_proofs` proves, for every number of attempts, changes and waiting
checkpoints:

| theorem | statement |
| --- | --- |
| `ScenesAreSaved` | `Spec => []SceneIsSaved` |
| `StoppedStaysClean` | `Spec => []StoppedIsClean` |

`SceneIsSaved` needs that the checkpoints in the chain are in the order of their
revisions, none older than what is on disk, and that a checkpoint of the current revision
has the current scene, or is empty once a connection has emptied that (`Ordered`); that a
dirty scene has a checkpoint, a timer or a failed write of its revision (`Covered`); and that a disconnect which saves waits
for that one (`Due`). `StoppedIsClean` needs what a stop relies on before it is done: from
`draining` on there is no connection and no current attempt (`Hosting`), and a stop that
waits for no operation has nothing left but to say so (`Ending`).

Only model-checked: liveness (`StoppedRunSettles`, `HoldIsReleased`, `StopEnds`), which is
beyond the prover, as is `ENABLED`. What the scene does after a restore was overtaken is
only explored (`scene_nesting`), as the properties are false there. Every
other invariant and action property of the passing runs is a theorem. No module uses
recursion.

## 5. Disagreements found

Each has a run that ends in the counterexample, and a "findings" entry with the lines.

1. `controller_pause`: `pause()` between a tick's result and its render leaves
   the run "running" for good: `paused` is concluded only when a result is observed.
2. `controller_stranded`: when a send fails, the next queued task becomes active; if
   no run is running, the exception leaves before its command is sent or its timer armed.
3. `scene_nesting`: `onSceneRestore` checks `isBusy()` (`session.ts:1378`) before it awaits
   the user's validation (1411) and marks itself active after (1418); a state sync accepted
   in between is joined by the restore. The theorem `OneAtATime` shows that this takes a
   restore that the renderer gave up in that time, and nothing else.
4. `scene_restore`: a restore that fails while its scene is pushed rolls the
   model back and not the diff baseline, so the next step creates what the renderer holds.

Observed on the way, and not runs of their own. Where a property of a run would be false
for one of them, the property names it as its exception.

Controller and scene. A step of the run's own action, requested during a tick, is
cancelled by the end of that tick (`RunController.ts:617`), although the comment at 368
promises to enqueue it behind the tick. A refused parameter change is answered by an
error that names no request and by no `param_sync`, so the renderer keeps showing it
(`session.ts:1254`, comment at `Scenario.ts:200`). A failed send of an action that no
run owns marks the last, settled run `stateKnown = false` (`RunController.ts:712`);
`cancelContinuousActions` and `requestAction` can remove a queued task without
`maybeSettle`; `syncRecords` updates its baseline only after all sends, so a record
refused in the middle leaves it behind (`session.ts:489`); a late `param_sync` overtakes a newer value shown optimistically; a failed sync is
reported without a request id, so the renderer waits for its timer.

A restore is applied twice. The renderer gives a restore up, syncs, and sends it again under its
request id while the binding still validates the first copy: neither `restoreResults` nor
`isBusy()` knows it (`session.ts:1346`, 1378), so both are applied.
`packages/protocol/SPECIFICATION.md:130` says "A repeated restore `request_id` in the same
instance MUST NOT apply the restore again", and `docs/api-reference/js-api.md:328` that the ids
are idempotent. It is the same gap as `scene_nesting`; `RestoreAppliedOnce` says that it
takes an overtaken restore, and a retry after that is safe.

An action without a result. `onActionInvoke` calls `invalidTarget` (`session.ts:1309`) before its
`try`; it evaluates `layer.items` and `layer.project` of the user (769-795). If they throw,
the host reports an error that names no request and no `action_result` follows, although
`SPECIFICATION.md:82` says "Every parsed `action_invoke` receives exactly one correlated
`action_result`". The run ends by its action timer. `NothingUnanswered` excepts these actions.

Store. A rebuild replaces the index by the rows of the current root
(`recording-store.ts:1188-1238`) and asks for no pins, so a reader of an older generation loses
the frames below that root's range: it finds no row, although the objects are still there.
`docs/api-reference/recording-storage.md:27` says that "generation pin files protect live
readers", and :39 that "A reader pins one immutable generation". `PromisedIsReadable` and
`Recording` name these frames (`cut`) and no others. A reader that
is opening (its pin file is created and then written) or closes between the listing and
the reading of the pins makes `pinnedGenerations` throw (`NodeRecordingStore.ts:299`),
and with it a collection or a commit, which fails the writer.

Collection. Changes between the first capture and the registration of the listeners are in
no frame. Nor are changes kept back for an action that never answers, or made after the
last result, if no commit follows; the root may still say "complete".
`EveryCommitIsKept` says only when a change may be kept back (a result is awaited, or `late`).
A frame whose append fails leaves a window "complete" that names it, which is why
`WindowsAddUp` exempts a failed collection. `start()` does not check the first capture for an
inconsistent boundary.

Client. A close listener may call `attachTransport` while `releaseActiveTransport` is under way
(`RendererClient.ts:150-164`): the transport becomes active, then the release detaches the
session, so the client has an active transport nobody listens to, although the comment at 68
promises that "a host-managed reconnecting transport can deliver its first message"; if the
release was that of an `attachTransport`, it is also forgotten alive. When `onActivated`
(118) begins another operation or throws, the attempt rejects and its buffer is not replayed;
if nothing retired the transport, it stays active and later messages arrive without the
first ones. A transport attached in the middle of a replay receives the rest of it (120).
The wait for a rendering is registered when the code that awaited the result goes on
(`RendererClient.ts:263-295`): if the transport was replaced in between, it belongs to
the new connection and is left to its timer.

Agent. The handshake of a retired attempt may finish while its successor awaits the
status write: it attaches and sets the phase, and if that status write fails, the
link of the retired attempt stays. `connect()` empties the scene (`AgentRuntime.ts:308-310`)
without a new revision: if the scene was dirty, the checkpoint timer writes the empty one over the
saved one and calls it clean, so the retry that `docs/user-guide/agent-runtime.md:53`
describes has nothing left to save. `SceneIsSaved` names that case. A failed checkpoint in a
disconnect leaves the phase "stopping" (a late settlement does not: the phase becomes idle and
the disconnect rejects), a failed status write in a connect leaves it "connecting", and a close
during a stop sets it to "idle" until the stop ends. A collection that is being started is not
among the recording writes, so a stop does not wait for it.

## 6. Not modelled

Codec and schemas (stateless), network layout (numeric), the web and desktop user
interfaces, the Go, Julia and Python bindings (further implementations of the simulator
side), the metrics. The render barrier is a promise of the environment. The snapshot
recorder and the projected restore are sequential transformations of data. Of the
modelled components: sparse layer producers, reconnects of a transport to a running
simulator session, identity changes, queries, playback and export of recordings, the
IndexedDB backend, rendering and the command line of the agent. Most of the lines of
the repository are these: user interface, schemas, data transformation and language
bindings without an order of events to check.

## 7. What could follow

1. `RendererSession` with reconnects and identity changes, extending `SceneSync`.
2. `RecordingCollection` over the controller and the store instead of over what it
   sees of them.
3. Snapshot recorder segments as functions against a reference definition.
