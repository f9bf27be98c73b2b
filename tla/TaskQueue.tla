------------------------------ MODULE TaskQueue ------------------------------
(***************************************************************************)
(* The data structure under the renderer's action pipeline: the task queue *)
(* of packages/core/src/runtime/TaskQueue.ts, the sync boundary of         *)
(* SyncBoundary.ts and the compositions of both in PipelineRuntime.ts, as  *)
(* operators from one pipeline record to the next.  PipelineRuntime.tla    *)
(* drives them with an arbitrary client, RunController.tla with the        *)
(* controller that the renderer really uses.                               *)
(*                                                                         *)
(* Tasks are numbered in the order of their creation (the code draws a     *)
(* UUID), so the array of queued tasks is a set of tasks with an order:    *)
(* push puts a task behind all older ones, unshift before all others.      *)
(* Timestamps, timings and snapshots for callers are left out.             *)
(***************************************************************************)
EXTENDS Integers

CONSTANTS
  Keys,     \* the action ids a task can carry
  SyncIds,  \* the request ids of state-sync handshakes
  None      \* the null of the source

TaskId == Nat \ {0}

\* A queue record.  "front" tells unshift from push; "continues" is false once a completion said
\* should_continue: false (continueRequested in the source).
Task == [id: TaskId, key: Keys, continuous: BOOLEAN, front: BOOLEAN,
         stage: {"queued", "dispatched", "completed", "applied"},
         continues: BOOLEAN]

ASSUME NoneAssumption == None \notin Nat /\ None \notin SyncIds /\ None \notin Task

Pipeline ==
  [next           : TaskId,               \* the id the next task gets
   queue          : SUBSET Task,
   active         : Task \cup {None},
   pending        : SUBSET TaskId,        \* dispatch commands not yet consumed
   continuousKeys : SUBSET Keys,
   continuousTask : [Keys -> TaskId \cup {None}],
   holds          : Nat,
   sync           : {"idle", "requested", "receiving"},
   syncId         : SyncIds \cup {None}]

EmptyPipeline ==
  [next |-> 1, queue |-> {}, active |-> None, pending |-> {},
   continuousKeys |-> {}, continuousTask |-> [k \in Keys |-> None],
   holds |-> 0, sync |-> "idle", syncId |-> None]

Place(t) == IF t.front THEN -t.id ELSE t.id

First(Q) == CHOOSE t \in Q : \A u \in Q : Place(t) <= Place(u)

IsActive(p, id) == p.active # None /\ p.active.id = id

SyncIdle(p) == p.sync = "idle"

-----------------------------------------------------------------------------
(* TaskQueue: queueing and cancelling.                                     *)

NewTask(p, key, continuous, front) ==
  [id |-> p.next, key |-> key, continuous |-> continuous, front |-> front,
   stage |-> "queued", continues |-> TRUE]

\* A continuous key that already has a live task is not queued twice.
AlreadyQueued(p, key, continuous) ==
  continuous /\ p.continuousTask[key] # None

EnqueueAt(p, key, continuous, front) ==
  IF AlreadyQueued(p, key, continuous)
  THEN [p EXCEPT !.continuousKeys = @ \cup {key}]
  ELSE [p EXCEPT
         !.next = @ + 1,
         !.queue = @ \cup {NewTask(p, key, continuous, front)},
         !.continuousKeys = IF continuous THEN @ \cup {key} ELSE @,
         !.continuousTask = IF continuous THEN [@ EXCEPT ![key] = p.next] ELSE @]

\* The ids cancel() returns.  K is {key} for cancel(key), Keys for cancel().
CancelledIds(p, K) == {t.id : t \in {u \in p.queue : u.key \in K}}

CancelKeys(p, K) ==
  [p EXCEPT !.queue = {t \in @ : t.key \notin K},
            !.continuousKeys = @ \ K,
            !.continuousTask = [k \in Keys |-> IF k \in K THEN None ELSE @[k]]]

-----------------------------------------------------------------------------
(* TaskQueue: dispatch and the stages of the active task.                  *)

\* Mutants: a dispatch over an active task, and one under a hold.
CanDispatchOverActive(p) == p.holds = 0 /\ p.queue # {}
CanDispatchHeld(p) == p.active = None /\ p.queue # {}

CanDispatch(p) == p.holds = 0 /\ p.active = None /\ p.queue # {}

MaybeDispatchNext(p) ==
  IF CanDispatch(p)
  THEN [p EXCEPT !.queue = @ \ {First(@)},
                 !.active = [First(p.queue) EXCEPT !.stage = "dispatched"],
                 !.pending = @ \cup {First(p.queue).id}]
  ELSE p

\* Guards of completeTask, markTaskApplied and markTaskRendered: each returns
\* false and changes nothing when its guard does not hold.
CanComplete(p, id) == IsActive(p, id) /\ p.active.stage = "dispatched"
CanRender(p, id)   == IsActive(p, id) /\ p.active.stage \in {"completed", "applied"}

CompleteTask(p, id, continues) ==
  IF CanComplete(p, id)
  THEN [p EXCEPT !.active = [@ EXCEPT !.stage = "completed", !.continues = continues]]
  ELSE p

MarkApplied(p, id) ==
  IF CanRender(p, id) THEN [p EXCEPT !.active = [@ EXCEPT !.stage = "applied"]] ELSE p

\* Mutant: forget the key even when a newer task owns it.
ForgetAnyContinuous(p) ==
  IF p.active.continuous THEN [p.continuousTask EXCEPT ![p.active.key] = None]
  ELSE p.continuousTask

\* Drop the deduplication entry of the active task, unless a newer task of the
\* same key owns it.
ForgetContinuous(p) ==
  IF p.active.continuous /\ p.continuousTask[p.active.key] = p.active.id
  THEN [p.continuousTask EXCEPT ![p.active.key] = None]
  ELSE p.continuousTask

ConsumeCommands(p) == [p EXCEPT !.pending = {}]

-----------------------------------------------------------------------------
(* PipelineRuntime: every call that can make room for a dispatch ends with *)
(* an attempt to dispatch, unless a state sync is open.                    *)

DispatchIfIdle(p) == IF SyncIdle(p) THEN MaybeDispatchNext(p) ELSE p

Enqueue(p, key, continuous) == DispatchIfIdle(EnqueueAt(p, key, continuous, FALSE))
EnqueueFront(p, key)        == DispatchIfIdle(EnqueueAt(p, key, FALSE, TRUE))

ShouldContinue(t, keys) == t.continuous /\ t.key \in keys /\ t.continues

\* Mutant: a continuous task is queued again before those that wait.
MarkRenderedFirst(p, id) ==
  IF ~CanRender(p, id) THEN p
  ELSE LET released == [p EXCEPT !.active = None, !.continuousTask = ForgetContinuous(p)]
       IN  IF ShouldContinue(p.active, p.continuousKeys)
           THEN DispatchIfIdle(EnqueueAt(released, p.active.key, TRUE, TRUE))
           ELSE DispatchIfIdle(released)

MarkRendered(p, id) ==
  IF ~CanRender(p, id) THEN p
  ELSE LET released == [p EXCEPT !.active = None, !.continuousTask = ForgetContinuous(p)]
       IN  IF ShouldContinue(p.active, p.continuousKeys)
           THEN Enqueue(released, p.active.key, TRUE)
           ELSE DispatchIfIdle(released)

\* Mutant: the dispatch command of the cancelled task stays.
CancelPendingDispatchOnly(p, id) ==
  IF ~CanComplete(p, id) THEN p
  ELSE DispatchIfIdle([p EXCEPT !.active = None, !.continuousTask = ForgetContinuous(p)])

\* Only for a dispatched task whose action_invoke was not sent.
CancelPendingDispatch(p, id) ==
  IF ~CanComplete(p, id) THEN p
  ELSE LET owns == p.active.continuous /\ p.continuousTask[p.active.key] = id
       IN  DispatchIfIdle(
             [p EXCEPT !.active = None,
                       !.pending = @ \ {id},
                       !.continuousTask = ForgetContinuous(p),
                       !.continuousKeys = IF owns THEN @ \ {p.active.key} ELSE @])

HoldDispatch(p) == [p EXCEPT !.holds = @ + 1]

\* Mutant: the last release forgets the queue.
ReleaseHoldOnly(p) == [p EXCEPT !.holds = @ - 1]

ReleaseHold(p)  == DispatchIfIdle([p EXCEPT !.holds = @ - 1])

\* reset() keeps the holds: their owners still release them one by one.
ResetPipeline(p) ==
  [p EXCEPT !.queue = {}, !.active = None, !.pending = {},
            !.continuousKeys = {}, !.continuousTask = [k \in Keys |-> None],
            !.sync = "idle", !.syncId = None]

-----------------------------------------------------------------------------
(* SyncBoundary: one handshake at a time; a boundary with another request  *)
(* id or in the wrong phase is discarded.                                  *)

RequestSync(p, r) ==
  IF SyncIdle(p) THEN [p EXCEPT !.sync = "requested", !.syncId = r] ELSE p

SyncBegin(p, r) ==
  IF p.syncId = r /\ p.sync = "requested" THEN [p EXCEPT !.sync = "receiving"] ELSE p

CloseSync(p) == MaybeDispatchNext([p EXCEPT !.sync = "idle", !.syncId = None])

SyncEnd(p, r)   == IF p.syncId = r /\ p.sync = "receiving" THEN CloseSync(p) ELSE p
AbortSync(p, r) == IF p.syncId = r THEN CloseSync(p) ELSE p

=============================================================================
