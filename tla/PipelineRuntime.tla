--------------------------- MODULE PipelineRuntime ---------------------------
(***************************************************************************)
(* PipelineRuntime.ts driven by an arbitrary client that keeps the one     *)
(* rule every host keeps: a task is completed only after its dispatch      *)
(* command was consumed (a result answers a message that was sent).        *)
(***************************************************************************)
EXTENDS TaskQueue

CONSTANTS
  MaxTasks,  \* bound: tasks ever created
  MaxHolds   \* bound: dispatch holds open at once

ASSUME BoundsAssumption == MaxTasks \in Nat /\ MaxHolds \in Nat

VARIABLES
  pipe,     \* the pipeline record
  retired   \* history: the ids of tasks that were rendered, cancelled or reset

vars == <<pipe, retired>>

Init == pipe = EmptyPipeline /\ retired = {}

LiveIds(p) ==
  {t.id : t \in p.queue} \cup (IF p.active = None THEN {} ELSE {p.active.id})

\* Apply one call of the API that retires the tasks "gone".
Call(p, gone) == pipe' = p /\ retired' = retired \cup gone

-----------------------------------------------------------------------------

Room == pipe.next <= MaxTasks

EnqueueTask(key, continuous) ==
  Room /\ Call(Enqueue(pipe, key, continuous), {})

EnqueueFrontTask(key) ==
  Room /\ Call(EnqueueFront(pipe, key), {})

Cancel(K) == Call(CancelKeys(pipe, K), CancelledIds(pipe, K))

Reset == Call(ResetPipeline(pipe), LiveIds(pipe))

Consume == pipe.pending # {} /\ Call(ConsumeCommands(pipe), {})

Complete(id, continues) ==
  /\ CanComplete(pipe, id) /\ pipe.pending = {}
  /\ Call(CompleteTask(pipe, id, continues), {})

Apply(id) == CanRender(pipe, id) /\ Call(MarkApplied(pipe, id), {})

Render(id) ==
  /\ CanRender(pipe, id)
  /\ ShouldContinue(pipe.active, pipe.continuousKeys) => Room
  /\ Call(MarkRendered(pipe, id), {id})

CancelDispatch(id) ==
  CanComplete(pipe, id) /\ Call(CancelPendingDispatch(pipe, id), {id})

\* Mutant: a release that is not idempotent.
ReleaseAgain == Call(ReleaseHold(pipe), {})

Hold    == pipe.holds < MaxHolds /\ Call(HoldDispatch(pipe), {})
Release == pipe.holds > 0 /\ Call(ReleaseHold(pipe), {})

RequestStateSync(r) == SyncIdle(pipe) /\ Call(RequestSync(pipe, r), {})
RecordBegin(r)      == Call(SyncBegin(pipe, r), {})
RecordEnd(r)        == Call(SyncEnd(pipe, r), {})
AbortStateSync(r)   == Call(AbortSync(pipe, r), {})

-----------------------------------------------------------------------------

QueueStep ==
  \/ \E k \in Keys, c \in BOOLEAN : EnqueueTask(k, c)
  \/ \E k \in Keys : EnqueueFrontTask(k)
  \/ \E k \in Keys : Cancel({k})
  \/ Cancel(Keys)
  \/ Reset

ActiveIds == IF pipe.active = None THEN {} ELSE {pipe.active.id}

TaskStep ==
  \E id \in ActiveIds :
    \/ \E c \in BOOLEAN : Complete(id, c)
    \/ Apply(id)
    \/ Render(id)
    \/ CancelDispatch(id)

SyncStep ==
  \E r \in SyncIds :
    \/ RequestStateSync(r)
    \/ RecordBegin(r)
    \/ RecordEnd(r)
    \/ AbortStateSync(r)

Next == QueueStep \/ TaskStep \/ SyncStep \/ Consume \/ Hold \/ Release

Spec == Init /\ [][Next]_vars

-----------------------------------------------------------------------------
(* Properties.                                                             *)

TypeOK == pipe \in Pipeline /\ retired \subseteq TaskId

\* PipelineRuntime dispatches in every call that can make room, so the
\* pipeline never idles with work: whenever no sync is open, no hold is taken
\* and no task is active, the queue is empty.
WorkConserving ==
  SyncIdle(pipe) /\ pipe.holds = 0 /\ pipe.active = None => pipe.queue = {}

\* A dispatch command always belongs to the active task and is never doubled:
\* what the host sends is what the pipeline waits for.
CommandIsActive ==
  \/ pipe.pending = {}
  \/ /\ pipe.active # None /\ pipe.active.stage = "dispatched"
     /\ pipe.pending = {pipe.active.id}

\* Every task ever created is queued, active or retired, and in one place
\* only: no call loses a task, doubles it or revives a retired one.
NoTaskLost ==
  /\ 1 .. (pipe.next - 1) = LiveIds(pipe) \cup retired
  /\ LiveIds(pipe) \cap retired = {}
  /\ \A t, u \in pipe.queue : t.id = u.id => t = u
  /\ pipe.active # None => \A t \in pipe.queue : t.id # pipe.active.id

\* The deduplication of continuous tasks survives cancel-and-restart: two
\* queued continuous tasks never share a key, and the queued one is the one
\* the deduplication entry names.
OneContinuousPerKey ==
  \A t \in pipe.queue :
    t.continuous => /\ pipe.continuousTask[t.key] = t.id
                    /\ t.key \in pipe.continuousKeys

\* A task becomes active only at an idle sync boundary with no hold taken.
DispatchOnlyAtBoundary ==
  [][pipe'.active # None /\ (pipe.active = None \/ pipe.active.id # pipe'.active.id)
       => pipe'.sync = "idle" /\ pipe'.holds = 0]_vars

\* The tasks that must run before a queued task gets its turn.
Before(p, t) ==
  {u \in p.queue : Place(u) < Place(t)} \cup (IF p.active = None THEN {} ELSE {p.active})

\* A queued task waits for a set of tasks that no call enlarges, except by the one-shot
\* lifecycle work enqueueFront is there for: neither a continuous task that re-enqueues
\* itself, nor one that is cancelled and restarted, nor a later action overtakes it, so it
\* gets its turn after the tasks it found (TaskQueue.ts:211-228, 256-268).
OnlyCleanupOvertakes ==
  [][\A t \in pipe.queue \cap pipe'.queue :
       \A u \in Before(pipe', t) :
         \/ \E w \in Before(pipe, t) : w.id = u.id
         \/ u.front /\ ~u.continuous]_vars

=============================================================================
