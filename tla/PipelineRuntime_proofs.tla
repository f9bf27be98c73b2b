------------------------ MODULE PipelineRuntime_proofs ------------------------
(***************************************************************************)
(* The invariants of PipelineRuntime.tla, for every set of keys, every     *)
(* bound and every interleaving of calls.                                  *)
(*                                                                         *)
(* The inductive invariant has two parts, Core and Busy; that each         *)
(* operator preserves them is proved in TaskQueue_proofs.tla.              *)
(***************************************************************************)
EXTENDS PipelineRuntime, TaskQueue_proofs

LEMMA ResetCore ==
  ASSUME NEW p, NEW R, Core(p, R)
  PROVE  LET q == ResetPipeline(p) IN Core(q, R \cup LiveIds(p)) /\ Busy(q)
<1> DEFINE q == ResetPipeline(p)
           S == R \cup LiveIds(p)
<1>1. p \in Pipeline /\ R \subseteq TaskId
  BY DEF Core
<1>2. /\ q \in Pipeline
      /\ q.next = p.next /\ q.queue = {} /\ q.active = None /\ q.pending = {}
  BY <1>1 DEF ResetPipeline, Pipeline
<1>3. \A id : id \in S <=> id \in R \/ InQueue(p, id) \/ IsActive(p, id)
  BY DEF LiveIds, InQueue, IsActive
<1>4. S \subseteq TaskId
  BY <1>1, <1>3 DEF InQueue, IsActive, Pipeline, Task
<1> QED BY <1>2, <1>3, <1>4
        DEF Core, Accounted, InQueue, IsActive, Disjoint, Commands, OnePerKey, Busy

-----------------------------------------------------------------------------
(* Who stands before whom.                                                 *)

Alike(u, w) == w.id = u.id /\ w.front = u.front /\ w.continuous = u.continuous

\* No task that waits over the call gets a new task before it, lifecycle work aside.
InOrder(p, q) ==
  \A t \in p.queue \cap q.queue :
    \A u \in Before(q, t) : (\E w \in Before(p, t) : Alike(u, w)) \/ (u.front /\ ~u.continuous)

LEMMA InOrderTransitive ==
  ASSUME NEW p, NEW q, NEW r, InOrder(p, q), InOrder(q, r), p.queue \cap r.queue \subseteq q.queue
  PROVE  InOrder(p, r)
BY DEF InOrder, Alike

\* A call that only removes tasks, or changes the stage of the active one.
LEMMA FewerInOrder ==
  ASSUME NEW p, NEW q, q.queue \subseteq p.queue,
         q.active # None => p.active # None /\ Alike(q.active, p.active)
  PROVE  InOrder(p, q)
BY DEF InOrder, Before, Alike

LEMMA DispatchInOrder ==
  ASSUME NEW p, NEW R, Core(p, R)
  PROVE  InOrder(p, MaybeDispatchNext(p)) /\ InOrder(p, DispatchIfIdle(p))
<1> DEFINE q == MaybeDispatchNext(p)
           t == First(p.queue)
           a == [t EXCEPT !.stage = "dispatched"]
<1>1. InOrder(p, p)
  BY FewerInOrder DEF Alike
<1>2. CASE ~CanDispatch(p)
  BY <1>1, <1>2 DEF MaybeDispatchNext, DispatchIfIdle
<1>3. CASE CanDispatch(p)
  <2>1. p \in Pipeline /\ p.queue # {} /\ p.active = None
    BY <1>3 DEF Core, CanDispatch
  <2>2. t \in p.queue /\ t \in Task /\ \A u \in p.queue : Place(t) <= Place(u)
    BY <2>1, FirstIsFirst DEF Pipeline
  <2>3. q.queue = p.queue \ {t} /\ q.active = a
    BY <1>3, <2>1 DEF MaybeDispatchNext, Pipeline
  <2>4. Alike(a, t)
    BY <2>2 DEF Alike, Task
  <2>5. \A u, w \in p.queue : Place(u) = Place(w) => u = w
    BY <2>1 DEF Core, Disjoint, Pipeline, Task, TaskId, Place
  <2>6. \A u \in p.queue : Place(u) \in Int
    BY <2>1 DEF Pipeline, Task, TaskId, Place
  <2>7. ASSUME NEW v \in p.queue \cap q.queue, NEW u \in Before(q, v)
        PROVE  \E w \in Before(p, v) : Alike(u, w)
    <3>1. CASE u \in p.queue /\ Place(u) < Place(v)
      BY <3>1 DEF Before, Alike
    <3>2. CASE u = a
      <4>1. v \in p.queue /\ v # t
        BY <2>3, <2>7
      <4>2. Place(t) < Place(v)
        BY <2>2, <2>5, <2>6, <4>1
      <4>3. t \in Before(p, v)
        BY <2>2, <4>2 DEF Before
      <4> QED BY <2>4, <3>2, <4>3
    <3> QED BY <2>3, <2>7, <3>1, <3>2 DEF Before
  <2>8. InOrder(p, q)
    BY <2>7 DEF InOrder
  <2> QED BY <1>1, <2>8 DEF DispatchIfIdle
<1> QED BY <1>2, <1>3

LEMMA EnqueueInOrder ==
  ASSUME NEW p, NEW R, Core(p, R), NEW key \in Keys, NEW c \in BOOLEAN, NEW f \in BOOLEAN, ~(c /\ f)
  PROVE  InOrder(p, DispatchIfIdle(EnqueueAt(p, key, c, f)))
<1> DEFINE r == EnqueueAt(p, key, c, f)
           n == NewTask(p, key, c, f)
<1>1. Sound(p) /\ p \in Pipeline /\ Core(r, R) /\ r.active = p.active
  BY EnqueueAtCore DEF Sound, Core
<1>2. r.queue = p.queue \/ r.queue = p.queue \cup {n}
  BY <1>1, EnqueueAtQueue
<1>3. /\ n.id = p.next /\ n.front = f /\ n.continuous = c
      /\ p.next \in Nat /\ \A t \in p.queue : t.id \in Nat /\ t.id < p.next /\ t.front \in BOOLEAN
  BY <1>1, SoundFacts DEF NewTask, Task
<1>4. \A t \in p.queue : Place(n) < Place(t) => f
  BY <1>3 DEF Place
<1>5. InOrder(p, r)
  <2> HIDE DEF r, n
  <2> QED BY <1>1, <1>2, <1>3, <1>4 DEF InOrder, Before, Alike
<1>6. InOrder(r, DispatchIfIdle(r))
  <2> HIDE DEF r
  <2> QED BY <1>1, DispatchInOrder
<1>7. p.queue \subseteq r.queue
  BY <1>2
<1> DEFINE q == DispatchIfIdle(r)
<1>8. InOrder(r, q)
  BY <1>6
<1> HIDE DEF r, q
<1>9. InOrder(p, q)
  BY <1>5, <1>7, <1>8, InOrderTransitive
<1> QED BY <1>9 DEF q, r

LEMMA FreeInOrder ==
  ASSUME NEW p, NEW r, r.queue = p.queue, r.active = None, NEW R, Core(r, R)
  PROVE  /\ InOrder(p, DispatchIfIdle(r))
         /\ \A key \in Keys : InOrder(p, Enqueue(r, key, TRUE))
<1>1. InOrder(p, r)
  BY FewerInOrder
<1>2. InOrder(r, DispatchIfIdle(r)) /\ \A key \in Keys : InOrder(r, Enqueue(r, key, TRUE))
  BY DispatchInOrder, EnqueueInOrder DEF Enqueue
<1>3. ASSUME NEW q, InOrder(r, q) PROVE InOrder(p, q)
  BY <1>1, <1>3, InOrderTransitive
<1> QED BY <1>2, <1>3

-----------------------------------------------------------------------------
(* The inductive invariant of the specification.                           *)

IInv == Core(pipe, retired) /\ Busy(pipe)

LEMMA InitIInv == Init => IInv
<1> SUFFICES ASSUME Init PROVE IInv
  OBVIOUS
<1>1. /\ pipe \in Pipeline /\ retired = {}
      /\ pipe.next = 1 /\ pipe.queue = {} /\ pipe.active = None /\ pipe.pending = {}
  BY DEF Init, EmptyPipeline, Pipeline, TaskId
<1> QED
  BY <1>1
  DEF IInv, Core, Busy, Accounted, InQueue, IsActive, Disjoint, Commands, OnePerKey, TaskId

LEMMA NextIInv == IInv /\ [Next]_vars => IInv'
<1> SUFFICES ASSUME IInv, [Next]_vars PROVE IInv'
  OBVIOUS
<1> USE DEF IInv
<1>0. pipe \in Pipeline /\ Core(pipe, retired) /\ Busy(pipe)
  BY DEF Core
<1> DEFINE Ok(p, gone) == Core(p, retired \cup gone) /\ Busy(p)
<1>c. ASSUME NEW p, NEW gone, Ok(p, gone), Call(p, gone) PROVE IInv'
  BY <1>c DEF Call
<1>e. retired \cup {} = retired
  OBVIOUS
<1>1. ASSUME NEW k \in Keys, NEW c \in BOOLEAN, EnqueueTask(k, c) PROVE IInv'
  BY <1>1, <1>c, <1>e, EnqueueCore DEF EnqueueTask
<1>2. ASSUME NEW k \in Keys, EnqueueFrontTask(k) PROVE IInv'
  BY <1>2, <1>c, <1>e, EnqueueFrontCore DEF EnqueueFrontTask
<1>3. ASSUME NEW K \in SUBSET Keys, Cancel(K) PROVE IInv'
  BY <1>3, <1>c, CancelKeysCore DEF Cancel
<1>4. ASSUME Reset PROVE IInv'
  BY <1>4, <1>c, ResetCore DEF Reset
<1>5. ASSUME NEW id, NEW c \in BOOLEAN, Complete(id, c) PROVE IInv'
  <2>1. CanComplete(pipe, id) /\ pipe.pending = {} /\ Call(CompleteTask(pipe, id, c), {})
    BY <1>5 DEF Complete
  <2> DEFINE q == [pipe EXCEPT !.active = [@ EXCEPT !.stage = "completed", !.continues = c]]
  <2>2. CompleteTask(pipe, id, c) = q
    BY <2>1 DEF CompleteTask
  <2>3. pipe.active # None
    BY <2>1 DEF CanComplete, IsActive
  <2>4. Core(q, retired) /\ Busy(q)
    BY <1>0, <2>1, <2>3, StageCore
  <2>5. Ok(CompleteTask(pipe, id, c), {})
    BY <1>e, <2>2, <2>4
  <2> QED BY <1>c, <2>1, <2>5
<1>6. ASSUME NEW id, Apply(id) PROVE IInv'
  <2>1. CanRender(pipe, id) /\ Call(MarkApplied(pipe, id), {})
    BY <1>6 DEF Apply
  <2>2. pipe.pending = {} /\ pipe.active # None /\ pipe.active \in Task
    BY <1>0, <2>1 DEF Core, Commands, CanRender, IsActive, Pipeline
  <2> DEFINE b == pipe.active.continues
             q == [pipe EXCEPT !.active = [@ EXCEPT !.stage = "applied", !.continues = b]]
  <2>3. MarkApplied(pipe, id) = q
    BY <1>0, <2>1, <2>2 DEF MarkApplied, Pipeline, Task
  <2>4. b \in BOOLEAN
    BY <2>2 DEF Task
  <2>6. Core(q, retired) /\ Busy(q)
    <3> HIDE DEF b
    <3> QED BY <1>0, <2>2, <2>4, StageCore
  <2>5. Ok(MarkApplied(pipe, id), {})
    BY <1>e, <2>3, <2>6
  <2> QED BY <1>c, <2>1, <2>5
<1>7. ASSUME NEW id, Render(id) PROVE IInv'
  BY <1>7, <1>c, MarkRenderedCore DEF Render
<1>8. ASSUME NEW id, CancelDispatch(id) PROVE IInv'
  BY <1>8, <1>c, CancelPendingDispatchCore DEF CancelDispatch
<1>g. ASSUME NEW h \in Nat, NEW s \in {"idle", "requested", "receiving"},
             NEW i \in SyncIds \cup {None}
      PROVE  Core([pipe EXCEPT !.holds = h, !.sync = s, !.syncId = i], retired)
  BY <1>0, GateCore
<1>9. ASSUME NEW r \in SyncIds, RequestStateSync(r) PROVE IInv'
  <2> DEFINE q == [pipe EXCEPT !.holds = pipe.holds, !.sync = "requested", !.syncId = r]
  <2>1. RequestSync(pipe, r) = q /\ q.sync = "requested"
    BY <1>0, <1>9 DEF RequestStateSync, RequestSync, Pipeline
  <2>2. Core(q, retired)
    BY <1>0, <1>g DEF Pipeline
  <2> QED BY <1>9, <1>c, <1>e, <2>1, <2>2 DEF RequestStateSync, Busy, SyncIdle
<1>10. ASSUME NEW r \in SyncIds, RecordBegin(r) PROVE IInv'
  <2> DEFINE q == [pipe EXCEPT !.holds = pipe.holds, !.sync = "receiving", !.syncId = pipe.syncId]
  <2>1. SyncBegin(pipe, r) = q \/ SyncBegin(pipe, r) = pipe
    BY <1>0 DEF SyncBegin, Pipeline
  <2>2. Core(q, retired) /\ q.sync = "receiving"
    BY <1>0, <1>g DEF Pipeline
  <2>3. Ok(SyncBegin(pipe, r), {})
    BY <1>0, <1>e, <2>1, <2>2 DEF Busy, SyncIdle
  <2> QED BY <1>10, <1>c, <2>3 DEF RecordBegin
<1>11. Ok(CloseSync(pipe), {})
  <2> DEFINE q == [pipe EXCEPT !.holds = pipe.holds, !.sync = "idle", !.syncId = None]
  <2>1. CloseSync(pipe) = MaybeDispatchNext(q)
    BY <1>0 DEF CloseSync, Pipeline
  <2>2. Core(q, retired)
    BY <1>0, <1>g DEF Pipeline
  <2> HIDE DEF q
  <2> QED BY <1>e, <2>1, <2>2, DispatchCore
<1>12. ASSUME NEW r \in SyncIds, RecordEnd(r) \/ AbortStateSync(r) PROVE IInv'
  <2>1. Ok(pipe, {})
    BY <1>0, <1>e
  <2> QED BY <1>12, <1>c, <1>11, <2>1 DEF RecordEnd, AbortStateSync, SyncEnd, AbortSync
<1>13. ASSUME Consume PROVE IInv'
  <2> DEFINE q == ConsumeCommands(pipe)
  <2>1. /\ q \in Pipeline
        /\ q.next = pipe.next /\ q.queue = pipe.queue /\ q.active = pipe.active
        /\ q.pending = {} /\ q.holds = pipe.holds /\ q.sync = pipe.sync
        /\ q.continuousKeys = pipe.continuousKeys /\ q.continuousTask = pipe.continuousTask
    BY <1>0 DEF ConsumeCommands, Pipeline
  <2>2. Ok(q, {})
    BY <1>0, <1>e, <2>1
    DEF Core, Busy, Accounted, InQueue, IsActive, Disjoint, Commands, OnePerKey, SyncIdle
  <2> QED BY <1>13, <1>c, <2>2 DEF Consume
<1>14. ASSUME Hold PROVE IInv'
  <2> DEFINE h == pipe.holds + 1
             q == [pipe EXCEPT !.holds = h, !.sync = pipe.sync, !.syncId = pipe.syncId]
  <2>h. h \in Nat
    BY <1>0 DEF Pipeline
  <2>1. HoldDispatch(pipe) = q /\ q.holds = pipe.holds + 1 /\ pipe.holds \in Nat
    BY <1>0 DEF HoldDispatch, Pipeline
  <2>2. Core(q, retired)
    <3> HIDE DEF h
    <3> QED BY <1>0, <1>g, <2>h DEF Pipeline
  <2>3. Busy(q)
    BY <2>1 DEF Busy
  <2> QED BY <1>14, <1>c, <1>e, <2>1, <2>2, <2>3 DEF Hold
<1>15. ASSUME Release PROVE IInv'
  <2> DEFINE h == pipe.holds - 1
             q == [pipe EXCEPT !.holds = h, !.sync = pipe.sync, !.syncId = pipe.syncId]
  <2>h. h \in Nat
    BY <1>0, <1>15 DEF Pipeline, Release
  <2>1. ReleaseHold(pipe) = DispatchIfIdle(q)
    BY <1>0 DEF ReleaseHold, Pipeline
  <2>2. Core(q, retired)
    <3> HIDE DEF h
    <3> QED BY <1>0, <1>g, <2>h DEF Pipeline
  <2> HIDE DEF q
  <2> QED BY <1>15, <1>c, <1>e, <2>1, <2>2, DispatchIfIdleCore DEF Release
<1>16. CASE UNCHANGED vars
  BY <1>16 DEF vars
<1>17. ASSUME QueueStep PROVE IInv'
  <2>1. \A k \in Keys : {k} \in SUBSET Keys
    OBVIOUS
  <2> QED BY <1>17, <2>1, <1>1, <1>2, <1>3, <1>4 DEF QueueStep
<1>18. ASSUME TaskStep PROVE IInv'
  BY <1>18, <1>5, <1>6, <1>7, <1>8 DEF TaskStep
<1>19. ASSUME SyncStep PROVE IInv'
  BY <1>19, <1>9, <1>10, <1>12 DEF SyncStep
<1> QED BY <1>13, <1>14, <1>15, <1>16, <1>17, <1>18, <1>19 DEF Next

LEMMA Invariance == Spec => []IInv
BY InitIInv, NextIInv, PTL DEF Spec

-----------------------------------------------------------------------------
(* The theorems.                                                           *)

\* The pipeline record and the history have their types in every reachable state.
THEOREM TypeCorrect == Spec => []TypeOK
<1>1. IInv => TypeOK
  BY DEF IInv, Core, TypeOK
<1> QED BY <1>1, Invariance, PTL

\* The pipeline never idles with work (WorkConserving): every method of
\* PipelineRuntime.ts that can make room for a dispatch attempts one.
THEOREM NeverIdleWithWork == Spec => []WorkConserving
<1>1. IInv => WorkConserving
  BY DEF IInv, Busy, WorkConserving
<1> QED BY <1>1, Invariance, PTL

\* A dispatch command belongs to the active task (CommandIsActive), so what a host
\* sends after consumeCommands is what the pipeline waits for.
THEOREM CommandsAreActive == Spec => []CommandIsActive
<1>1. IInv => CommandIsActive
  BY DEF IInv, Core, Commands, CommandIsActive
<1> QED BY <1>1, Invariance, PTL

\* No task is lost, doubled or revived (NoTaskLost), whatever the client calls.
THEOREM TasksAreAccounted == Spec => []NoTaskLost
<1>1. IInv => NoTaskLost
  <2> SUFFICES ASSUME IInv PROVE NoTaskLost
    OBVIOUS
  <2>1. pipe \in Pipeline /\ retired \subseteq TaskId /\ Accounted(pipe, retired) /\ Disjoint(pipe, retired)
    BY DEF IInv, Core
  <2>2. \A id : id \in LiveIds(pipe) <=> InQueue(pipe, id) \/ IsActive(pipe, id)
    BY DEF LiveIds, InQueue, IsActive
  <2>3. LiveIds(pipe) \subseteq TaskId
    BY <2>1, <2>2 DEF InQueue, IsActive, Pipeline, Task
  <2>4. pipe.next \in TaskId
    BY <2>1 DEF Pipeline
  <2>5. 1 .. (pipe.next - 1) = LiveIds(pipe) \cup retired
    <3>1. \A id \in TaskId : id \in 1 .. (pipe.next - 1) <=> id < pipe.next
      BY <2>4 DEF TaskId
    <3>2. 1 .. (pipe.next - 1) \subseteq TaskId
      BY <2>4 DEF TaskId
    <3> QED BY <2>1, <2>2, <2>3, <3>1, <3>2 DEF Accounted
  <2>6. LiveIds(pipe) \cap retired = {}
    BY <2>1, <2>2 DEF Disjoint, InQueue, IsActive
  <2> QED BY <2>1, <2>5, <2>6 DEF NoTaskLost, Disjoint, IsActive
<1> QED BY <1>1, Invariance, PTL

\* A queued continuous task is the one its key's deduplication entry names
\* (OneContinuousPerKey): cancel and restart never leave two of a key.
THEOREM ContinuousTasksAreUnique == Spec => []OneContinuousPerKey
<1>1. IInv => OneContinuousPerKey
  BY DEF IInv, Core, OnePerKey, OneContinuousPerKey
<1> QED BY <1>1, Invariance, PTL

\* A task becomes active only at an idle sync boundary and with no hold taken
\* (DispatchOnlyAtBoundary).
THEOREM DispatchIsGated == Spec => DispatchOnlyAtBoundary
<1> DEFINE Step ==
      pipe'.active # None /\ (pipe.active = None \/ pipe.active.id # pipe'.active.id)
        => pipe'.sync = "idle" /\ pipe'.holds = 0
<1>1. ASSUME IInv, [Next]_vars PROVE Step
  <2> USE <1>1
  <2>0. pipe \in Pipeline /\ Core(pipe, retired) /\ Busy(pipe)
    BY DEF IInv, Core
  <2>g. Gated(pipe, pipe') => Step
    BY DEF Gated
  <2>1. CASE QueueStep
    <3>1. \A K \in SUBSET Keys : CancelKeys(pipe, K).active = pipe.active
      BY <2>0, CancelKeysCore
    <3>2. ResetPipeline(pipe).active = None
      BY <2>0 DEF ResetPipeline, Pipeline
    <3>3. \A k \in Keys : {k} \in SUBSET Keys
      OBVIOUS
    <3>4. Gated(pipe, pipe')
      BY <2>0, <2>1, <3>1, <3>2, <3>3, EnqueueCore, EnqueueFrontCore
      DEF QueueStep, EnqueueTask, EnqueueFrontTask, Cancel, Reset, Call, Gated
    <3> QED BY <2>g, <3>4
  <2>2. ASSUME NEW id, NEW c \in BOOLEAN, Complete(id, c) PROVE Step
    <3>1. pipe.active \in Task /\ pipe.active # None
      BY <2>0, <2>2 DEF Complete, CanComplete, IsActive, Pipeline
    <3>2. pipe' = [pipe EXCEPT !.active = [@ EXCEPT !.stage = "completed", !.continues = c]]
      BY <2>2 DEF Complete, Call, CompleteTask
    <3> QED BY <2>0, <3>1, <3>2 DEF Pipeline, Task
  <2>3. ASSUME NEW id, Apply(id) PROVE Step
    <3>1. pipe.active \in Task /\ pipe.active # None
      BY <2>0, <2>3 DEF Apply, CanRender, IsActive, Pipeline
    <3>2. pipe' = [pipe EXCEPT !.active = [@ EXCEPT !.stage = "applied"]]
      BY <2>3 DEF Apply, Call, MarkApplied
    <3> QED BY <2>0, <3>1, <3>2 DEF Pipeline, Task
  <2>4. ASSUME NEW id, Render(id) \/ CancelDispatch(id) PROVE Step
    <3>1. Gated(pipe, pipe')
      BY <2>0, <2>4, MarkRenderedCore, CancelPendingDispatchCore DEF Render, CancelDispatch, Call
    <3> QED BY <2>g, <3>1
  <2>5. CASE TaskStep
    BY <2>5, <2>2, <2>3, <2>4 DEF TaskStep
  <2>6. CASE SyncStep
    <3>1. \A r \in SyncIds : /\ RequestSync(pipe, r).active = pipe.active
                             /\ SyncBegin(pipe, r).active = pipe.active
      BY <2>0 DEF RequestSync, SyncBegin, Pipeline
    <3>2. Gated(pipe, CloseSync(pipe))
      <4> DEFINE q == [pipe EXCEPT !.holds = pipe.holds, !.sync = "idle", !.syncId = None]
      <4>1. CloseSync(pipe) = MaybeDispatchNext(q) /\ q.active = pipe.active /\ q.sync = "idle"
        BY <2>0 DEF CloseSync, Pipeline
      <4>2. Core(q, retired)
        BY <2>0, GateCore DEF Pipeline
      <4> HIDE DEF q
      <4> QED BY <4>1, <4>2, DispatchCore DEF Gated
    <3>3. Gated(pipe, pipe')
      BY <2>6, <3>1, <3>2
      DEF SyncStep, RequestStateSync, RecordBegin, RecordEnd, AbortStateSync,
          SyncEnd, AbortSync, Call, Gated
    <3> QED BY <2>g, <3>3
  <2>7. CASE Consume \/ Hold \/ UNCHANGED vars
    <3>1. pipe'.active = pipe.active
      BY <2>0, <2>7 DEF Consume, ConsumeCommands, Hold, HoldDispatch, Call, Pipeline, vars
    <3> QED BY <3>1
  <2>8. CASE Release
    <3> DEFINE h == pipe.holds - 1
               q == [pipe EXCEPT !.holds = h, !.sync = pipe.sync, !.syncId = pipe.syncId]
    <3>h. h \in Nat
      BY <2>0, <2>8 DEF Release, Pipeline
    <3>q. q = [pipe EXCEPT !.holds = @ - 1] /\ q.active = pipe.active
      BY <2>0 DEF Pipeline
    <3>1. h \in Nat /\ ReleaseHold(pipe) = DispatchIfIdle(q) /\ q.active = pipe.active
      BY <3>h, <3>q DEF ReleaseHold
    <3>2. Core(q, retired)
      <4>1. pipe.sync \in {"idle", "requested", "receiving"} /\ pipe.syncId \in SyncIds \cup {None}
        BY <2>0 DEF Pipeline
      <4> HIDE DEF h
      <4> QED BY <2>0, <3>1, <4>1, GateCore
    <3>3. Gated(pipe, pipe')
      <4>1. Gated(q, DispatchIfIdle(q))
        <5> HIDE DEF q
        <5> QED BY <3>2, DispatchIfIdleCore
      <4>2. pipe' = DispatchIfIdle(q)
        BY <2>8, <3>1 DEF Release, Call
      <4> HIDE DEF q
      <4> QED BY <3>1, <4>1, <4>2 DEF Gated
    <3> QED BY <2>g, <3>3
  <2> QED BY <2>1, <2>5, <2>6, <2>7, <2>8 DEF Next
<1>2. IInv /\ [Next]_vars => [Step]_vars
  BY <1>1
<1> QED BY <1>2, Invariance, PTL DEF Spec, DispatchOnlyAtBoundary

\* No call puts a task before one that already waits, the one-shot lifecycle work of
\* enqueueFront aside (OnlyCleanupOvertakes): a queued task gets its turn after finitely
\* many others, whatever re-enqueues itself.
THEOREM NobodyStarves == Spec => OnlyCleanupOvertakes
<1>1. ASSUME IInv, [Next]_vars PROVE InOrder(pipe, pipe')
  <2> USE <1>1
  <2>0. pipe \in Pipeline /\ Core(pipe, retired)
    BY DEF IInv, Core
  <2>1. ASSUME pipe'.queue \subseteq pipe.queue,
               \/ pipe'.active = None
               \/ pipe'.active = pipe.active
               \/ pipe.active # None /\ Alike(pipe'.active, pipe.active)
        PROVE  InOrder(pipe, pipe')
    BY <2>1, FewerInOrder DEF Alike
  <2>2. CASE QueueStep
    <3>1. ASSUME NEW k \in Keys, NEW c \in BOOLEAN, EnqueueTask(k, c) PROVE InOrder(pipe, pipe')
      BY <2>0, <3>1, EnqueueInOrder DEF EnqueueTask, Enqueue, Call
    <3>2. ASSUME NEW k \in Keys, EnqueueFrontTask(k) PROVE InOrder(pipe, pipe')
      BY <2>0, <3>2, EnqueueInOrder DEF EnqueueFrontTask, EnqueueFront, Call
    <3>3. ASSUME NEW K, Cancel(K) PROVE InOrder(pipe, pipe')
      BY <2>0, <2>1, <3>3 DEF Cancel, CancelKeys, Call, Pipeline
    <3>4. ASSUME Reset PROVE InOrder(pipe, pipe')
      BY <2>0, <2>1, <3>4 DEF Reset, ResetPipeline, Call, Pipeline
    <3> QED BY <2>2, <3>1, <3>2, <3>3, <3>4 DEF QueueStep
  <2>3. ASSUME NEW id, NEW c \in BOOLEAN, Complete(id, c) \/ Apply(id) PROVE InOrder(pipe, pipe')
    <3>1. pipe.active \in Task /\ pipe.active # None
      BY <2>0, <2>3 DEF Complete, Apply, CanComplete, CanRender, IsActive, Pipeline
    <3>2. \E a \in Task : Alike(a, pipe.active) /\ pipe' = [pipe EXCEPT !.active = a]
      <4>1. CASE Complete(id, c)
        <5> DEFINE a == [pipe.active EXCEPT !.stage = "completed", !.continues = c]
        <5>1. pipe' = [pipe EXCEPT !.active = a]
          BY <4>1 DEF Complete, Call, CompleteTask
        <5>2. a \in Task /\ Alike(a, pipe.active)
          BY <3>1 DEF Task, Alike
        <5> QED BY <5>1, <5>2
      <4>2. CASE Apply(id)
        <5> DEFINE a == [pipe.active EXCEPT !.stage = "applied"]
        <5>1. pipe' = [pipe EXCEPT !.active = a]
          BY <4>2 DEF Apply, Call, MarkApplied
        <5>2. a \in Task /\ Alike(a, pipe.active)
          BY <3>1 DEF Task, Alike
        <5> QED BY <5>1, <5>2
      <4> QED BY <2>3, <4>1, <4>2
    <3>3. pipe'.queue = pipe.queue /\ Alike(pipe'.active, pipe.active)
      BY <2>0, <3>2 DEF Pipeline
    <3> QED BY <2>1, <3>1, <3>3
  <2>4. ASSUME NEW id, Render(id) PROVE InOrder(pipe, pipe')
    <3>1. CanRender(pipe, id) /\ pipe' = MarkRendered(pipe, id)
      BY <2>4 DEF Render, Call
    <3>2. PICK r : /\ Core(r, retired \cup {id}) /\ r.queue = pipe.queue /\ r.active = None
                   /\ \/ pipe' = DispatchIfIdle(r)
                      \/ \E key \in Keys : pipe' = Enqueue(r, key, TRUE)
      BY <2>0, <3>1, MarkRenderedForm
    <3> QED BY <3>2, FreeInOrder
  <2>5. ASSUME NEW id, CancelDispatch(id) PROVE InOrder(pipe, pipe')
    <3>1. CanComplete(pipe, id) /\ pipe' = CancelPendingDispatch(pipe, id)
      BY <2>5 DEF CancelDispatch, Call
    <3>2. PICK r : /\ Core(r, retired \cup {id}) /\ r.queue = pipe.queue /\ r.active = None
                   /\ pipe' = DispatchIfIdle(r)
      BY <2>0, <3>1, CancelPendingForm
    <3> QED BY <3>2, FreeInOrder
  <2>6. CASE TaskStep
    BY <2>3, <2>4, <2>5, <2>6 DEF TaskStep
  <2>7. ASSUME NEW p, NEW R, Core(p, R), p.queue = pipe.queue, p.active = pipe.active
        PROVE  InOrder(pipe, MaybeDispatchNext(p)) /\ InOrder(pipe, DispatchIfIdle(p))
    <3>1. \A t : Before(p, t) = Before(pipe, t)
      BY <2>7 DEF Before
    <3>2. \A q : InOrder(p, q) => InOrder(pipe, q)
      BY <2>7, <3>1 DEF InOrder
    <3>3. InOrder(p, MaybeDispatchNext(p)) /\ InOrder(p, DispatchIfIdle(p))
      BY <2>7, DispatchInOrder
    <3> QED BY <3>2, <3>3
  <2>8. CASE SyncStep
    <3>1. ASSUME NEW r \in SyncIds, RequestStateSync(r) \/ RecordBegin(r) PROVE InOrder(pipe, pipe')
      BY <2>0, <2>1, <3>1 DEF RequestStateSync, RequestSync, RecordBegin, SyncBegin, Call, Pipeline
    <3>2. InOrder(pipe, CloseSync(pipe))
      <4> DEFINE q == [pipe EXCEPT !.holds = pipe.holds, !.sync = "idle", !.syncId = None]
      <4>1. CloseSync(pipe) = MaybeDispatchNext(q) /\ q.active = pipe.active /\ q.queue = pipe.queue
        BY <2>0 DEF CloseSync, Pipeline
      <4>2. Core(q, retired)
        BY <2>0, GateCore DEF Pipeline
      <4> HIDE DEF q
      <4> QED BY <2>7, <4>1, <4>2
    <3>3. InOrder(pipe, pipe)
      BY FewerInOrder DEF Alike
    <3>4. ASSUME NEW r \in SyncIds, RecordEnd(r) \/ AbortStateSync(r) PROVE InOrder(pipe, pipe')
      BY <3>2, <3>3, <3>4 DEF RecordEnd, AbortStateSync, SyncEnd, AbortSync, Call
    <3> QED BY <2>8, <3>1, <3>4 DEF SyncStep
  <2>9. CASE Consume \/ Hold \/ UNCHANGED vars
    <3>1. pipe'.active = pipe.active /\ pipe'.queue = pipe.queue
      BY <2>0, <2>9 DEF Consume, ConsumeCommands, Hold, HoldDispatch, Call, Pipeline, vars
    <3> QED BY <2>1, <3>1
  <2>10. CASE Release
    <3> DEFINE h == pipe.holds - 1
               q == [pipe EXCEPT !.holds = h, !.sync = pipe.sync, !.syncId = pipe.syncId]
    <3>1. h \in Nat
      BY <2>0, <2>10 DEF Release, Pipeline
    <3>2. q = [pipe EXCEPT !.holds = @ - 1] /\ q.active = pipe.active /\ q.queue = pipe.queue
      BY <2>0 DEF Pipeline
    <3>3. pipe' = DispatchIfIdle(q)
      BY <2>10, <3>2 DEF Release, ReleaseHold, Call
    <3>4. pipe.sync \in {"idle", "requested", "receiving"} /\ pipe.syncId \in SyncIds \cup {None}
      BY <2>0 DEF Pipeline
    <3>5. Core(q, retired)
      <4> HIDE DEF h
      <4> QED BY <2>0, <3>1, <3>4, GateCore
    <3> HIDE DEF q
    <3> QED BY <2>7, <3>2, <3>3, <3>5
  <2> QED BY <2>2, <2>6, <2>8, <2>9, <2>10 DEF Next
<1> DEFINE Step ==
      \A t \in pipe.queue \cap pipe'.queue :
        \A u \in Before(pipe', t) :
          \/ \E w \in Before(pipe, t) : w.id = u.id
          \/ u.front /\ ~u.continuous
<1>2. IInv /\ [Next]_vars => [Step]_vars
  BY <1>1 DEF InOrder, Alike
<1> QED BY <1>2, Invariance, PTL DEF Spec, OnlyCleanupOvertakes
=============================================================================
