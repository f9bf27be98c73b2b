---------------------------- MODULE RunController ----------------------------
(***************************************************************************)
(* The renderer-driven execution controller of                             *)
(* packages/core/src/runtime/RunController.ts: runs, one-shot actions, the *)
(* lifecycle stop hook, pause and step, the shared action-timeout timer,   *)
(* the host render barrier, dispatch holds, state-sync gating, send        *)
(* failures and the reset on disconnect.                                   *)
(*                                                                         *)
(* Every method of the class is synchronous, so every action below is one  *)
(* whole call.  What happens between calls is the environment: a result,   *)
(* a timer, the promise of a render barrier, the user, the session.        *)
(*                                                                         *)
(* The controller's state is split in variables; the private methods are   *)
(* operators from one control record (Ctl) to the next, so that a public   *)
(* method composes them in the order of the code.  "threw" is set when a   *)
(* send failed: the exception skips what the callers had left to do.       *)
(***************************************************************************)
EXTENDS TaskQueue

CONSTANTS
  StopKey,       \* the reserved action 'stop', target of the lifecycle hook
  ResetKey,      \* the reserved action 'reset', which brackets a chart reset
  RunKeys,       \* actions that a run repeats
  OneShotKeys,   \* actions requested once
  SendOutcomes,  \* what transport.send can do: "sent", "invalid", "failed"
  PublicExtras,  \* public entry points that no host in the repository calls:
                 \* "continuous-action", "cancel-continuous"
  MaxTasks,      \* bound: tasks ever created
  MaxRuns,       \* bound: runs ever started
  MaxHolds,      \* bound: action-boundary holds open at once
  Quotas         \* maxSteps of bounded runs; 0 stands for a manual run

ASSUME KeysAssumption ==
  /\ RunKeys \subseteq Keys /\ OneShotKeys \subseteq Keys
  /\ StopKey \in Keys /\ ResetKey \in Keys /\ StopKey # ResetKey
ASSUME OutcomesAssumption ==
  "sent" \in SendOutcomes /\ SendOutcomes \subseteq {"sent", "invalid", "failed"}
ASSUME BoundsAssumption ==
  MaxTasks \in Nat /\ MaxRuns \in Nat /\ MaxHolds \in Nat /\ Quotas \subseteq Nat

VARIABLES
  pipe,       \* the PipelineRuntime
  run,        \* activeRun; NoRun until the first start
  owner,      \* taskOwners: the run and source a task is accounted to
  timer,      \* the shared action-timeout timer
  deadline,   \* is the wall-time timer of the run armed?
  lifecycle,  \* Scenario.beginResetLifecycle without its end
  sent,       \* environment: tasks sent over this connection; the simulator
              \* may answer them, late or more than once
  barriers,   \* environment: tasks whose render barrier promise is pending
  hookDeclared, \* environment: does the scenario declare a callable stop action?
  hooked      \* history: runs whose stop hook was sent

vars == <<pipe, run, owner, timer, deadline, lifecycle, sent, barriers,
          hookDeclared, hooked>>

TaskIds == 1 .. MaxTasks

Reasons == {"stopped", "paused", "wall-time", "condition", "max-steps", "simulator",
            "action-error", "condition-error", "render-error", "action-timeout",
            "validation-error", "disconnected"}

\* finish() does not invoke the stop hook for these.
NoHookReasons == {"disconnected", "validation-error", "action-timeout"}

Run == [id: 0 .. MaxRuns, key: Keys, quota: Nat, stopWhen: BOOLEAN,
        state: {"running", "paused", "stopped"}, dispatched: Nat, completed: Nat,
        reasons: SUBSET Reasons, stateKnown: BOOLEAN, settled: BOOLEAN,
        pauseRequested: BOOLEAN]

NewRun(n, key, quota, stopWhen) ==
  [id |-> n, key |-> key, quota |-> quota, stopWhen |-> stopWhen, state |-> "running",
   dispatched |-> 0, completed |-> 0, reasons |-> {}, stateKnown |-> TRUE,
   settled |-> FALSE, pauseRequested |-> FALSE]

\* No run yet: every guard of the code treats null like a settled run.
NoRun == [NewRun(0, StopKey, 0, FALSE) EXCEPT !.state = "stopped", !.settled = TRUE]

Owner == [run: 0 .. MaxRuns, source: {"action", "lifecycle"}]

ASSUME OwnerAssumption == None \notin Owner

\* task: whose deadline counts.  armed: a host timer is set.  early: it was set
\* for an earlier task and fires before that deadline.
NoTimer == [armed |-> FALSE, task |-> None, early |-> FALSE]
Timer   == [armed: BOOLEAN, task: TaskIds \cup {None}, early: BOOLEAN]

Init ==
  /\ pipe = EmptyPipeline
  /\ run = NoRun
  /\ owner = [i \in TaskIds |-> None]
  /\ timer = NoTimer
  /\ deadline = FALSE
  /\ lifecycle = FALSE
  /\ sent = {}
  /\ barriers = {}
  /\ hookDeclared \in BOOLEAN
  /\ hooked = {}

-----------------------------------------------------------------------------
(* The control record and the private methods.                             *)

Ctl == [pipe |-> pipe, run |-> run, owner |-> owner, timer |-> timer,
        deadline |-> deadline, lifecycle |-> lifecycle, sent |-> sent,
        hooked |-> hooked, threw |-> FALSE]

\* The outcome of one public call.
Becomes(c) ==
  /\ pipe' = c.pipe /\ run' = c.run /\ owner' = c.owner /\ timer' = c.timer
  /\ deadline' = c.deadline /\ lifecycle' = c.lifecycle /\ sent' = c.sent
  /\ hooked' = c.hooked /\ UNCHANGED hookDeclared

Running(c) == c.run.state = "running"

OwnedBy(c, id, source) == c.owner[id] = [run |-> c.run.id, source |-> source]
OwnedByRun(c, id) == c.owner[id] # None /\ c.owner[id].run = c.run.id

\* Mutant: cancelled tasks keep their owner.
CancelTasksOnly(c, K) == [c EXCEPT !.pipe = CancelKeys(@, K)]

\* runtime.cancel and discardInvocations.
CancelTasks(c, K) ==
  LET gone == CancelledIds(c.pipe, K) IN
  [c EXCEPT !.pipe = CancelKeys(@, K),
            !.owner = [i \in TaskIds |-> IF i \in gone THEN None ELSE @[i]]]

\* Mutant: a reason that arrives late is added to a settled run.
AddReasonAlways(c, reason) == [c EXCEPT !.run.reasons = @ \cup {reason}]

AddReason(c, reason) ==
  IF c.run.settled THEN c ELSE [c EXCEPT !.run.reasons = @ \cup {reason}]

\* Mutant: the timer of a later action is dropped.
MaybeSettleAndClear(c) ==
  IF Running(c) \/ c.run.settled \/ \E i \in TaskIds : OwnedByRun(c, i)
  THEN c
  ELSE [c EXCEPT !.run.settled = TRUE, !.timer = NoTimer]

\* A stopped run settles once it owns no task.
MaybeSettle(c) ==
  IF \/ Running(c) \/ c.run.settled
     \/ \E i \in TaskIds : OwnedByRun(c, i)
  THEN c
  ELSE [c EXCEPT !.run.settled = TRUE,
                 !.timer = IF c.pipe.active = None THEN NoTimer ELSE @]

CanInvokeStopHook(c) ==
  c.run.key # StopKey /\ StopKey \notin c.pipe.continuousKeys /\ hookDeclared

\* finish() of a running run, up to its flush.
Halt(c, reason) ==
  LET h == CancelTasks(
             [c EXCEPT !.deadline = FALSE,
                       !.run.state = IF reason = "paused" THEN "paused" ELSE "stopped",
                       !.run.reasons = @ \cup {reason}],
             {c.run.key})
  IN  IF reason \notin NoHookReasons /\ CanInvokeStopHook(h)
      THEN [h EXCEPT !.pipe = EnqueueFront(@, StopKey),
                     !.owner[h.pipe.next] = [run |-> c.run.id, source |-> "lifecycle"]]
      ELSE h

-----------------------------------------------------------------------------
(* flushCommands.                                                          *)

ScheduleTimer(t, id) == [armed |-> TRUE, task |-> id, early |-> t.armed]

\* Take the dispatch command of the active task and account it to its run.
Claim(c) ==
  LET t == c.pipe.active
      hook == OwnedBy(c, t.id, "lifecycle")
      mine == ~c.run.settled /\ ~hook /\ Running(c) /\ t.key = c.run.key
  IN  [c EXCEPT !.pipe = ConsumeCommands(@),
                !.owner[t.id] = IF mine THEN [run |-> c.run.id, source |-> "action"] ELSE @,
                !.run.dispatched = IF mine THEN @ + 1 ELSE @,
                !.lifecycle = @ \/ t.key = ResetKey]

Sent(c) ==
  LET id == c.pipe.active.id IN
  [c EXCEPT !.sent = @ \cup {id},
            !.hooked = IF OwnedBy(c, id, "lifecycle") THEN @ \cup {c.run.id} ELSE @,
            !.timer = ScheduleTimer(@, id)]

\* Mutants: a message that failed validation stays counted; an unsent reset keeps the
\* bracket open.
CountedAfter(c, t, outcome) == c.run.dispatched
BracketAfter(c, t) == c.lifecycle

\* A message that failed validation was certainly not sent.
DispatchedAfter(c, t, outcome) ==
  IF outcome = "invalid" /\ c.owner[t.id] # None /\ c.owner[t.id].source = "action"
  THEN c.run.dispatched - 1 ELSE c.run.dispatched

ResetOpenAfter(c, t) == c.lifecycle /\ t.key # ResetKey

\* The catch block: the action never reached the simulator.
Unsend(c, outcome) ==
  LET t == c.pipe.active IN
  [c EXCEPT !.pipe = CancelPendingDispatch(@, t.id),
            !.owner[t.id] = None,
            !.lifecycle = ResetOpenAfter(c, t),
            !.run.dispatched = DispatchedAfter(c, t, outcome),
            !.run.stateKnown = @ /\ outcome # "failed",
            !.threw = TRUE]

FailureReason(outcome) ==
  IF outcome = "invalid" THEN "validation-error" ELSE "disconnected"

\* finish() after a failed send.  It flushes again when the run was running and
\* the cancelled dispatch made room for another task; "again" is that send.
AfterFailure(c, outcome, again) ==
  IF ~Running(c) THEN AddReason(c, FailureReason(outcome))
  ELSE LET h == Halt(c, FailureReason(outcome)) IN
       IF h.pipe.pending = {} THEN MaybeSettle(h)
       ELSE IF again = "sent" THEN MaybeSettle(Sent(Claim(h)))
       ELSE AddReason(Unsend(Claim(h), again), FailureReason(again))

\* At most one command is pending (CommandIsActive), that of the active task.
\* o gives the outcomes of the first send and of the nested one.
Flush(c, o) ==
  IF c.pipe.pending = {} THEN c
  ELSE IF o.first = "sent" THEN Sent(Claim(c))
  ELSE AfterFailure(Unsend(Claim(c), o.first), o.first, o.again)

\* Mutant: a run that is stopping can be finished again.
FinishAgain(c, reason, o) ==
  IF c.run.settled THEN AddReason(c, reason)
  ELSE LET f == Flush(Halt(c, reason), o)
       IN  IF f.threw THEN f ELSE MaybeSettle(f)

Finish(c, reason, o) ==
  IF c.run.settled \/ ~Running(c) THEN AddReason(c, reason)
  ELSE LET f == Flush(Halt(c, reason), o)
       IN  IF f.threw THEN f ELSE MaybeSettle(f)

SendPairs == [first: SendOutcomes, again: SendOutcomes]

-----------------------------------------------------------------------------
(* The user and the hosts.                                                 *)

\* Bound: a call creates at most two tasks, a stop hook and its own.
Room == pipe.next < MaxTasks

Conditions == {"false", "true", "error"}

\* A run whose condition already holds finishes without dispatching.
Start(key, quota, stopWhen, wallTime, value, o) ==
  LET c == [Ctl EXCEPT !.run = NewRun(run.id + 1, key, quota, stopWhen)]
      q == CancelTasks([c EXCEPT !.deadline = wallTime], Keys)
  IN  /\ Room /\ run.id < MaxRuns
      /\ pipe.active = None /\ run.settled
      /\ stopWhen => quota # 0
      /\ ~stopWhen => value = "false"
      /\ Becomes(IF value # "false"
                 THEN Finish(c, IF value = "error" THEN "condition-error" ELSE "condition", o)
                 ELSE Flush([q EXCEPT !.pipe = Enqueue(@, key, TRUE)], o))
      /\ UNCHANGED barriers

RequestAction(key, continuous, o) ==
  LET c == IF continuous THEN Ctl ELSE Finish(CancelTasks(Ctl, Keys), "stopped", o)
  IN  /\ Room
      /\ Becomes(IF c.threw THEN c
                 ELSE Flush([c EXCEPT !.pipe = Enqueue(@, key, continuous)], o))
      /\ UNCHANGED barriers

\* Mutant: a pause leaves the continuous task to requeue itself.
PauseRunOnly(c, o) ==
  LET p == [c EXCEPT !.run.pauseRequested = TRUE]
  IN  IF ~Running(c) THEN c
      ELSE IF p.pipe.active # None /\ p.pipe.active.key = c.run.key THEN p
      ELSE Finish(p, "paused", o)

PauseRun(c, o) ==
  LET p == CancelTasks([c EXCEPT !.run.pauseRequested = TRUE], {c.run.key})
  IN  IF ~Running(c) THEN c
      ELSE IF p.pipe.active # None /\ p.pipe.active.key = c.run.key THEN p
      ELSE Finish(p, "paused", o)

Pause(o) ==
  Room /\ run.state = "running" /\ Becomes(PauseRun(Ctl, o)) /\ UNCHANGED barriers

\* requestStep and requestReset.
RequestOneShot(key, o) ==
  LET c == PauseRun(Ctl, o)
  IN  /\ Room
      /\ Becomes(IF c.threw THEN c
                 ELSE Flush([c EXCEPT !.pipe = Enqueue(@, key, FALSE)], o))
      /\ UNCHANGED barriers

Stop(o) ==
  Room /\ ~run.settled /\ Becomes(Finish(Ctl, "stopped", o)) /\ UNCHANGED barriers

WallTime(o) ==
  Room /\ deadline /\ Becomes(Finish(Ctl, "wall-time", o)) /\ UNCHANGED barriers

CancelContinuous(K) == Becomes(CancelTasks(Ctl, K)) /\ UNCHANGED barriers

-----------------------------------------------------------------------------
(* The session: holds, state-sync boundaries, disconnects.                 *)

PipeCall(p, o) == Becomes(Flush([Ctl EXCEPT !.pipe = p], o)) /\ UNCHANGED barriers

HoldActionBoundary ==
  /\ pipe.holds < MaxHolds
  /\ Becomes([Ctl EXCEPT !.pipe = HoldDispatch(@)]) /\ UNCHANGED barriers

\* Mutant: a release that is not idempotent.
ReleaseBoundaryAgain(o) == PipeCall(ReleaseHold(pipe), o)

ReleaseBoundary(o) == pipe.holds > 0 /\ PipeCall(ReleaseHold(pipe), o)

RequestStateSync(r) ==
  /\ SyncIdle(pipe)
  /\ Becomes([Ctl EXCEPT !.pipe = RequestSync(@, r)]) /\ UNCHANGED barriers

RecordSyncBegin(r) ==
  Becomes([Ctl EXCEPT !.pipe = SyncBegin(@, r)]) /\ UNCHANGED barriers

RecordSyncEnd(r, o)  == PipeCall(SyncEnd(pipe, r), o)
AbortStateSync(r, o) == PipeCall(AbortSync(pipe, r), o)

\* run.reset: the transport closed or failed (the answers still under way are lost
\* with it), or the session gave the simulator up (they still arrive).
Reset(reason, closed, o) ==
  LET lost == ~run.settled /\ pipe.active # None
      f == Finish([Ctl EXCEPT !.run.stateKnown = @ /\ ~lost], reason, o)
      r == [f EXCEPT !.pipe = ResetPipeline(@),
                     !.owner = [i \in TaskIds |-> None],
                     !.timer = NoTimer, !.lifecycle = FALSE,
                     !.sent = IF closed THEN {} ELSE @]
  IN  Becomes(IF f.threw THEN f ELSE MaybeSettle(r)) /\ UNCHANGED barriers

-----------------------------------------------------------------------------
(* Results, timeouts and the render barrier.                               *)

\* releaseActionTimeout keeps the host timer for the next tick of a run.
ReleaseTimer(c, t) ==
  IF c.timer.task # t.id THEN c.timer
  ELSE IF Running(c) /\ c.run.key = t.key
       THEN [c.timer EXCEPT !.task = None, !.early = FALSE]
       ELSE NoTimer

\* completeTask, the end of a reset's lifecycle, markTaskApplied.
CompleteActive(c, continues) ==
  LET t == c.pipe.active IN
  [c EXCEPT !.pipe = MarkApplied(CompleteTask(@, t.id, continues), t.id),
            !.lifecycle = @ /\ t.key # ResetKey]

QuotaReached(r) == r.quota # 0 /\ r.completed >= r.quota

\* The reasons a tick of the run gives to finish it.  The first one in the order
\* of the code decides between paused and stopped.
TickReasons(r, result, value) ==
  {x \in {"condition-error", "action-error", "paused", "condition", "max-steps", "simulator"} :
     \/ x = "condition-error" /\ value = "error"
     \/ x = "action-error" /\ result = "error"
     \/ x = "paused" /\ r.pauseRequested
     \/ x = "condition" /\ value = "true"
     \/ x = "max-steps" /\ QuotaReached(r)
     \/ x = "simulator" /\ result = "done"}

FirstReason(R) ==
  IF R \cap {"condition-error", "action-error"} # {}
  THEN CHOOSE x \in R \cap {"condition-error", "action-error"} : TRUE
  ELSE IF "paused" \in R THEN "paused" ELSE CHOOSE x \in R : TRUE

FinishAll(c, R, o) ==
  IF R = {} \/ c.run.settled THEN c
  ELSE [Finish(c, FirstReason(R), o) EXCEPT !.run.reasons = @ \cup R]

\* result is "ok", "done" (should_continue: false) or "error"; value is what the
\* stop condition evaluates to.
ObserveTick(c, result, value, o) ==
  LET d == [c EXCEPT !.run.completed = @ + 1]
  IN  FinishAll(d, TickReasons(d.run, result, value), o)

Observe(c, result, value, o) ==
  LET t == c.pipe.active
      done == CompleteActive([c EXCEPT !.timer = ReleaseTimer(c, t)], result # "done")
      seen == IF OwnedBy(c, t.id, "action") THEN ObserveTick(done, result, value, o)
              ELSE IF OwnedBy(c, t.id, "lifecycle") /\ result = "error"
              THEN Finish(done, "action-error", o) ELSE done
  IN  IF result = "ok" THEN seen ELSE CancelTasks(seen, {t.key})

EvaluatesCondition(id) ==
  run.state = "running" /\ run.stopWhen /\ OwnedBy(Ctl, id, "action")

\* A late or repeated result, which does not answer the active dispatched task,
\* is ignored.
ActionResult(id, result, value, o) ==
  /\ id \in sent /\ Room
  /\ ~EvaluatesCondition(id) => value = "false"
  /\ IF CanComplete(pipe, id)
     THEN Becomes(Observe(Ctl, result, value, o)) /\ barriers' = barriers \cup {id}
     ELSE UNCHANGED vars

\* Mutant: the barrier resolves without an attempt to settle the run.
ActionRenderedOnly(id, ok, o) ==
  /\ id \in barriers /\ Room
  /\ barriers' = barriers \ {id}
  /\ LET freed == [Ctl EXCEPT !.pipe = MarkRendered(@, id), !.owner[id] = None]
     IN  Becomes(IF CanRender(pipe, id) THEN Flush(freed, o) ELSE Ctl)

\* The barrier promise of a task resolves, or rejects (~ok).  A barrier that
\* outlived its task changes nothing.
ActionRendered(id, ok, o) ==
  /\ id \in barriers /\ Room
  /\ barriers' = barriers \ {id}
  /\ LET failed == IF ok \/ ~OwnedByRun(Ctl, id) THEN Ctl ELSE Finish(Ctl, "render-error", o)
         freed  == [failed EXCEPT !.pipe = MarkRendered(@, id), !.owner[id] = None]
     IN  Becomes(IF CanRender(pipe, id) THEN Flush(MaybeSettle(freed), o) ELSE Ctl)

\* The shared timer fires too early for the current deadline, for nothing, ...
TimerRearms ==
  /\ timer.armed /\ timer.early /\ timer.task # None /\ CanComplete(pipe, timer.task)
  /\ Becomes([Ctl EXCEPT !.timer.early = FALSE]) /\ UNCHANGED barriers

TimerIdles ==
  /\ timer.armed
  /\ timer.task = None \/ ~CanComplete(pipe, timer.task)
  /\ Becomes([Ctl EXCEPT !.timer = NoTimer]) /\ UNCHANGED barriers

\* ... or for an action whose result is overdue.  Bound: the action was sent.  Only
\* SetActionTimeout can time an action whose command is stranded (NoStrandedCommand);
\* that timer firing before the next flush is left out.
ActionTimeout(o) ==
  LET id   == timer.task
      t    == pipe.active
      c    == CompleteActive([Ctl EXCEPT !.timer = NoTimer], FALSE)
      ends == IF OwnedByRun(c, id)
              THEN Finish([c EXCEPT !.run.stateKnown = FALSE], "action-timeout", o)
              ELSE CancelTasks(c, {t.key})
      last == CancelTasks(ends, Keys)
  IN  /\ timer.armed /\ id # None /\ CanComplete(pipe, id) /\ Room
      /\ pipe.pending = {}
      /\ Becomes(MaybeSettle(Flush(
           [last EXCEPT !.pipe = MarkRendered(@, id), !.owner[id] = None], o)))
      /\ UNCHANGED barriers

\* setActionTimeoutMs: the new deadline may come before the host timer (which is
\* then replaced) or after it.
SetActionTimeout(early) ==
  /\ pipe.active # None /\ CanComplete(pipe, pipe.active.id)
  /\ early => timer.armed
  /\ Becomes([Ctl EXCEPT !.timer = [armed |-> TRUE, task |-> pipe.active.id, early |-> early]])
  /\ UNCHANGED barriers

-----------------------------------------------------------------------------

Dispatched == pipe.active # None /\ pipe.active.stage = "dispatched"

UserStep ==
  \E o \in SendPairs :
    \/ \E k \in RunKeys, q \in Quotas, w \in BOOLEAN, d \in BOOLEAN, v \in Conditions :
         Start(k, q, w, d, v, o)
    \/ \E k \in OneShotKeys : RequestAction(k, FALSE, o)
    \/ \E k \in OneShotKeys : RequestOneShot(k, o)
    \/ Pause(o)
    \/ Stop(o)

ExtraStep ==
  \/ /\ "continuous-action" \in PublicExtras
     /\ \E o \in SendPairs, k \in OneShotKeys : RequestAction(k, TRUE, o)
  \/ /\ "cancel-continuous" \in PublicExtras
     /\ \E K \in {{k} : k \in Keys} \cup {Keys} : CancelContinuous(K)

SessionStep ==
  \/ HoldActionBoundary
  \/ \E o \in SendPairs : ReleaseBoundary(o)
  \/ \E r \in SyncIds :
       \/ RequestStateSync(r)
       \/ RecordSyncBegin(r)
       \/ \E o \in SendPairs : RecordSyncEnd(r, o) \/ AbortStateSync(r, o)
  \/ \E o \in SendPairs : \/ \E closed \in BOOLEAN : Reset("disconnected", closed, o)
                           \/ Reset("validation-error", FALSE, o)

EnvironmentStep ==
  \E o \in SendPairs :
    \/ \E id \in sent, result \in {"ok", "done", "error"}, v \in Conditions :
         ActionResult(id, result, v, o)
    \/ \E id \in barriers, ok \in BOOLEAN : ActionRendered(id, ok, o)
    \/ ActionTimeout(o)
    \/ WallTime(o)

TimerStep ==
  \/ TimerRearms
  \/ TimerIdles
  \/ \E early \in BOOLEAN : SetActionTimeout(early)

Next == UserStep \/ ExtraStep \/ SessionStep \/ EnvironmentStep \/ TimerStep

Spec == Init /\ [][Next]_vars

\* What fairness is assumed of, named by its effect: the simulator answers the
\* action it was sent, and the host's barrier promises settle, one way or the
\* other.  Nothing makes the user act or a timer fire first.
Answered ==
  /\ Dispatched /\ pipe.active.id \in sent /\ Room
  /\ barriers' = barriers \cup {pipe.active.id}

BarrierSettled ==
  Room /\ \E id \in barriers : barriers' = barriers \ {id}

Fairness == WF_barriers(Answered) /\ WF_barriers(BarrierSettled)

FairSpec == Spec /\ Fairness

-----------------------------------------------------------------------------
(* Properties.                                                             *)

TypeOK ==
  /\ pipe \in Pipeline
  /\ run \in Run
  /\ owner \in [TaskIds -> Owner \cup {None}]
  /\ timer \in Timer
  /\ deadline \in BOOLEAN /\ lifecycle \in BOOLEAN /\ hookDeclared \in BOOLEAN
  /\ sent \subseteq TaskIds /\ barriers \subseteq TaskIds
  /\ hooked \subseteq 0 .. MaxRuns

\* flushCommands runs in every public method that can dispatch: between two
\* calls no dispatch command is left behind, so the active task was sent.
NoStrandedCommand == pipe.pending = {}

\* The shared timer, though reused from tick to tick and released by results,
\* always covers the action that is waiting for its result.
OverdueIsNoticed ==
  Dispatched /\ pipe.pending = {} => timer.armed /\ timer.task = pipe.active.id

\* The counters of a run are exact while stateKnown: an action is dispatched and
\* not completed only while it is in flight.  Timeouts, disconnects and failed
\* sends lose at most one action, and say so. A bounded run never dispatches more
\* actions than its quota.
RunAccounting ==
  LET waiting == Dispatched /\ OwnedBy(Ctl, pipe.active.id, "action") /\ pipe.pending = {}
  IN  /\ run.completed <= run.dispatched /\ run.dispatched <= run.completed + 1
      /\ run.stateKnown => (run.dispatched = run.completed + 1 <=> waiting)
      /\ run.quota # 0 => run.dispatched <= run.quota

\* Ownership never leaks: an owned task is live and belongs to the current,
\* unsettled run; a stopped run that owns nothing has settled. Nothing else acts in the
\* name of a run that is over: the wall-time timer never outlives the running state (it
\* would stop a later run), and a settled run has no continuous task queued or waiting
\* for its result.
OwnersAreLive ==
  /\ \A i \in TaskIds : owner[i] # None =>
       /\ owner[i].run = run.id /\ ~run.settled
       /\ IsActive(pipe, i) \/ \E t \in pipe.queue : t.id = i
  /\ deadline => run.state = "running"
  /\ run.settled =>
       /\ \A t \in pipe.queue : ~t.continuous
       /\ Dispatched => ~pipe.active.continuous

\* The reset bracket of the scenario is open exactly while a reset action waits
\* for its result, whatever ended the last one.
ResetBracket ==
  lifecycle <=> Dispatched /\ pipe.active.key = ResetKey /\ pipe.pending = {}

NewlySent == sent' \ sent

\* Once a run is stopped, paused or asked to pause, none of its ticks is sent.
NoTickAfterStop ==
  [][run'.id = run.id /\ (run.state # "running" \/ run.pauseRequested)
       => \A id \in NewlySent : ~(IsActive(pipe', id) /\ pipe'.active.continuous)]_vars

\* The stop hook of a run is sent at most once, after the run stopped and with
\* no tick of the run in flight.
HookOnceAndLast ==
  [][\A id \in NewlySent :
       owner'[id] # None /\ owner'[id].source = "lifecycle" =>
         /\ run'.id \notin hooked /\ run'.state # "running"
         /\ \A i \in TaskIds : owner'[i] # None => owner'[i].source = "lifecycle"]_vars

\* A settled run is final: its counters, reasons and state never change again.
SettledIsFinal ==
  [][run.settled /\ run'.id = run.id =>
       /\ run'.settled /\ run'.reasons = run.reasons /\ run'.state = run.state
       /\ run'.completed = run.completed /\ run'.dispatched = run.dispatched]_vars

\* A stopped or paused run settles once the simulator answers, the barriers
\* resolve and holds and handshakes end.
StoppedRunSettles ==
  <>[](pipe.holds = 0 /\ SyncIdle(pipe)) =>
    ((run.state # "running" /\ ~run.settled) ~> (run.settled \/ ~Room))

\* A pause takes effect: the run leaves "running" once its tick is done.
PauseTakesEffect ==
  (run.state = "running" /\ run.pauseRequested) ~> (run.state # "running" \/ ~Room)

=============================================================================
