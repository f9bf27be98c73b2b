-------------------------- MODULE SimulatorBinding --------------------------
(***************************************************************************)
(* The simulator side of the protocol as the JavaScript binding implements *)
(* it: createBoundSession of tensnap-js (bindings/session.ts), driven by   *)
(* SimulatorSession.dispatch.                                              *)
(*                                                                         *)
(* The transport hosts start one asynchronous handler per message and do   *)
(* not wait for it, so handlers overlap: each runs without interruption    *)
(* from one await to the next and another may run at any await.  A handler *)
(* is therefore a record whose pc names the await it is suspended at, and  *)
(* an action below is the code from one await to the next.                 *)
(*                                                                         *)
(* The model's state is abstracted to the set of items of one layer and    *)
(* the value of one parameter; user hooks (init, step, reset, apply,       *)
(* validate, selectors) are external: they may change that state as the    *)
(* binding permits, and may throw.                                         *)
(***************************************************************************)
EXTENDS Naturals, Sequences, FiniteSets

CONSTANTS
  Syncs,          \* the state_sync requests of a behaviour
  ParamChanges,   \* the param_change messages
  Actions,        \* the action_invoke messages
  Restores,       \* the scene_restore messages, each delivered once
  RestoreIds,     \* the request ids scene_restore messages carry
  Captures,       \* the scene_capture messages
  Items,          \* the keys of the layer's items
  Values,         \* the values of the parameter
  Checkpoints,    \* are captureCheckpoint and restoreCheckpoint both given?
  None            \* undefined

Requests == Syncs \union ParamChanges \union Actions \union Restores \union Captures

Statuses == {"ok", "failed", "rejected"}   \* of a finished restore

ASSUME RequestsAssumption ==
  /\ IsFiniteSet(Requests)
  /\ Syncs \intersect (ParamChanges \union Actions \union Restores \union Captures) = {}
  /\ ParamChanges \intersect (Actions \union Restores \union Captures) = {}
  /\ Actions \intersect (Restores \union Captures) = {} /\ Restores \intersect Captures = {}
  /\ None \notin Requests \union RestoreIds \union Values
  /\ None \notin {"state_sync", "scene_restore"} \union Statuses
  /\ RestoreIds \intersect Requests = {}   \* createRequestId: "restore", "sync", "capture"
  /\ Checkpoints \in BOOLEAN

VARIABLES
  toSim,              \* renderer messages the host has not dispatched yet
  toRen,              \* messages sent to the renderer, not yet received there
  handler,            \* the asynchronous handler of each request
  initialized,        \* has the model's init hook run?
  activeTransaction,  \* None, "state_sync" or "scene_restore"
  actionInFlight,
  restoreResults,     \* the cached status of each restore request id, or None
  model,              \* the items the model holds
  param,              \* the value the model's parameter has
  syncedItems,        \* the items of the last push: the baseline of the next diff
  applied,            \* history: how often each restore id was applied
  thrown              \* history: the actions whose target check has thrown

bindingState == <<initialized, activeTransaction, actionInFlight, restoreResults>>
modelState   == <<model, param>>
simVars ==
  <<toSim, toRen, handler, bindingState, modelState, syncedItems, applied, thrown>>

Kinds == {"step", "reset", "hook", "invalid"}

Idle == [pc |-> "idle", rid |-> None, value |-> None, snap |-> {}, saved |-> None]

PushPcs    == {"pushing", "pushed", "pushedAll"}
SyncPcs    == {"initializing", "replaying"} \union PushPcs
ActionPcs  == {"stepping", "resetting", "hooking"} \union PushPcs
RestorePcs == {"validating", "saving", "restoring", "reconciling", "rollingBack"} \union PushPcs

Running(d) == handler[d].pc \notin {"idle", "done"}

(***************************************************************************)
(* Messages to the renderer.                                               *)
(***************************************************************************)
Note(type, id)       == [type |-> type, id |-> id]
Error(id)            == Note("error", id)
ActionResult(d)      == Note("action_result", d)
RestoreBegin(rid)    == Note("scene_restore_begin", rid)
RestoreEnd(rid, st)  == [type |-> "scene_restore_end", id |-> rid, status |-> st]
ParamMessage(t, v)   == [type |-> t, value |-> v]

\* A message about no items is not sent.
AboutItems(type, S) == IF S = {} THEN <<>> ELSE <<[type |-> type, items |-> S]>>
ItemDelete(S)  == AboutItems("item_delete", S)
ItemCreate(S)  == AboutItems("item_create", S)

Messages ==
  [type : {"state_sync_begin", "state_sync_end"}, id : Syncs]
  \union [type : {"action_result"}, id : Actions]
  \union [type : {"scene_capture_result"}, id : Captures]
  \union [type : {"error"}, id : Syncs \union Captures \union {None}]
  \union [type : {"scene_restore_begin"}, id : RestoreIds]
  \union [type : {"scene_restore_end"}, id : RestoreIds, status : Statuses]
  \union [type : {"param_create", "param_update", "param_sync"}, value : Values]
  \union [type : {"item_create", "item_delete"}, items : SUBSET Items]

\* Messages from the renderer; at names the request, that is the message.
Calls ==
  [at : Syncs \union Captures]
  \union [at : Restores, rid : RestoreIds, acceptable : BOOLEAN]
  \union [at : ParamChanges, value : Values]
  \union [at : Actions, kind : Kinds]

Emit(msgs) == toRen' = toRen \o msgs

Suspend(d, pc) == handler' = [handler EXCEPT ![d].pc = pc]

\* A handler's locals end with it.
Return(d) == handler' = [handler EXCEPT ![d] = [Idle EXCEPT !.pc = "done"]]

Handlers ==
  [pc : {"idle", "done", "applying", "capturing"} \union SyncPcs \union ActionPcs \union RestorePcs,
   rid : RestoreIds \union {None}, value : Values \union {None},
   snap : SUBSET Items,
   saved : [model : SUBSET Items, param : Values] \union {None}]

SimTypeOK ==
  /\ toSim \in Seq(Calls) /\ toRen \in Seq(Messages)
  /\ handler \in [Requests -> Handlers]
  /\ initialized \in BOOLEAN /\ actionInFlight \in BOOLEAN
  /\ activeTransaction \in {None, "state_sync", "scene_restore"}
  /\ restoreResults \in [RestoreIds -> Statuses \union {None}]
  /\ model \in SUBSET Items /\ syncedItems \in SUBSET Items /\ param \in Values
  /\ applied \in [RestoreIds -> Nat] /\ thrown \subseteq Actions

SimInit ==
  /\ toSim = <<>> /\ toRen = <<>>
  /\ handler = [d \in Requests |-> Idle]
  /\ initialized = FALSE /\ actionInFlight = FALSE
  /\ activeTransaction = None
  /\ restoreResults = [i \in RestoreIds |-> None]
  /\ model = {} /\ syncedItems = {}
  /\ param \in Values
  /\ applied = [i \in RestoreIds |-> 0] /\ thrown = {}

\* Mutant: a running action does not count.
isBusyInTransaction == activeTransaction # None

isBusy == activeTransaction # None \/ actionInFlight

\* The host dispatches the oldest message m; its handler is d's.
Dispatch(d, m) ==
  /\ toSim # <<>> /\ m = Head(toSim) /\ m.at = d
  /\ toSim' = Tail(toSim)

(***************************************************************************)
(* pushLayerState(full) and syncRecords: project the model, send the       *)
(* difference to the last push, and only then make the projection the new  *)
(* baseline.  Charts and monitors follow, which may throw.                 *)
(***************************************************************************)
PushItems(d) ==
  /\ handler[d].pc = "pushing"
  /\ Emit(ItemDelete(syncedItems \ model) \o ItemCreate(model \ syncedItems))
  /\ handler' = [handler EXCEPT ![d].pc = "pushed", ![d].snap = model]
  /\ UNCHANGED <<toSim, bindingState, modelState, syncedItems, applied, thrown>>

SetBaseline(d) ==
  /\ handler[d].pc = "pushed"
  /\ syncedItems' = handler[d].snap
  /\ handler' = [handler EXCEPT ![d].pc = "pushedAll", ![d].snap = {}]
  /\ UNCHANGED <<toSim, toRen, bindingState, modelState, applied, thrown>>

\* Mutant: a sync keeps the baseline of the previous scene.
OnStateSyncKeepingBaseline(d, m) ==
  /\ Dispatch(d, m) /\ d \in Syncs
  /\ IF isBusy
     THEN Emit(<<Error(d)>>) /\ Return(d) /\ UNCHANGED activeTransaction
     ELSE /\ activeTransaction' = "state_sync"
          /\ IF initialized
             THEN Emit(<<Note("state_sync_begin", d)>>) /\ Suspend(d, "replaying")
             ELSE Suspend(d, "initializing") /\ UNCHANGED toRen
  /\ UNCHANGED <<initialized, actionInFlight, restoreResults, modelState, syncedItems, applied, thrown>>

(***************************************************************************)
(* onStateSync.                                                            *)
(***************************************************************************)
OnStateSync(d, m) ==
  /\ Dispatch(d, m) /\ d \in Syncs
  /\ IF isBusy
     THEN /\ Emit(<<Error(d)>>) /\ Return(d)
          /\ UNCHANGED <<activeTransaction, syncedItems>>
     ELSE /\ activeTransaction' = "state_sync"
          /\ syncedItems' = {}
          /\ IF initialized
             THEN Emit(<<Note("state_sync_begin", d)>>) /\ Suspend(d, "replaying")
             ELSE Suspend(d, "initializing") /\ UNCHANGED toRen
  /\ UNCHANGED <<initialized, actionInFlight, restoreResults, modelState, applied, thrown>>

Initialize(d) ==
  /\ handler[d].pc = "initializing"
  /\ initialized' = TRUE
  /\ model' \in SUBSET Items
  /\ syncedItems' = {}
  /\ Emit(<<Note("state_sync_begin", d)>>)
  /\ Suspend(d, "replaying")
  /\ UNCHANGED <<toSim, activeTransaction, actionInFlight, restoreResults, param, applied, thrown>>

ReplayDefinition(d) ==
  /\ handler[d].pc = "replaying"
  /\ Emit(<<ParamMessage("param_create", param)>>)
  /\ Suspend(d, "pushing")
  /\ UNCHANGED <<toSim, bindingState, modelState, syncedItems, applied, thrown>>

FinishSync(d) ==
  /\ d \in Syncs /\ handler[d].pc = "pushedAll"
  /\ Emit(<<Note("state_sync_end", d)>>)
  /\ activeTransaction' = None
  /\ Return(d)
  /\ UNCHANGED <<toSim, initialized, actionInFlight, restoreResults, modelState, syncedItems, applied, thrown>>

\* A hook or a selector throws: the host reports an error that names no request.
SyncThrows(d) ==
  /\ d \in Syncs
  /\ \/ handler[d].pc = "initializing" /\ model' \in SUBSET Items
     \/ handler[d].pc \in {"pushing", "pushedAll"} /\ UNCHANGED model
  /\ activeTransaction' = None
  /\ Emit(<<Error(None)>>)
  /\ Return(d)
  /\ UNCHANGED <<toSim, initialized, actionInFlight, restoreResults, param, syncedItems, applied, thrown>>

(***************************************************************************)
(* onParamChange.  It refuses while something else runs, but marks nothing *)
(* busy itself while the parameter's own apply is awaited.                 *)
(***************************************************************************)
OnParamChange(d, m) ==
  /\ Dispatch(d, m) /\ d \in ParamChanges
  /\ IF isBusy
     THEN Emit(<<Error(None)>>) /\ Return(d)
     ELSE /\ handler' = [handler EXCEPT ![d].pc = "applying", ![d].value = m.value]
          /\ UNCHANGED toRen
  /\ UNCHANGED <<bindingState, modelState, syncedItems, applied, thrown>>

\* The model takes the value or settles on another, which is then published.
ApplyParameter(d) ==
  /\ handler[d].pc = "applying"
  /\ param' \in Values
  /\ Emit(IF param' = handler[d].value THEN <<>> ELSE <<ParamMessage("param_sync", param')>>)
  /\ Return(d)
  /\ UNCHANGED <<toSim, bindingState, model, syncedItems, applied, thrown>>

ParameterThrows(d) ==
  /\ handler[d].pc = "applying"
  /\ Emit(<<Error(None)>>)
  /\ Return(d)
  /\ UNCHANGED <<toSim, bindingState, modelState, syncedItems, applied, thrown>>

(***************************************************************************)
(* onActionInvoke.  Kind "step" stands for start, step and the custom      *)
(* actions that push state, "hook" for stop and the custom ones that do    *)
(* not, "invalid" for an unknown action, target or argument.  The target   *)
(* is looked up with the user's own layer.items and layer.project, outside *)
(* the try block: if they throw, the host reports an error that names no   *)
(* request, and the action has no result.                                  *)
(***************************************************************************)
OnActionInvoke(d, m) ==
  /\ Dispatch(d, m) /\ d \in Actions
  /\ \/ /\ ~isBusy /\ m.kind = "invalid"   \* invalidTarget throws
        /\ thrown' = thrown \union {d}
        /\ Emit(<<Error(None)>>) /\ Return(d)
        /\ UNCHANGED <<actionInFlight, syncedItems>>
     \/ /\ isBusy \/ m.kind = "invalid"
        /\ Emit(<<ActionResult(d)>>) /\ Return(d)
        /\ UNCHANGED <<actionInFlight, syncedItems, thrown>>
     \/ /\ ~isBusy /\ m.kind # "invalid"
        /\ actionInFlight' = TRUE
        /\ \/ /\ m.kind = "step" /\ Suspend(d, "stepping") /\ UNCHANGED <<toRen, syncedItems>>
           \/ /\ m.kind = "hook" /\ Suspend(d, "hooking") /\ UNCHANGED <<toRen, syncedItems>>
           \/ /\ m.kind = "reset" /\ Suspend(d, "resetting")   \* resetSyncedItems
              /\ Emit(ItemDelete(syncedItems))
              /\ syncedItems' = {}
        /\ UNCHANGED thrown
  /\ UNCHANGED <<initialized, activeTransaction, restoreResults, modelState, applied>>

RunHook(d) ==
  /\ handler[d].pc \in {"stepping", "resetting", "hooking"}
  /\ model' \in SUBSET Items
  /\ Suspend(d, IF handler[d].pc = "hooking" THEN "pushedAll" ELSE "pushing")
  /\ UNCHANGED <<toSim, toRen, bindingState, param, syncedItems, applied, thrown>>

AnswerAction(d) ==
  /\ actionInFlight' = FALSE
  /\ Emit(<<ActionResult(d)>>)
  /\ Return(d)
  /\ UNCHANGED <<toSim, initialized, activeTransaction, restoreResults, param, syncedItems, applied, thrown>>

FinishAction(d) ==
  /\ d \in Actions /\ handler[d].pc = "pushedAll"
  /\ AnswerAction(d)
  /\ UNCHANGED model

\* Mutant: an action that throws is not answered.
ActionThrowsSilently(d) ==
  /\ d \in Actions /\ handler[d].pc \in {"stepping", "resetting", "hooking", "pushing", "pushedAll"}
  /\ actionInFlight' = FALSE
  /\ Return(d)
  /\ UNCHANGED <<toSim, toRen, initialized, activeTransaction, restoreResults, modelState, syncedItems, applied, thrown>>

\* The hook, a selector or a monitor throws; the hook may have changed the model.
ActionThrows(d) ==
  /\ d \in Actions
  /\ \/ /\ handler[d].pc \in {"stepping", "resetting", "hooking"} /\ model' \in SUBSET Items
     \/ /\ handler[d].pc \in {"pushing", "pushedAll"} /\ UNCHANGED model
  /\ AnswerAction(d)

(***************************************************************************)
(* onSceneRestore.                                                         *)
(***************************************************************************)
\* rejectRestore: remember the verdict and send it as an empty transaction.
RejectRestore(d, rid) ==
  /\ restoreResults' = [restoreResults EXCEPT ![rid] = "rejected"]
  /\ Emit(<<RestoreBegin(rid), RestoreEnd(rid, "rejected")>>)
  /\ Return(d)

OnSceneRestore(d, m) ==
  /\ Dispatch(d, m) /\ d \in Restores
  /\ LET cached == restoreResults[m.rid] IN
     \/ /\ cached # None
        /\ Emit(<<RestoreBegin(m.rid), RestoreEnd(m.rid, cached)>>)
        /\ Return(d)
        /\ UNCHANGED restoreResults
     \/ /\ cached = None /\ (isBusy \/ ~m.acceptable)
        /\ RejectRestore(d, m.rid)
     \/ /\ cached = None /\ ~isBusy /\ m.acceptable
        /\ handler' = [handler EXCEPT ![d].pc = "validating", ![d].rid = m.rid]
        /\ UNCHANGED <<toRen, restoreResults>>
  /\ UNCHANGED <<initialized, activeTransaction, actionInFlight, modelState, syncedItems, applied, thrown>>

\* validateProjectedRestore has run: only now is the transaction marked active.
ValidateRestore(d) ==
  /\ handler[d].pc = "validating"
  /\ \/ /\ RejectRestore(d, handler[d].rid)
        /\ UNCHANGED activeTransaction
     \/ /\ activeTransaction' = "scene_restore"
        /\ IF Checkpoints
           THEN Suspend(d, "saving") /\ UNCHANGED toRen
           ELSE Suspend(d, "restoring") /\ Emit(<<RestoreBegin(handler[d].rid)>>)
        /\ UNCHANGED restoreResults
  /\ UNCHANGED <<toSim, initialized, actionInFlight, modelState, syncedItems, applied, thrown>>

SaveRollback(d) ==
  /\ handler[d].pc = "saving"
  /\ Emit(<<RestoreBegin(handler[d].rid)>>)
  /\ handler' = [handler EXCEPT ![d].pc = "restoring",
                                ![d].saved = [model |-> model, param |-> param]]
  /\ UNCHANGED <<toSim, bindingState, modelState, syncedItems, applied, thrown>>

\* Mutant: the verdict on a restore is not remembered.
EndRestoreForgetting(d, status, msgs) ==
  /\ Emit(msgs \o <<RestoreEnd(handler[d].rid, status)>>)
  /\ activeTransaction' = None
  /\ Return(d)
  /\ UNCHANGED <<toSim, initialized, actionInFlight, restoreResults, syncedItems, thrown>>

EndRestore(d, status, msgs) ==
  /\ restoreResults' = [restoreResults EXCEPT ![handler[d].rid] = status]
  /\ Emit(msgs \o <<RestoreEnd(handler[d].rid, status)>>)
  /\ activeTransaction' = None
  /\ Return(d)
  /\ UNCHANGED <<toSim, initialized, actionInFlight, syncedItems, thrown>>

SaveThrows(d) ==
  /\ handler[d].pc = "saving"
  /\ EndRestore(d, "failed", <<RestoreBegin(handler[d].rid)>>)
  /\ UNCHANGED <<modelState, applied>>

ApplyRestore(d) ==
  /\ handler[d].pc = "restoring"
  /\ model' \in SUBSET Items /\ param' \in Values
  /\ applied' = [applied EXCEPT ![handler[d].rid] = @ + 1]
  /\ Suspend(d, "reconciling")
  /\ UNCHANGED <<toSim, toRen, bindingState, syncedItems, thrown>>

\* reconcileDefinitions and resetSyncedItems.
ReconcileRestore(d) ==
  /\ handler[d].pc = "reconciling"
  /\ Emit(<<ParamMessage("param_update", param)>> \o ItemDelete(syncedItems))
  /\ syncedItems' = {}
  /\ Suspend(d, "pushing")
  /\ UNCHANGED <<toSim, bindingState, modelState, applied, thrown>>

FinishRestore(d) ==
  /\ d \in Restores /\ handler[d].pc = "pushedAll"
  /\ EndRestore(d, "ok", <<>>)
  /\ UNCHANGED <<modelState, applied>>

\* A restore hook throws half way, or a selector does while the scene is pushed.
RestoreThrows(d) ==
  /\ d \in Restores
  /\ \/ /\ handler[d].pc = "restoring" /\ model' \in SUBSET Items /\ param' \in Values
     \/ /\ handler[d].pc \in {"pushing", "pushedAll"} /\ UNCHANGED modelState
  /\ IF handler[d].saved = None
     THEN EndRestore(d, "failed", <<>>)
     ELSE /\ Suspend(d, "rollingBack")
          /\ UNCHANGED <<toSim, toRen, bindingState, syncedItems, thrown>>
  /\ UNCHANGED applied

\* restoreCheckpoint puts the model back, or throws and leaves it as it is.
RollBack(d) ==
  /\ handler[d].pc = "rollingBack"
  /\ \/ /\ model' = handler[d].saved.model /\ param' = handler[d].saved.param
     \/ UNCHANGED modelState
  /\ EndRestore(d, "failed", <<>>)
  /\ UNCHANGED applied

(***************************************************************************)
(* onSceneCapture, which marks nothing busy while the capture is awaited.  *)
(***************************************************************************)
OnSceneCapture(d, m) ==
  /\ Dispatch(d, m) /\ d \in Captures
  /\ IF isBusy \/ ~Checkpoints
     THEN Emit(<<Error(d)>>) /\ Return(d)
     ELSE Suspend(d, "capturing") /\ UNCHANGED toRen
  /\ UNCHANGED <<bindingState, modelState, syncedItems, applied, thrown>>

AnswerCapture(d) ==
  /\ handler[d].pc = "capturing"
  /\ \E type \in {"scene_capture_result", "error"} : Emit(<<Note(type, d)>>)
  /\ Return(d)
  /\ UNCHANGED <<toSim, bindingState, modelState, syncedItems, applied, thrown>>

DispatchMessage ==
  \E d \in Requests :
    LET m == Head(toSim) IN
    OnStateSync(d, m) \/ OnParamChange(d, m) \/ OnActionInvoke(d, m)
      \/ OnSceneRestore(d, m) \/ OnSceneCapture(d, m)

\* The continuation of d's handler after the await it is suspended at.
Resume(d) ==
  \/ PushItems(d) \/ SetBaseline(d)
  \/ Initialize(d) \/ ReplayDefinition(d) \/ FinishSync(d) \/ SyncThrows(d)
  \/ ApplyParameter(d) \/ ParameterThrows(d)
  \/ RunHook(d) \/ FinishAction(d) \/ ActionThrows(d)
  \/ ValidateRestore(d) \/ SaveRollback(d) \/ SaveThrows(d) \/ ApplyRestore(d)
  \/ ReconcileRestore(d) \/ FinishRestore(d) \/ RestoreThrows(d) \/ RollBack(d)
  \/ AnswerCapture(d)
=============================================================================
