------------------------------ MODULE SceneSync ------------------------------
(***************************************************************************)
(* A renderer session and a simulator binding keeping one scene in step.   *)
(*                                                                         *)
(* The renderer side is what RendererSession does with the scene: the      *)
(* guards under which it sends, the one control request it has open, the   *)
(* staging scene of a state sync or scene restore, and the strict mutation *)
(* rules Scenario applies to a message.  Actions are scheduled by the run  *)
(* controller, of which only the action in flight matters here.  The       *)
(* transport carries messages in order and loses none; one connection is   *)
(* modelled, from the sync the client requests when it opens.              *)
(***************************************************************************)
EXTENDS SimulatorBinding

CONSTANT TimedOut   \* the kinds of control request whose timer may expire

ControlKinds == {"state-sync", "scene-restore", "scene-capture"}

ASSUME TimedOutAssumption == TimedOut \subseteq ControlKinds

VARIABLES
  unsent,         \* the requests not sent so far
  scene,          \* the committed scene: its items and its parameter's value
  transaction,    \* the open transaction with its staging scene, or None
  activeRequest,  \* the control request awaiting its answer, or None
  syncRequired,   \* identityStatus is "sync-required": mutations are refused
  runAction,      \* the action in flight, or None
  rejected,       \* history: has a committed mutation been refused?
  overtaken       \* history: was a restore given up before the binding marked it active?

renVars ==
  <<unsent, scene, transaction, activeRequest, syncRequired, runAction, rejected, overtaken>>
vars == <<simVars, renVars>>

Scenes == [items : SUBSET Items, param : Values \union {None}]
Controls == [kind : {"state-sync"}, id : Syncs] \union [kind : {"scene-restore"}, id : RestoreIds]
            \union [kind : {"scene-capture"}, id : Captures]
Transactions == [kind : ControlKinds, id : Syncs \union RestoreIds, staging : Scenes]

ASSUME NoneAssumption == None \notin Controls /\ None \notin Transactions

\* The values and messages the variables range over.
TypeOK ==
  /\ SimTypeOK
  /\ unsent \subseteq Requests
  /\ scene \in Scenes
  /\ transaction \in Transactions \union {None}
  /\ activeRequest \in Controls \union {None}
  /\ syncRequired \in BOOLEAN /\ rejected \in BOOLEAN /\ overtaken \in BOOLEAN
  /\ runAction \in Actions \union {None}

Empty == [items |-> {}, param |-> None]

Init ==
  /\ SimInit
  /\ unsent = Requests
  /\ scene = Empty /\ transaction = None /\ activeRequest = None
  /\ syncRequired = TRUE /\ rejected = FALSE /\ overtaken = FALSE
  /\ runAction = None

(***************************************************************************)
(* Sending.                                                                *)
(***************************************************************************)
Send(d, m) ==
  /\ d \in unsent
  /\ unsent' = unsent \ {d}
  /\ toSim' = Append(toSim, m)
  /\ UNCHANGED <<toRen, handler, bindingState, modelState, syncedItems, applied, thrown, overtaken>>

\* assertNoActiveRequest, and send's refusal while a request is active.
Free == activeRequest = None /\ transaction = None

RequestStateSync(d) ==
  /\ d \in Syncs /\ Free
  /\ Send(d, [at |-> d])
  /\ activeRequest' = [kind |-> "state-sync", id |-> d]
  /\ UNCHANGED <<scene, transaction, syncRequired, runAction, rejected>>

\* The caller may supply the request id, also one used before.
IssueSceneRestore(d) ==
  /\ d \in Restores /\ Free /\ ~syncRequired /\ runAction = None
  /\ \E rid \in RestoreIds, ok \in BOOLEAN :
       /\ Send(d, [at |-> d, rid |-> rid, acceptable |-> ok])
       /\ activeRequest' = [kind |-> "scene-restore", id |-> rid]
  /\ UNCHANGED <<scene, transaction, syncRequired, runAction, rejected>>

IssueSceneCapture(d) ==
  /\ d \in Captures /\ Free /\ ~syncRequired /\ runAction = None
  /\ Send(d, [at |-> d])
  /\ activeRequest' = [kind |-> "scene-capture", id |-> d]
  /\ UNCHANGED <<scene, transaction, syncRequired, runAction, rejected>>

\* The renderer shows the new value at once.
SetParameter(d) ==
  /\ d \in ParamChanges /\ Free /\ ~syncRequired
  /\ \E v \in Values :
       /\ Send(d, [at |-> d, value |-> v])
       /\ scene' = [scene EXCEPT !.param = v]
  /\ UNCHANGED <<transaction, activeRequest, syncRequired, runAction, rejected>>

InvokeAction(d) ==
  /\ d \in Actions /\ Free /\ ~syncRequired /\ runAction = None
  /\ \E kind \in Kinds : Send(d, [at |-> d, kind |-> kind])
  /\ runAction' = d
  /\ UNCHANGED <<scene, transaction, activeRequest, syncRequired, rejected>>

(***************************************************************************)
(* Receiving: handleIncoming.                                              *)
(***************************************************************************)
Incoming(m) ==
  /\ toRen # <<>> /\ m = Head(toRen)
  /\ toRen' = Tail(toRen)
  /\ UNCHANGED <<toSim, handler, bindingState, modelState, syncedItems, applied, thrown>>
  /\ UNCHANGED <<unsent, overtaken>>

\* failActiveRequest: a failed state sync also resets the run controller.
FailActiveRequest(requiresStateSync) ==
  /\ activeRequest' = None /\ transaction' = None
  /\ syncRequired' = (syncRequired \/ (requiresStateSync /\ activeRequest.kind # "scene-capture"))
  /\ runAction' = IF requiresStateSync /\ activeRequest.kind = "state-sync" THEN None ELSE runAction
  /\ UNCHANGED <<scene, rejected>>

Ignore == UNCHANGED <<scene, transaction, activeRequest, syncRequired, runAction, rejected>>

\* While a sync is required, nothing else may change the scene.
Refused(m) ==
  syncRequired /\ transaction = None /\ m.type \notin {"state_sync_begin", "error"}

Awaits(kind, id) == activeRequest = [kind |-> kind, id |-> id]

Begin(kind, m, staging) ==
  IF transaction = None /\ Awaits(kind, m.id)
  THEN /\ transaction' = [kind |-> kind, id |-> m.id, staging |-> staging]
       /\ UNCHANGED <<scene, activeRequest, syncRequired, runAction, rejected>>
  ELSE Ignore

Closes(kind, m) == transaction # None /\ transaction.kind = kind /\ transaction.id = m.id

\* Mutant: the transaction, not its staging scene, is committed.
EndStateSyncWhole(m) ==
  IF Closes("state-sync", m)
  THEN /\ scene' = transaction
       /\ syncRequired' = FALSE
       /\ transaction' = None /\ activeRequest' = None
       /\ UNCHANGED <<runAction, rejected>>
  ELSE Ignore

EndStateSync(m) ==
  IF Closes("state-sync", m)
  THEN /\ scene' = transaction.staging
       /\ syncRequired' = FALSE
       /\ transaction' = None /\ activeRequest' = None
       /\ UNCHANGED <<runAction, rejected>>
  ELSE Ignore

EndSceneRestore(m) ==
  IF Closes("scene-restore", m)
  THEN /\ scene' = IF m.status = "ok" THEN transaction.staging ELSE scene
       /\ transaction' = None /\ activeRequest' = None
       /\ UNCHANGED <<syncRequired, runAction, rejected>>
  ELSE Ignore

\* Scenario.validateMutation in strict mode.
Allowed(s, m) ==
  CASE m.type = "item_create"  -> s.items \intersect m.items = {}
    [] m.type = "param_create" -> s.param = None
    [] m.type = "param_update" -> s.param # None
    [] OTHER -> TRUE

\* Scenario.apply.
Mutate(s, m) ==
  CASE m.type = "item_create" -> [s EXCEPT !.items = @ \union m.items]
    [] m.type = "item_delete" -> [s EXCEPT !.items = @ \ m.items]
    [] m.type \in {"param_create", "param_update"} \/ (m.type = "param_sync" /\ s.param # None) ->
         [s EXCEPT !.param = m.value]
    [] OTHER -> s

ApplyTransactionMessage(m) ==
  IF Allowed(transaction.staging, m)
  THEN /\ transaction' = [transaction EXCEPT !.staging = Mutate(@, m)]
       /\ UNCHANGED <<scene, activeRequest, syncRequired, runAction, rejected>>
  ELSE FailActiveRequest(TRUE)

ApplyCommittedMessage(m) ==
  /\ IF Allowed(scene, m)
     THEN scene' = Mutate(scene, m) /\ UNCHANGED rejected
     ELSE rejected' = TRUE /\ UNCHANGED scene
  /\ runAction' = IF m.type = "action_result" /\ m.id = runAction THEN None ELSE runAction
  /\ UNCHANGED <<transaction, activeRequest, syncRequired>>

HandleIncoming ==
  LET m == Head(toRen) IN
  /\ Incoming(m)
  /\ IF Refused(m) THEN Ignore ELSE
     CASE m.type = "state_sync_begin"    -> Begin("state-sync", m, Empty)
       [] m.type = "state_sync_end"      -> EndStateSync(m)
       [] m.type = "scene_restore_begin" -> Begin("scene-restore", m, scene)
       [] m.type = "scene_restore_end"   -> EndSceneRestore(m)
       [] m.type = "scene_capture_result" ->
            IF Awaits("scene-capture", m.id) THEN FailActiveRequest(FALSE) ELSE Ignore
       [] m.type = "error" ->
            IF activeRequest # None /\ m.id = activeRequest.id
            THEN FailActiveRequest(FALSE) ELSE Ignore
       [] OTHER -> IF transaction # None THEN ApplyTransactionMessage(m)
                   ELSE ApplyCommittedMessage(m)

\* The binding has a restore that it has not marked active: not dispatched, or being
\* validated by the user's code.
Unmarked ==
  \E d \in Restores : handler[d].pc = "validating" \/ \E k \in DOMAIN toSim : toSim[k].at = d

\* The timer of the active request expires.
TransactionTimeout ==
  /\ activeRequest # None /\ activeRequest.kind \in TimedOut
  /\ FailActiveRequest(TRUE)
  /\ overtaken' = (overtaken \/ (activeRequest.kind = "scene-restore" /\ Unmarked))
  /\ UNCHANGED <<simVars, unsent>>

----------------------------------------------------------------------------
SendSomething ==
  \E d \in unsent : RequestStateSync(d) \/ IssueSceneRestore(d) \/ IssueSceneCapture(d)
                    \/ SetParameter(d) \/ InvokeAction(d)

Dispatched == DispatchMessage /\ UNCHANGED renVars
Resumed    == (\E d \in Requests : Resume(d)) /\ UNCHANGED renVars

Next == SendSomething \/ HandleIncoming \/ TransactionTimeout \/ Dispatched \/ Resumed

Spec == Init /\ [][Next]_vars

Quiet == toSim = <<>> /\ toRen = <<>> /\ ~\E d \in Requests : Running(d)

\* Whenever nothing is under way, the items the binding believes it last
\* pushed, against which it will diff the next step, are the items the
\* renderer's committed scene holds: after failed hooks, failed or late
\* syncs and restores, and refused requests. Exempt are a restore that failed
\* (NoRejectedMutation) and one that was overtaken (OneOperation).
BaselineIsCommitted ==
  Quiet /\ Free /\ ~syncRequired /\ ~overtaken
      /\ (\A i \in RestoreIds : restoreResults[i] # "failed")
    => scene.items = syncedItems

\* The simulator never has two replays, or a replay and an action, under way
\* at once (specification, section 7), although the handlers overlap. It does
\* (SceneSync_nesting): a restore is not marked active while it is validated,
\* and a sync may start in that time once the renderer has given the restore up.
OneOperation ==
  Cardinality({d \in Syncs \union Actions : Running(d)}
      \union {d \in Restores : Running(d) /\ handler[d].pc # "validating"}) <= 1

\* That is the only way: a restore that is given up while the binding has it
\* marked, or is done with it, is waited for or over when the next sync comes.
OneOperationUnlessOvertaken == ~overtaken => OneOperation

\* A request id is restored at most once, however often it is sent, with one
\* exception: while the binding validates a restore that the renderer has given
\* up, the same id sent again is neither remembered nor refused as busy, and
\* both are applied, although the specification (section 6) forbids it.
RestoreAppliedOnce == ~overtaken => \A i \in RestoreIds : applied[i] <= 1

\* The binding sends nothing the renderer's mutation rules refuse in its
\* committed scene, such as creating an item that exists.
NoRejectedMutation == ~rejected

\* When every handler has ended and every message has arrived, no answer is
\* missing: no action result was lost in a staging scene or to a required
\* sync, and of the control requests only a state sync may be left to its timer
\* (the binding reports a failed one by an error that names no request). An
\* action whose target check throws is the exception: it has no result, although
\* the specification (section 5) promises one, and is left to the run's timer.
NothingUnanswered ==
  Quiet /\ ~overtaken =>
    /\ runAction = None \/ runAction \in thrown
    /\ activeRequest # None => activeRequest.kind = "state-sync"
=============================================================================
