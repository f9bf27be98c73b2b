--------------------------- MODULE SceneSync_proofs ---------------------------
(***************************************************************************)
(* The invariants of SceneSync.tla, for every set of requests, items and   *)
(* values and whatever times out.  They hold until the renderer gives up a *)
(* restore that the binding has not marked active yet; from then on they   *)
(* may be false (SceneSync_nesting).                                       *)
(*                                                                         *)
(* What makes them true is the order of things.  A request is unsent, in   *)
(* the queue to the simulator, at work, and over; what it says is in the   *)
(* queue to the renderer and then read.  The invariant says of each stage  *)
(* what the others may be in.                                              *)
(***************************************************************************)
EXTENDS SceneSync, SequenceTheorems, FiniteSetTheorems, TLAPS

Ops == Syncs \union Actions \union Restores

-----------------------------------------------------------------------------
(* Requests.                                                               *)

Called(d)  == \E k \in 1 .. Len(toSim) : toSim[k].at = d
Open(d)    == Called(d) \/ Running(d)
Engaged(d) == Running(d) /\ handler[d].pc # "validating"

\* Nothing of the renderer is undone by restore d yet.
Early(d) == Called(d) \/ handler[d].pc \in {"validating", "saving"}

RidOf(d, x) ==
  \/ Running(d) /\ handler[d].rid = x
  \/ \E k \in 1 .. Len(toSim) : toSim[k].at = d /\ toSim[k].rid = x

-----------------------------------------------------------------------------
(* What they say.                                                          *)

SyncWords  == {"state_sync_begin", "state_sync_end", "error"}
Restoring  == {"scene_restore_begin", "scene_restore_end"}
ItemWords  == {"item_create", "item_delete"}

OfSync(m, s)   == m.type \in SyncWords /\ m.id = s
BeginOf(m, s)  == m.type = "state_sync_begin" /\ m.id = s
EndOf(m, s)    == m.type = "state_sync_end" /\ m.id = s
ErrorOf(m, s)  == m.type = "error" /\ m.id = s
OfAction(m, a) == m.type = "action_result" /\ m.id = a
OfRestore(m)   == m.type \in Restoring
OfCapture(m, c) == m.type \in {"scene_capture_result", "error"} /\ m.id = c

\* m belongs to an operation other than sync s.
OfOther(m, s) ==
  \/ \E t \in Syncs \ {s} : OfSync(m, t)
  \/ \E a \in Actions : OfAction(m, a)
  \/ OfRestore(m)

Said == 1 .. Len(toRen)

Asks(kind, id) == activeRequest = [kind |-> kind, id |-> id]
Asking(kind)   == activeRequest # None /\ activeRequest.kind = kind

-----------------------------------------------------------------------------
(* The invariant.                                                          *)

\* A request has one message, and no handler before it arrives.
Queued ==
  /\ \A k \in 1 .. Len(toSim) : toSim[k].at \notin unsent /\ handler[toSim[k].at].pc = "idle"
  /\ \A k, l \in 1 .. Len(toSim) : toSim[k].at = toSim[l].at => k = l
  /\ \A d \in unsent : handler[d].pc = "idle"

\* Each handler is at one of its own awaits.
Fits(d) ==
  /\ d \in Syncs => handler[d].pc \in {"idle", "done"} \union SyncPcs
  /\ d \in Actions => handler[d].pc \in {"idle", "done"} \union ActionPcs
  /\ d \in Restores => handler[d].pc \in {"idle", "done"} \union RestorePcs
  /\ d \in ParamChanges => handler[d].pc \in {"idle", "done", "applying"}
  /\ d \in Captures => handler[d].pc \in {"idle", "done", "capturing"}
  /\ d \in Restores /\ Running(d) => handler[d].rid \in RestoreIds
  /\ handler[d].pc = "rollingBack" => handler[d].saved # None

Placed == \A d \in Requests : Fits(d)

\* The busy flags are those of the one operation at work.
Busy ==
  /\ \A d, e \in Ops : Engaged(d) /\ Engaged(e) => d = e
  /\ \A d \in Ops : Engaged(d) =>
       /\ d \in Syncs => activeTransaction = "state_sync"
       /\ d \in Restores => activeTransaction = "scene_restore"
       /\ d \in Actions => actionInFlight

\* The last word of an operation is its last, and it says nothing before it is called.
Ending ==
  /\ \A s \in Syncs, k \in Said : OfSync(toRen[k], s) =>
       /\ s \notin unsent /\ ~Called(s) /\ handler[s].pc # "initializing"
       /\ ~BeginOf(toRen[k], s) =>
            ~Open(s) /\ \A l \in Said : l > k => ~OfSync(toRen[l], s)
       /\ ErrorOf(toRen[k], s) => \A l \in Said : OfSync(toRen[l], s) => l = k
  /\ \A a \in Actions, k \in Said : OfAction(toRen[k], a) =>
       a \notin unsent /\ ~Open(a) /\ \A l \in Said : OfAction(toRen[l], a) => l = k
  /\ \A r \in Restores, k \in Said : OfRestore(toRen[k]) =>
       /\ ~Early(r)
       /\ toRen[k].type = "scene_restore_end" =>
            ~Open(r) /\ \A l \in Said : l > k => ~OfRestore(toRen[l])

\* The guards of the renderer: what it has not asked for, it does not wait for.
Guarded ==
  /\ syncRequired => runAction = None /\ (activeRequest # None => activeRequest.kind = "state-sync")
  /\ activeRequest # None /\ activeRequest.kind # "state-sync" => runAction = None
  /\ transaction # None =>
       /\ activeRequest # None /\ (runAction = None \/ runAction \in thrown)
       /\ transaction.kind = activeRequest.kind /\ transaction.id = activeRequest.id
       /\ transaction.kind # "scene-capture"
  /\ \A s \in Syncs : Asks("state-sync", s) => s \notin unsent
  /\ Asking("scene-restore") => Restores # {}
  /\ \A r, q \in Restores : Open(r) /\ Open(q) => r = q

\* While no sync is required the renderer knows of every operation.
Known ==
  ~syncRequired =>
    /\ \A a \in Actions : Open(a) \/ (\E k \in Said : OfAction(toRen[k], a)) => runAction = a
    /\ \A s \in Syncs : Open(s) \/ (\E k \in Said : OfSync(toRen[k], s)) => Asks("state-sync", s)
    /\ \A r \in Restores, x \in RestoreIds : Open(r) /\ RidOf(r, x) => Asks("scene-restore", x)
    /\ \A k \in Said : OfRestore(toRen[k]) => Asks("scene-restore", toRen[k].id)

\* A restore that is not marked active yet is the one the renderer waits for.
Patient ==
  \A r \in Restores : Called(r) \/ handler[r].pc = "validating" => ~syncRequired /\ transaction = None

\* A sync that was accepted.
Accepted(s) ==
  Running(s) \/ transaction # None \/ \E k \in Said : BeginOf(toRen[k], s) \/ EndOf(toRen[k], s)

\* Nothing follows the sync the renderer waits for.
Alone ==
  \A s \in Syncs : Asks("state-sync", s) =>
    /\ \A k, l \in 1 .. Len(toSim) : toSim[k].at = s /\ k < l => toSim[l].at \notin Ops
    /\ Accepted(s) => \A d \in Ops \ {s} : ~Open(d)
    /\ transaction # None =>
         /\ ~Called(s) /\ handler[s].pc # "initializing"
         /\ \A l \in Said : ~OfOther(toRen[l], s) /\ ~ErrorOf(toRen[l], s)
    /\ \A k \in Said : BeginOf(toRen[k], s) =>
         \A l \in Said : l > k => ~OfOther(toRen[l], s)

\* A restore begins once.
Begun ==
  /\ \A k, l \in Said :
       toRen[k].type = "scene_restore_begin" /\ toRen[l].type = "scene_restore_begin" => k = l
  /\ transaction # None /\ Asking("scene-restore") =>
       /\ \A r \in Restores : ~Early(r)
       /\ \A k \in Said : toRen[k].type # "scene_restore_begin"

Base == TypeOK /\ Queued /\ Placed

Control ==
  /\ Base /\ Busy /\ Ending /\ Guarded /\ Known /\ Patient /\ Alone /\ Begun

-----------------------------------------------------------------------------
(* Answers.                                                                *)

\* What the renderer waits for is on its way.
Answered ==
  /\ \A a \in Actions : runAction = a =>
       a \in thrown \/ Open(a) \/ \E k \in Said : OfAction(toRen[k], a)
  /\ \A c \in Captures : Asks("scene-capture", c) =>
       Open(c) \/ \E k \in Said : OfCapture(toRen[k], c)
  /\ Asking("scene-restore") =>
       /\ (\E r \in Restores : Open(r)) \/ \E k \in Said : toRen[k].type = "scene_restore_end"
       /\ transaction = None =>
            \/ \E r \in Restores : Early(r)
            \/ \E k \in Said : toRen[k].type = "scene_restore_begin"

\* How often an id was applied, and its verdict.
Applied ==
  /\ \A r \in Restores : Running(r) => restoreResults[handler[r].rid] = None
  /\ \A x \in RestoreIds :
       /\ applied[x] <= 1
       /\ restoreResults[x] = None =>
            \/ applied[x] = 0
            \/ \E r \in Restores : Running(r) /\ handler[r].rid = x
                 /\ handler[r].pc \notin {"validating", "saving", "restoring"}

-----------------------------------------------------------------------------
(* The scene.                                                              *)

NoFailed == \A i \in RestoreIds : restoreResults[i] # "failed"

\* What m makes of the items S.
Changed(S, m) ==
  IF m.type = "item_create" THEN S \union m.items
  ELSE IF m.type = "item_delete" THEN S \ m.items ELSE S

\* The messages after the first n make T of S, and each is allowed.
Leads(S, n, T) ==
  \E f \in [n .. Len(toRen) -> SUBSET Items] :
    /\ f[n] = S /\ f[Len(toRen)] = T
    /\ \A k \in (n + 1) .. Len(toRen) :
         /\ f[k] = Changed(f[k - 1], toRen[k])
         /\ toRen[k].type = "item_create" => f[k - 1] \intersect toRen[k].items = {}

\* The items of the last push, whose baseline may be about to be set.
Pushed(S) ==
  /\ \A d \in Requests : handler[d].pc = "pushed" => S = handler[d].snap
  /\ (\A d \in Requests : handler[d].pc # "pushed") => S = syncedItems

Shown == IF transaction = None THEN scene.items ELSE transaction.staging.items

\* No sync is on its way that has emptied the baseline.
Settled ==
  \A s \in Syncs : Asks("state-sync", s) => Called(s) \/ \E k \in Said : ErrorOf(toRen[k], s)

Tracks ==
  NoFailed =>
    /\ transaction # None \/ (~syncRequired /\ Settled) =>
         \E T \in SUBSET Items : Pushed(T) /\ Leads(Shown, 0, T)
    /\ \A s \in Syncs, k \in Said : Asks("state-sync", s) /\ BeginOf(toRen[k], s) =>
         \E T \in SUBSET Items : Pushed(T) /\ Leads({}, k, T)
    /\ \A k \in Said : toRen[k].type = "scene_restore_end" =>
         /\ toRen[k].status # "failed"
         /\ toRen[k].status = "rejected" =>
              IF k = 1 THEN Asking("scene-restore") /\ transaction # None => transaction.staging.items = scene.items
              ELSE toRen[k - 1].type = "scene_restore_begin"

-----------------------------------------------------------------------------
(* A step of the simulator: request d's handler runs to its next await and *)
(* says w.                                                                 *)

Turn(d, w) ==
  /\ d \in Requests /\ UNCHANGED renVars
  /\ w \in Seq(Messages) /\ toRen' = toRen \o w
  /\ \/ Running(d) /\ toSim' = toSim
     \/ toSim # <<>> /\ toSim[1].at = d /\ toSim' = Tail(toSim) /\ handler[d].pc = "idle"
  /\ handler'[d].pc # "idle" /\ \A e \in Requests : e # d => handler'[e] = handler[e]

\* An operation speaks for itself, and its last word is its last.
Word(d, w, k) ==
  /\ \A s \in Syncs : OfSync(w[k], s) =>
       /\ s = d /\ Len(w) = 1
       /\ BeginOf(w[k], s) => handler'[d].pc = "replaying" /\ syncedItems' = {}
       /\ EndOf(w[k], s) => Running(d) /\ handler'[d].pc = "done"
       /\ ErrorOf(w[k], s) => ~Running(d) /\ handler'[d].pc = "done"
  /\ \A a \in Actions : OfAction(w[k], a) => a = d /\ Len(w) = 1 /\ handler'[d].pc = "done"
  /\ OfRestore(w[k]) =>
       /\ d \in Restores /\ RidOf(d, w[k].id) /\ handler'[d].pc \notin {"validating", "saving"}
  /\ w[k].type = "scene_restore_begin" => k = 1 /\ Early(d)
  /\ w[k].type = "scene_restore_end" =>
       /\ k = Len(w) /\ handler'[d].pc = "done"
       /\ w[k].status = "failed" => ~NoFailed'
       /\ w[k].status = "rejected" => k = 2 /\ w[1].type = "scene_restore_begin"

Words(d, w) == \A k \in 1 .. Len(w) : Word(d, w, k)

\* An answer is given, save to an action whose target check throws.
Answers(d, w) ==
  /\ thrown \subseteq thrown'
  /\ handler'[d].pc = "done" =>
       /\ d \in Actions => d \in thrown' \/ \E k \in 1 .. Len(w) : OfAction(w[k], d)
       /\ d \in Captures => \E k \in 1 .. Len(w) : OfCapture(w[k], d)
       /\ d \in Restores => \E k \in 1 .. Len(w) : w[k].type = "scene_restore_end"
  /\ d \in Restores /\ handler'[d].pc \notin {"validating", "saving"} /\ Early(d) =>
       \E k \in 1 .. Len(w) : w[k].type = "scene_restore_begin"

Path(d) ==
  /\ handler'[d].pc \in {"validating", "initializing"} => handler[d].pc = "idle"
  /\ handler'[d].pc = "saving" => handler[d].pc = "validating"
  /\ d \in Restores /\ handler'[d].pc # "done" => RidOf(d, handler'[d].rid)
  /\ d \in Ops /\ Engaged(d)' => Engaged(d) \/ ~isBusy \/ handler[d].pc = "validating"

Flags(d) ==
  /\ Engaged(d)' =>
       \/ Engaged(d) /\ UNCHANGED <<activeTransaction, actionInFlight>>
       \/ /\ d \in Syncs => activeTransaction' = "state_sync"
          /\ d \in Restores => activeTransaction' = "scene_restore"
          /\ d \in Actions => actionInFlight'
  /\ activeTransaction' = activeTransaction \/ (d \in Ops /\ (Engaged(d) \/ Engaged(d)'))
  /\ (actionInFlight' <=> actionInFlight) \/ (d \in Ops /\ (Engaged(d) \/ Engaged(d)'))

Trying == {"validating", "saving", "restoring"}

Marks(d) ==
  /\ \/ restoreResults' = restoreResults /\ (d \in Restores /\ Running(d) => handler'[d].pc # "done")
     \/ /\ d \in Restores /\ handler'[d].pc = "done"
        /\ \E x \in RestoreIds, status \in Statuses :
             /\ RidOf(d, x) /\ (handler[d].pc = "idle" => restoreResults[x] = None)
             /\ restoreResults' = [restoreResults EXCEPT ![x] = status]
  /\ \/ applied' = applied
     \/ /\ d \in Restores /\ handler[d].pc = "restoring" /\ handler'[d].pc = "reconciling"
        /\ handler'[d].rid = handler[d].rid
        /\ applied' = [applied EXCEPT ![handler[d].rid] = @ + 1]
  /\ d \in Restores /\ handler[d].pc = "idle" /\ handler'[d].pc # "done" =>
       restoreResults[handler'[d].rid] = None
  /\ d \in Restores /\ Running(d) /\ handler'[d].pc \in Trying => handler[d].pc \in Trying

NoItems(w) == \A k \in 1 .. Len(w) : w[k].type \notin ItemWords

Pushes(d, w) ==
  \/ /\ syncedItems' = syncedItems /\ NoItems(w)
     /\ handler[d].pc # "pushed" /\ handler'[d].pc # "pushed"
  \/ /\ d \in Ops /\ handler[d].pc = "pushing" /\ handler'[d].pc = "pushed"
     /\ syncedItems' = syncedItems /\ handler'[d].snap = model
     /\ w = ItemDelete(syncedItems \ model) \o ItemCreate(model \ syncedItems)
  \/ /\ d \in Ops /\ handler[d].pc = "pushed" /\ handler'[d].pc # "pushed"
     /\ syncedItems' = handler[d].snap /\ w = <<>>
  \/ /\ d \in Ops /\ Engaged(d)' /\ handler[d].pc # "pushed" /\ handler'[d].pc # "pushed"
     /\ syncedItems' = {}
     /\ \E v \in Seq(Messages) : w = v \o ItemDelete(syncedItems) /\ NoItems(v)
  \/ /\ d \in Syncs /\ handler[d].pc \in {"idle", "initializing"}
     /\ handler'[d].pc \in {"initializing", "replaying"}
     /\ syncedItems' = {} /\ NoItems(w)

Step(d, w) ==
  /\ Turn(d, w) /\ Words(d, w) /\ Answers(d, w) /\ Path(d) /\ Flags(d) /\ Marks(d)
  /\ Pushes(d, w) /\ Fits(d)'

-----------------------------------------------------------------------------
(* Messages, requests and handlers.                                        *)

LEMMA OneKind ==
  /\ Syncs \intersect Actions = {} /\ Syncs \intersect Restores = {}
  /\ Syncs \intersect Captures = {} /\ Syncs \intersect ParamChanges = {}
  /\ Actions \intersect Restores = {} /\ Actions \intersect Captures = {}
  /\ Actions \intersect ParamChanges = {} /\ Restores \intersect Captures = {}
  /\ Restores \intersect ParamChanges = {} /\ Captures \intersect ParamChanges = {}
  /\ None \notin Requests /\ None \notin RestoreIds /\ None \notin Values
  /\ None # "state_sync" /\ None # "scene_restore" /\ None \notin Statuses
  /\ RestoreIds \intersect Requests = {}
BY RequestsAssumption

LEMMA MessageFields ==
  ASSUME NEW m \in Messages
  PROVE  /\ m.type \in {"state_sync_begin", "state_sync_end", "action_result",
                        "scene_capture_result", "error", "scene_restore_begin",
                        "scene_restore_end", "param_create", "param_update", "param_sync",
                        "item_create", "item_delete"}
         /\ m.type \in {"state_sync_begin", "state_sync_end"} => m.id \in Syncs
         /\ m.type = "action_result" => m.id \in Actions
         /\ m.type = "scene_capture_result" => m.id \in Captures
         /\ m.type = "error" => m.id \in Syncs \union Captures \union {None}
         /\ m.type \in Restoring => m.id \in RestoreIds
         /\ m.type = "scene_restore_end" => m.status \in Statuses
         /\ m.type \in {"param_create", "param_update", "param_sync"} => m.value \in Values
         /\ m.type \in ItemWords => m.items \in SUBSET Items
BY DEF Messages, Restoring, ItemWords

LEMMA CallFields ==
  ASSUME NEW m \in Calls
  PROVE  /\ m.at \in Requests
         /\ m.at \in Restores => m.rid \in RestoreIds /\ m.acceptable \in BOOLEAN
         /\ m.at \in ParamChanges => m.value \in Values
         /\ m.at \in Actions => m.kind \in Kinds
BY OneKind DEF Calls, Requests

LEMMA Suspended ==
  ASSUME handler \in [Requests -> Handlers], NEW d \in Requests, NEW pc,
         pc \in {"applying", "capturing"} \union SyncPcs \union ActionPcs \union RestorePcs,
         Suspend(d, pc)
  PROVE  /\ handler' \in [Requests -> Handlers]
         /\ \A e \in Requests : e # d => handler'[e] = handler[e]
         /\ handler'[d].pc = pc /\ handler'[d].rid = handler[d].rid
         /\ handler'[d].value = handler[d].value /\ handler'[d].snap = handler[d].snap
         /\ handler'[d].saved = handler[d].saved
BY DEF Suspend, Handlers

LEMMA Returned ==
  ASSUME handler \in [Requests -> Handlers], NEW d \in Requests, Return(d)
  PROVE  /\ handler' \in [Requests -> Handlers]
         /\ \A e \in Requests : e # d => handler'[e] = handler[e]
         /\ handler'[d].pc = "done"
<1>1. [Idle EXCEPT !.pc = "done"] \in Handlers /\ [Idle EXCEPT !.pc = "done"].pc = "done"
  BY DEF Idle, Handlers
<1> QED BY <1>1 DEF Return

\* Words that belong to no operation.
Aside(m) ==
  \/ m.type \in {"param_create", "param_update", "param_sync", "scene_capture_result"}
  \/ m.type \in ItemWords
  \/ m.type = "error" /\ m.id \notin Syncs

LEMMA Asides ==
  ASSUME NEW d, NEW w, \A k \in 1 .. Len(w) : Aside(w[k])
  PROVE  Words(d, w)
BY DEF Words, Word, Aside, OfSync, BeginOf, EndOf, ErrorOf, OfAction, OfRestore, SyncWords,
       Restoring, ItemWords

LEMMA ItemMessages ==
  ASSUME NEW S \in SUBSET Items
  PROVE  /\ ItemDelete(S) \in Seq(Messages) /\ ItemCreate(S) \in Seq(Messages)
         /\ Len(ItemDelete(S)) = IF S = {} THEN 0 ELSE 1
         /\ Len(ItemCreate(S)) = IF S = {} THEN 0 ELSE 1
         /\ S # {} => /\ ItemDelete(S)[1].type = "item_delete" /\ ItemDelete(S)[1].items = S
                      /\ ItemCreate(S)[1].type = "item_create" /\ ItemCreate(S)[1].items = S
<1> DEFINE m == [type |-> "item_delete", items |-> S]
           n == [type |-> "item_create", items |-> S]
<1>1. m \in Messages /\ n \in Messages
  BY DEF Messages
<1>2. m.type = "item_delete" /\ m.items = S /\ n.type = "item_create" /\ n.items = S
  OBVIOUS
<1>3. ItemDelete(S) = (IF S = {} THEN <<>> ELSE <<m>>) /\ ItemCreate(S) = (IF S = {} THEN <<>> ELSE <<n>>)
  BY DEF ItemDelete, ItemCreate, AboutItems
<1> HIDE DEF m, n
<1>4. CASE S = {}
  BY <1>3, <1>4
<1>5. CASE S # {}
  BY <1>1, <1>2, <1>3, <1>5
<1> QED BY <1>4, <1>5

\* The messages after w are those before and w.
LEMMA Appended ==
  ASSUME NEW q \in Seq(Messages), NEW w \in Seq(Messages)
  PROVE  /\ q \o w \in Seq(Messages) /\ Len(q \o w) = Len(q) + Len(w)
         /\ Len(q) \in Nat /\ Len(w) \in Nat
         /\ \A k \in 1 .. Len(q) : (q \o w)[k] = q[k]
         /\ \A k \in 1 .. Len(w) : (q \o w)[Len(q) + k] = w[k]
         /\ \A k \in 1 .. Len(q \o w) :
              \/ k \in 1 .. Len(q)
              \/ k - Len(q) \in 1 .. Len(w) /\ (q \o w)[k] = w[k - Len(q)] /\ k > Len(q)
OBVIOUS

LEMMA Single ==
  ASSUME NEW m \in Messages
  PROVE  <<m>> \in Seq(Messages) /\ Len(<<m>>) = 1 /\ <<m>>[1] = m
OBVIOUS

-----------------------------------------------------------------------------
(* The steps of the simulator.                                             *)

LEMMA Types ==
  ASSUME TypeOK
  PROVE  /\ toSim \in Seq(Calls) /\ toRen \in Seq(Messages)
         /\ handler \in [Requests -> Handlers]
         /\ initialized \in BOOLEAN /\ actionInFlight \in BOOLEAN
         /\ activeTransaction \in {None, "state_sync", "scene_restore"}
         /\ restoreResults \in [RestoreIds -> Statuses \union {None}]
         /\ model \in SUBSET Items /\ syncedItems \in SUBSET Items /\ param \in Values
         /\ applied \in [RestoreIds -> Nat] /\ thrown \subseteq Actions
BY DEF TypeOK, SimTypeOK

\* The variables of the binding, other than its handlers.
StateOK ==
  /\ initialized \in BOOLEAN /\ actionInFlight \in BOOLEAN
  /\ activeTransaction \in {None, "state_sync", "scene_restore"}
  /\ restoreResults \in [RestoreIds -> Statuses \union {None}]
  /\ model \in SUBSET Items /\ syncedItems \in SUBSET Items /\ param \in Values
  /\ applied \in [RestoreIds -> Nat] /\ thrown \subseteq Actions

LEMMA SimTypes ==
  ASSUME TypeOK, UNCHANGED renVars, SimTypeOK'
  PROVE  TypeOK'
BY DEF TypeOK, renVars

LEMMA HandlerFields ==
  ASSUME handler \in [Requests -> Handlers], NEW d \in Requests
  PROVE  /\ handler[d].rid \in RestoreIds \union {None} /\ handler[d].snap \in SUBSET Items
         /\ handler[d].value \in Values \union {None}
         /\ handler[d].saved \in [model : SUBSET Items, param : Values] \union {None}
         /\ handler[d].pc \in {"idle", "done", "applying", "capturing"} \union SyncPcs
                               \union ActionPcs \union RestorePcs
BY DEF Handlers

\* A handler that pushes is that of an operation.
LEMMA Pushers ==
  ASSUME Placed, NEW d \in Requests, handler[d].pc \in PushPcs
  PROVE  d \in Ops /\ Engaged(d) /\ (d \in Restores => handler[d].rid \in RestoreIds)
BY DEF Placed, Fits, PushPcs, Ops, Engaged, Running, Requests

\* An operation at work stays at work: it owes nothing and changes no flag.
LEMMA GoesOn ==
  ASSUME Queued, Placed, NEW d \in Requests, NEW w, d \in Ops, Engaged(d),
         handler[d].pc \notin {"saving"},
         handler'[d].pc \notin {"idle", "done", "validating", "saving", "initializing"},
         handler'[d].rid = handler[d].rid,
         handler'[d].pc \in Trying => handler[d].pc \in Trying,
         UNCHANGED <<activeTransaction, actionInFlight, restoreResults, applied, thrown>>
  PROVE  Answers(d, w) /\ Path(d) /\ Flags(d) /\ Marks(d)
<1>1. Running(d) /\ handler[d].pc # "idle" /\ handler[d].pc # "validating"
  BY DEF Engaged, Running
<1>2. ~Called(d)
  BY <1>1 DEF Queued, Called
<1>3. ~Early(d)
  BY <1>1, <1>2 DEF Early
<1>4. Answers(d, w)
  BY <1>3 DEF Answers
<1>5. RidOf(d, handler'[d].rid)
  BY <1>1 DEF RidOf
<1>6. Path(d)
  BY <1>1, <1>5 DEF Path
<1>7. Flags(d)
  BY DEF Flags
<1>8. Marks(d)
  BY <1>1 DEF Marks
<1> QED BY <1>4, <1>6, <1>7, <1>8

\* The handler goes on to another await ...
LEMMA GoesOnStep ==
  ASSUME Base, NEW d \in Ops, Engaged(d), handler[d].pc # "saving",
         NEW h \in Handlers, handler' = [handler EXCEPT ![d] = h],
         h.pc \notin {"idle", "done", "validating", "saving", "initializing"},
         h.rid = handler[d].rid, h.pc \in Trying => handler[d].pc \in Trying,
         d \in Syncs => h.pc \in SyncPcs, d \in Actions => h.pc \in ActionPcs,
         d \in Restores => h.pc \in RestorePcs, h.pc = "rollingBack" => h.saved # None,
         UNCHANGED <<activeTransaction, actionInFlight, restoreResults, applied, thrown>>,
         UNCHANGED toSim, UNCHANGED renVars, StateOK',
         NEW w \in Seq(Messages), toRen' = toRen \o w, Words(d, w), Pushes(d, w)
  PROVE  Step(d, w) /\ TypeOK'
<1>1. /\ toSim \in Seq(Calls) /\ toRen \in Seq(Messages) /\ handler \in [Requests -> Handlers]
      /\ d \in Requests
  BY Types DEF Base, Ops, Requests
<1>2. /\ handler' \in [Requests -> Handlers] /\ handler'[d] = h
      /\ \A e \in Requests : e # d => handler'[e] = handler[e]
  BY <1>1
<1>3. toRen' \in Seq(Messages)
  BY <1>1, Appended
<1>4. TypeOK'
  BY <1>1, <1>2, <1>3, SimTypes DEF Base, SimTypeOK, StateOK
<1>5. Turn(d, w)
  BY <1>1, <1>2 DEF Turn, Running, Engaged
<1>6. Answers(d, w) /\ Path(d) /\ Flags(d) /\ Marks(d)
  BY <1>1, <1>2, GoesOn DEF Base
<1>7. d \in Restores => handler[d].rid \in RestoreIds
  BY <1>1 DEF Base, Placed, Fits, Engaged
<1>8. Fits(d)'
  BY <1>2, <1>7, OneKind DEF Fits, Ops, Running
<1> QED BY <1>4, <1>5, <1>6, <1>8 DEF Step

\* ... or ends.
LEMMA ReturnsStep ==
  ASSUME Base, NEW d \in Requests, Return(d), UNCHANGED renVars, StateOK',
         \/ Running(d) /\ toSim' = toSim
         \/ toSim # <<>> /\ toSim[1].at = d /\ toSim' = Tail(toSim),
         NEW w \in Seq(Messages), toRen' = toRen \o w, Words(d, w), NoItems(w),
         d \in Actions => d \in thrown' \/ \E k \in 1 .. Len(w) : OfAction(w[k], d),
         d \in Captures => \E k \in 1 .. Len(w) : OfCapture(w[k], d),
         d \in Restores => \E k \in 1 .. Len(w) : w[k].type = "scene_restore_end",
         d \in Restores /\ Early(d) => \E k \in 1 .. Len(w) : w[k].type = "scene_restore_begin",
         activeTransaction' = activeTransaction \/ (d \in Ops /\ Engaged(d)),
         (actionInFlight' <=> actionInFlight) \/ (d \in Ops /\ Engaged(d)),
         UNCHANGED <<syncedItems, applied>>, thrown \subseteq thrown', handler[d].pc # "pushed",
         \/ restoreResults' = restoreResults /\ (d \in Restores => ~Running(d))
         \/ /\ d \in Restores
            /\ \E x \in RestoreIds, status \in Statuses :
                 /\ RidOf(d, x) /\ (handler[d].pc = "idle" => restoreResults[x] = None)
                 /\ restoreResults' = [restoreResults EXCEPT ![x] = status]
  PROVE  Step(d, w) /\ TypeOK'
<1>1. /\ toSim \in Seq(Calls) /\ toRen \in Seq(Messages) /\ handler \in [Requests -> Handlers]
  BY Types DEF Base
<1>2. /\ handler' \in [Requests -> Handlers] /\ handler'[d].pc = "done"
      /\ \A e \in Requests : e # d => handler'[e] = handler[e]
  BY <1>1, Returned
<1>3. toRen' \in Seq(Messages) /\ toSim' \in Seq(Calls)
  <2>1. toRen' \in Seq(Messages)
    BY <1>1, Appended
  <2>2. toSim # <<>> => Tail(toSim) \in Seq(Calls)
    BY <1>1
  <2> QED BY <1>1, <2>1, <2>2
<1>4. TypeOK'
  BY <1>2, <1>3, SimTypes DEF Base, SimTypeOK, StateOK
<1>5. toSim # <<>> => handler[toSim[1].at].pc = "idle"
  BY <1>1 DEF Base, Queued
<1>6. Turn(d, w)
  BY <1>2, <1>5 DEF Turn
<1>7. ~Engaged(d)' /\ ~Running(d)'
  BY <1>2 DEF Engaged, Running
<1>8. Answers(d, w) /\ Path(d)
  BY <1>2, <1>7 DEF Answers, Path
<1>9. Flags(d) /\ Marks(d)
  BY <1>2, <1>7 DEF Flags, Marks, Trying
<1>10. Pushes(d, w) /\ Fits(d)'
  BY <1>2, <1>7 DEF Pushes, Fits
<1> QED BY <1>4, <1>6, <1>8, <1>9, <1>10 DEF Step

LEMMA PushItemsSteps ==
  ASSUME Base, NEW d \in Requests, PushItems(d), UNCHANGED renVars
  PROVE  (\E w : Step(d, w)) /\ TypeOK'
<1> DEFINE S == syncedItems \ model
           U == model \ syncedItems
           w == ItemDelete(S) \o ItemCreate(U)
           h == [handler[d] EXCEPT !.pc = "pushed", !.snap = model]
<1>1. StateOK /\ toRen \in Seq(Messages) /\ handler \in [Requests -> Handlers]
  BY Types DEF Base, StateOK
<1>2. handler' = [handler EXCEPT ![d] = h] /\ handler[d].pc = "pushing"
  BY <1>1 DEF PushItems
<1>3. /\ h \in Handlers /\ h.pc = "pushed" /\ h.snap = model /\ h.rid = handler[d].rid
  BY <1>1 DEF Handlers, SyncPcs, PushPcs, StateOK
<1> HIDE DEF h
<1>4. handler'[d] = h
  BY <1>1, <1>2
<1>5. S \in SUBSET Items /\ U \in SUBSET Items
  BY <1>1 DEF StateOK
<1>6. w \in Seq(Messages) /\ \A k \in 1 .. Len(w) : w[k].type \in ItemWords
  <2> HIDE DEF S, U
  <2>1. /\ ItemDelete(S) \in Seq(Messages) /\ ItemCreate(U) \in Seq(Messages)
        /\ \A k \in 1 .. Len(ItemDelete(S)) : ItemDelete(S)[k].type \in ItemWords
        /\ \A k \in 1 .. Len(ItemCreate(U)) : ItemCreate(U)[k].type \in ItemWords
    BY <1>5, ItemMessages DEF ItemWords
  <2> QED BY <2>1, Appended
<1>7. d \in Ops /\ Engaged(d)
  BY <1>2, Pushers DEF PushPcs, Base
<1>8. toRen' = toRen \o w /\ UNCHANGED <<toSim, bindingState, modelState, syncedItems, applied, thrown>>
  BY DEF PushItems, Emit
<1>9. Pushes(d, w)
  BY <1>2, <1>3, <1>4, <1>7, <1>8 DEF Pushes
<1> HIDE DEF w
<1>10. Words(d, w)
  BY <1>6, Asides DEF Aside
<1>11. StateOK'
  BY <1>1, <1>8 DEF StateOK, bindingState, modelState
<1> QED
  BY <1>2, <1>3, <1>6, <1>7, <1>8, <1>9, <1>10, <1>11, GoesOnStep
  DEF bindingState, Trying, SyncPcs, ActionPcs, RestorePcs, PushPcs

\* Nothing is said.
LEMMA Silence ==
  ASSUME toRen \in Seq(Messages), NEW d
  PROVE  /\ <<>> \in Seq(Messages) /\ toRen \o <<>> = toRen /\ Len(<<>>) = 0
         /\ Words(d, <<>>) /\ NoItems(<<>>)
BY DEF Words, NoItems

LEMMA SetBaselineSteps ==
  ASSUME Base, NEW d \in Requests, SetBaseline(d), UNCHANGED renVars
  PROVE  (\E w : Step(d, w)) /\ TypeOK'
<1> DEFINE h == [handler[d] EXCEPT !.pc = "pushedAll", !.snap = {}]
<1>1. StateOK /\ toRen \in Seq(Messages) /\ handler \in [Requests -> Handlers]
  BY Types DEF Base, StateOK
<1>2. handler' = [handler EXCEPT ![d] = h] /\ handler[d].pc = "pushed"
  BY <1>1 DEF SetBaseline
<1>3. /\ h \in Handlers /\ h.pc = "pushedAll" /\ h.rid = handler[d].rid
      /\ handler[d].snap \in SUBSET Items
  BY <1>1 DEF Handlers, SyncPcs, PushPcs
<1> HIDE DEF h
<1>4. handler'[d] = h
  BY <1>1, <1>2
<1>5. d \in Ops /\ Engaged(d)
  BY <1>2, Pushers DEF PushPcs, Base
<1>6. /\ toRen' = toRen \o <<>> /\ UNCHANGED <<toSim, bindingState, modelState, applied, thrown>>
      /\ syncedItems' = handler[d].snap
  BY <1>1, Silence DEF SetBaseline
<1>7. Pushes(d, <<>>)
  BY <1>2, <1>3, <1>4, <1>5, <1>6 DEF Pushes
<1>8. StateOK'
  BY <1>1, <1>3, <1>6 DEF StateOK, bindingState, modelState
<1> QED
  BY <1>1, <1>2, <1>3, <1>5, <1>6, <1>7, <1>8, GoesOnStep, Silence
  DEF bindingState, Trying, SyncPcs, ActionPcs, RestorePcs, PushPcs

\* A handler that suspends at another await, and changes nothing else of itself.
LEMMA SuspendsStep ==
  ASSUME Base, NEW d \in Ops, Engaged(d), handler[d].pc \notin {"saving", "pushed"}, NEW pc, Suspend(d, pc),
         pc \in SyncPcs \union ActionPcs \union RestorePcs,
         pc \notin {"validating", "saving", "initializing", "pushed"},
         pc \in Trying => handler[d].pc \in Trying,
         d \in Syncs => pc \in SyncPcs, d \in Actions => pc \in ActionPcs,
         d \in Restores => pc \in RestorePcs, pc = "rollingBack" => handler[d].saved # None,
         UNCHANGED <<activeTransaction, actionInFlight, restoreResults, applied, thrown>>,
         UNCHANGED toSim, UNCHANGED renVars, StateOK',
         NEW w \in Seq(Messages), toRen' = toRen \o w, Words(d, w),
         \/ syncedItems' = syncedItems /\ NoItems(w)
         \/ syncedItems' = {} /\ \E v \in Seq(Messages) : w = v \o ItemDelete(syncedItems) /\ NoItems(v)
         \/ d \in Syncs /\ handler[d].pc = "initializing" /\ pc = "replaying"
            /\ syncedItems' = {} /\ NoItems(w)
  PROVE  Step(d, w) /\ TypeOK'
<1> DEFINE h == [handler[d] EXCEPT !.pc = pc]
<1>1. handler \in [Requests -> Handlers] /\ d \in Requests
  BY Types DEF Base, Ops, Requests
<1>2. handler' = [handler EXCEPT ![d] = h]
  BY <1>1 DEF Suspend
<1>3. h \in Handlers /\ h.pc = pc /\ h.rid = handler[d].rid /\ h.saved = handler[d].saved
  BY <1>1 DEF Handlers
<1> HIDE DEF h
<1>4. handler'[d] = h
  BY <1>1, <1>2
<1>5. pc # "idle" /\ pc # "done"
  BY DEF SyncPcs, ActionPcs, RestorePcs, PushPcs
<1>6. Engaged(d)'
  BY <1>3, <1>4, <1>5 DEF Engaged, Running
<1>7. Pushes(d, w)
  BY <1>3, <1>4, <1>6 DEF Pushes
<1> QED BY <1>2, <1>3, <1>5, <1>7, GoesOnStep

LEMMA InitializeSteps ==
  ASSUME Base, NEW d \in Requests, Initialize(d), UNCHANGED renVars
  PROVE  (\E w : Step(d, w)) /\ TypeOK'
<1> DEFINE m == Note("state_sync_begin", d)
<1>1. StateOK /\ toRen \in Seq(Messages) /\ handler[d].pc = "initializing"
  BY Types DEF Base, StateOK, Initialize
<1>2. d \in Syncs /\ Engaged(d) /\ d \in Ops /\ d \notin Actions /\ d \notin Restores
  BY <1>1, OneKind DEF Base, Placed, Fits, Engaged, Running, Ops, Requests, ActionPcs, RestorePcs, PushPcs
<1>3. m \in Messages /\ m.type = "state_sync_begin" /\ m.id = d
  BY <1>2 DEF Note, Messages
<1>4. /\ Suspend(d, "replaying") /\ toRen' = toRen \o <<m>> /\ syncedItems' = {}
      /\ UNCHANGED <<toSim, activeTransaction, actionInFlight, restoreResults, param, applied, thrown>>
      /\ initialized' = TRUE /\ model' \in SUBSET Items
  BY DEF Initialize, Emit
<1> HIDE DEF m
<1>5. <<m>> \in Seq(Messages) /\ Len(<<m>>) = 1 /\ <<m>>[1] = m
  BY <1>3, Single
<1>6. handler'[d].pc = "replaying"
  BY <1>4, Suspended, Types DEF Base, SyncPcs
<1>7. Words(d, <<m>>)
  BY <1>3, <1>4, <1>5, <1>6
  DEF Words, Word, OfSync, BeginOf, EndOf, ErrorOf, OfAction, OfRestore, Restoring
<1>8. NoItems(<<m>>)
  BY <1>3, <1>5 DEF NoItems, ItemWords
<1>9. StateOK'
  BY <1>1, <1>4 DEF StateOK
<1> QED BY <1>1, <1>2, <1>4, <1>5, <1>7, <1>8, <1>9, SuspendsStep DEF Trying, SyncPcs

LEMMA ReplaySteps ==
  ASSUME Base, NEW d \in Requests, ReplayDefinition(d), UNCHANGED renVars
  PROVE  (\E w : Step(d, w)) /\ TypeOK'
<1> DEFINE m == ParamMessage("param_create", param)
<1>1. StateOK /\ toRen \in Seq(Messages) /\ handler[d].pc = "replaying"
  BY Types DEF Base, StateOK, ReplayDefinition
<1>2. d \in Syncs /\ Engaged(d) /\ d \in Ops /\ d \notin Actions /\ d \notin Restores
  BY <1>1, OneKind DEF Base, Placed, Fits, Engaged, Running, Ops, Requests, ActionPcs, RestorePcs, PushPcs
<1>3. m \in Messages /\ m.type = "param_create"
  BY <1>1 DEF ParamMessage, Messages, StateOK
<1>4. /\ Suspend(d, "pushing") /\ toRen' = toRen \o <<m>>
      /\ UNCHANGED <<toSim, bindingState, modelState, syncedItems, applied, thrown>>
  BY DEF ReplayDefinition, Emit
<1> HIDE DEF m
<1>5. <<m>> \in Seq(Messages) /\ Len(<<m>>) = 1 /\ <<m>>[1] = m
  BY <1>3, Single
<1>6. Words(d, <<m>>)
  BY <1>3, <1>5, Asides DEF Aside
<1>7. NoItems(<<m>>)
  BY <1>3, <1>5 DEF NoItems, ItemWords
<1>8. StateOK'
  BY <1>1, <1>4 DEF StateOK, bindingState, modelState
<1> QED
  BY <1>1, <1>2, <1>4, <1>5, <1>6, <1>7, <1>8, SuspendsStep
  DEF Trying, SyncPcs, PushPcs, bindingState

\* Where the handlers of an operation's kind may be.
LEMMA KindOf ==
  ASSUME Placed, NEW d \in Requests
  PROVE  /\ handler[d].pc \in {"initializing", "replaying"} => d \in Syncs
         /\ handler[d].pc \in {"stepping", "resetting", "hooking"} => d \in Actions
         /\ handler[d].pc \in {"validating", "saving", "restoring", "reconciling", "rollingBack"} =>
              d \in Restores /\ handler[d].rid \in RestoreIds
         /\ handler[d].pc = "applying" => d \in ParamChanges
         /\ handler[d].pc = "capturing" => d \in Captures
BY DEF Placed, Fits, Running, Requests, SyncPcs, ActionPcs, RestorePcs, PushPcs

LEMMA RunHookSteps ==
  ASSUME Base, NEW d \in Requests, RunHook(d), UNCHANGED renVars
  PROVE  (\E w : Step(d, w)) /\ TypeOK'
<1> DEFINE pc == IF handler[d].pc = "hooking" THEN "pushedAll" ELSE "pushing"
<1>1. StateOK /\ toRen \in Seq(Messages) /\ handler[d].pc \in {"stepping", "resetting", "hooking"}
  BY Types DEF Base, StateOK, RunHook
<1>2. d \in Actions /\ Engaged(d) /\ d \in Ops /\ d \notin Syncs /\ d \notin Restores
  BY <1>1, OneKind, KindOf DEF Base, Engaged, Running, Ops
<1>3. /\ Suspend(d, pc) /\ toRen' = toRen \o <<>> /\ model' \in SUBSET Items
      /\ UNCHANGED <<toSim, bindingState, param, syncedItems, applied, thrown>>
  BY <1>1, Silence DEF RunHook
<1>4. pc \in {"pushedAll", "pushing"}
  OBVIOUS
<1>5. StateOK'
  BY <1>1, <1>3 DEF StateOK, bindingState
<1> HIDE DEF pc
<1> QED
  BY <1>1, <1>2, <1>3, <1>4, <1>5, SuspendsStep, Silence
  DEF Trying, ActionPcs, PushPcs, bindingState

\* The only word is d's last.
LEMMA LastWord ==
  ASSUME NEW d, NEW m \in Messages, handler'[d].pc = "done",
         \/ m.type = "state_sync_end" /\ m.id = d /\ Running(d)
         \/ m.type = "action_result" /\ m.id = d
         \/ m.type = "error" /\ m.id = d /\ ~Running(d)
         \/ Aside(m)
  PROVE  Words(d, <<m>>)
BY Single DEF Words, Word, OfSync, BeginOf, EndOf, ErrorOf, OfAction, OfRestore, SyncWords,
       Restoring, ItemWords, Aside

LEMMA FinishSyncSteps ==
  ASSUME Base, NEW d \in Requests, FinishSync(d), UNCHANGED renVars
  PROVE  (\E w : Step(d, w)) /\ TypeOK'
<1> DEFINE m == Note("state_sync_end", d)
<1>1. /\ StateOK /\ toRen \in Seq(Messages) /\ handler[d].pc = "pushedAll" /\ d \in Syncs
      /\ handler \in [Requests -> Handlers]
  BY Types DEF Base, StateOK, FinishSync
<1>2. Engaged(d) /\ Running(d) /\ d \in Ops /\ d \notin Actions /\ d \notin Restores /\ d \notin Captures
  BY <1>1, OneKind DEF Engaged, Running, Ops
<1>3. m \in Messages /\ m.type = "state_sync_end" /\ m.id = d
  BY <1>1 DEF Note, Messages
<1>4. /\ Return(d) /\ toRen' = toRen \o <<m>> /\ activeTransaction' = None
      /\ UNCHANGED <<toSim, initialized, actionInFlight, restoreResults, modelState, syncedItems, applied, thrown>>
  BY DEF FinishSync, Emit
<1> HIDE DEF m
<1>5. <<m>> \in Seq(Messages) /\ Len(<<m>>) = 1 /\ <<m>>[1] = m
  BY <1>3, Single
<1>6. Words(d, <<m>>)
  BY <1>1, <1>2, <1>3, <1>4, Returned, LastWord
<1>7. NoItems(<<m>>)
  BY <1>3, <1>5 DEF NoItems, ItemWords
<1>8. StateOK'
  BY <1>1, <1>4 DEF StateOK, modelState
<1> QED BY <1>1, <1>2, <1>4, <1>5, <1>6, <1>7, <1>8, ReturnsStep

LEMMA SyncThrowsSteps ==
  ASSUME Base, NEW d \in Requests, SyncThrows(d), UNCHANGED renVars
  PROVE  (\E w : Step(d, w)) /\ TypeOK'
<1> DEFINE m == Error(None)
<1>1. /\ StateOK /\ toRen \in Seq(Messages) /\ d \in Syncs /\ handler \in [Requests -> Handlers]
      /\ handler[d].pc \in {"initializing", "pushing", "pushedAll"}
  BY Types DEF Base, StateOK, SyncThrows
<1>2. Engaged(d) /\ Running(d) /\ d \in Ops /\ d \notin Actions /\ d \notin Restores /\ d \notin Captures
  BY <1>1, OneKind DEF Engaged, Running, Ops
<1>3. m \in Messages /\ m.type = "error" /\ m.id = None /\ Aside(m)
  BY OneKind DEF Error, Note, Messages, Aside, Requests
<1>4. /\ Return(d) /\ toRen' = toRen \o <<m>> /\ activeTransaction' = None
      /\ UNCHANGED <<toSim, initialized, actionInFlight, restoreResults, param, syncedItems, applied, thrown>>
  BY DEF SyncThrows, Emit
<1>5. model' \in SUBSET Items
  BY <1>1 DEF SyncThrows, StateOK
<1> HIDE DEF m
<1>6. <<m>> \in Seq(Messages) /\ Len(<<m>>) = 1 /\ <<m>>[1] = m
  BY <1>3, Single
<1>7. Words(d, <<m>>)
  BY <1>1, <1>3, <1>4, Returned, LastWord
<1>8. NoItems(<<m>>)
  BY <1>3, <1>6 DEF NoItems, ItemWords
<1>9. StateOK'
  BY <1>1, <1>4, <1>5 DEF StateOK
<1> QED BY <1>1, <1>2, <1>4, <1>6, <1>7, <1>8, <1>9, ReturnsStep

LEMMA ApplyParameterSteps ==
  ASSUME Base, NEW d \in Requests, ApplyParameter(d) \/ ParameterThrows(d), UNCHANGED renVars
  PROVE  (\E w : Step(d, w)) /\ TypeOK'
<1>1. /\ StateOK /\ toRen \in Seq(Messages) /\ handler \in [Requests -> Handlers]
      /\ handler[d].pc = "applying"
  BY Types DEF Base, StateOK, ApplyParameter, ParameterThrows
<1>2. /\ Running(d) /\ d \in ParamChanges /\ d \notin Actions /\ d \notin Restores
      /\ d \notin Captures
  BY <1>1, OneKind, KindOf DEF Base, Running
<1>3. /\ Return(d) /\ param' \in Values
      /\ UNCHANGED <<toSim, bindingState, model, syncedItems, applied, thrown>>
  BY <1>1 DEF ApplyParameter, ParameterThrows, StateOK, modelState
<1>4. PICK w \in {<<>>, <<ParamMessage("param_sync", param')>>, <<Error(None)>>} : toRen' = toRen \o w
  BY DEF ApplyParameter, ParameterThrows, Emit
<1>5. /\ ParamMessage("param_sync", param') \in Messages /\ Error(None) \in Messages
      /\ Aside(ParamMessage("param_sync", param')) /\ Aside(Error(None))
      /\ ParamMessage("param_sync", param').type = "param_sync" /\ Error(None).type = "error"
  BY <1>3, OneKind DEF ParamMessage, Error, Note, Messages, Aside, Requests
<1>6. w \in Seq(Messages) /\ Words(d, w) /\ NoItems(w)
  <2>1. CASE w = <<>>
    BY <1>1, <2>1, Silence
  <2>2. ASSUME NEW m \in Messages, w = <<m>>, Aside(m), m.type \notin ItemWords
        PROVE  w \in Seq(Messages) /\ Words(d, w) /\ NoItems(w)
    <3>1. <<m>> \in Seq(Messages) /\ Len(<<m>>) = 1 /\ <<m>>[1] = m
      BY Single
    <3> QED BY <2>2, <3>1, Asides DEF NoItems
  <2> QED BY <1>4, <1>5, <2>1, <2>2 DEF ItemWords
<1>7. StateOK'
  BY <1>1, <1>3 DEF StateOK, bindingState
<1> QED BY <1>1, <1>2, <1>3, <1>4, <1>6, <1>7, ReturnsStep DEF bindingState

LEMMA AnswerActionSteps ==
  ASSUME Base, NEW d \in Requests, FinishAction(d) \/ ActionThrows(d), UNCHANGED renVars
  PROVE  (\E w : Step(d, w)) /\ TypeOK'
<1> DEFINE m == ActionResult(d)
<1>1. /\ StateOK /\ toRen \in Seq(Messages) /\ d \in Actions /\ handler \in [Requests -> Handlers]
      /\ handler[d].pc \in {"stepping", "resetting", "hooking", "pushing", "pushedAll"}
      /\ model' \in SUBSET Items
  BY Types DEF Base, StateOK, FinishAction, ActionThrows
<1>2. Engaged(d) /\ Running(d) /\ d \in Ops /\ d \notin Restores /\ d \notin Captures
  BY <1>1, OneKind DEF Engaged, Running, Ops
<1>3. m \in Messages /\ m.type = "action_result" /\ m.id = d
  BY <1>1 DEF ActionResult, Note, Messages
<1>4. /\ Return(d) /\ toRen' = toRen \o <<m>> /\ actionInFlight' = FALSE
      /\ UNCHANGED <<toSim, initialized, activeTransaction, restoreResults, param, syncedItems, applied, thrown>>
  BY DEF FinishAction, ActionThrows, AnswerAction, Emit
<1> HIDE DEF m
<1>5. <<m>> \in Seq(Messages) /\ Len(<<m>>) = 1 /\ <<m>>[1] = m
  BY <1>3, Single
<1>6. Words(d, <<m>>)
  BY <1>1, <1>3, <1>4, Returned, LastWord
<1>7. NoItems(<<m>>) /\ \E k \in 1 .. Len(<<m>>) : OfAction(<<m>>[k], d)
  BY <1>3, <1>5 DEF NoItems, ItemWords, OfAction
<1>8. StateOK'
  BY <1>1, <1>4 DEF StateOK
<1> QED BY <1>1, <1>2, <1>4, <1>5, <1>6, <1>7, <1>8, ReturnsStep

LEMMA AnswerCaptureSteps ==
  ASSUME Base, NEW d \in Requests, AnswerCapture(d), UNCHANGED renVars
  PROVE  (\E w : Step(d, w)) /\ TypeOK'
<1>1. /\ StateOK /\ toRen \in Seq(Messages) /\ handler \in [Requests -> Handlers]
      /\ handler[d].pc = "capturing"
  BY Types DEF Base, StateOK, AnswerCapture
<1>2. Running(d) /\ d \in Captures /\ d \notin Actions /\ d \notin Restores /\ d \notin Syncs
  BY <1>1, OneKind, KindOf DEF Base, Running
<1>3. PICK type \in {"scene_capture_result", "error"} : toRen' = toRen \o <<Note(type, d)>>
  BY DEF AnswerCapture, Emit
<1> DEFINE m == Note(type, d)
<1>4. m \in Messages /\ m.type \in {"scene_capture_result", "error"} /\ m.id = d /\ Aside(m)
  BY <1>2 DEF Note, Messages, Aside
<1>5. /\ Return(d) /\ UNCHANGED <<toSim, bindingState, modelState, syncedItems, applied, thrown>>
  BY DEF AnswerCapture
<1>6. toRen' = toRen \o <<m>>
  BY <1>3
<1> HIDE DEF m
<1>7. <<m>> \in Seq(Messages) /\ Len(<<m>>) = 1 /\ <<m>>[1] = m
  BY <1>4, Single
<1>8. Words(d, <<m>>)
  BY <1>1, <1>4, <1>5, Returned, LastWord
<1>9. NoItems(<<m>>) /\ \E k \in 1 .. Len(<<m>>) : OfCapture(<<m>>[k], d)
  BY <1>4, <1>7 DEF NoItems, ItemWords, OfCapture
<1>10. StateOK'
  BY <1>1, <1>5 DEF StateOK, bindingState, modelState
<1> QED BY <1>1, <1>2, <1>5, <1>6, <1>7, <1>8, <1>9, <1>10, ReturnsStep DEF bindingState

LEMMA RestoreMessages ==
  ASSUME NEW x \in RestoreIds, NEW status \in Statuses
  PROVE  /\ RestoreBegin(x) \in Messages /\ RestoreBegin(x).type = "scene_restore_begin"
         /\ RestoreBegin(x).id = x
         /\ RestoreEnd(x, status) \in Messages /\ RestoreEnd(x, status).type = "scene_restore_end"
         /\ RestoreEnd(x, status).id = x /\ RestoreEnd(x, status).status = status
BY DEF RestoreBegin, RestoreEnd, Note, Messages

\* A restore that was refused, or ends before it touched the model, says it all at once.
LEMMA RestorePair ==
  ASSUME NEW d \in Restores, NEW x \in RestoreIds, NEW status \in Statuses, RidOf(d, x), Early(d),
         handler'[d].pc = "done", status = "failed" => ~NoFailed'
  PROVE  LET w == <<RestoreBegin(x), RestoreEnd(x, status)>> IN
           /\ w \in Seq(Messages) /\ Words(d, w) /\ NoItems(w)
           /\ \E k \in 1 .. Len(w) : w[k].type = "scene_restore_begin"
           /\ \E k \in 1 .. Len(w) : w[k].type = "scene_restore_end"
<1> DEFINE b == RestoreBegin(x)
           e == RestoreEnd(x, status)
           w == <<b, e>>
<1>1. /\ b \in Messages /\ b.type = "scene_restore_begin" /\ b.id = x
      /\ e \in Messages /\ e.type = "scene_restore_end" /\ e.id = x /\ e.status = status
  BY RestoreMessages
<1> HIDE DEF b, e
<1>2. w \in Seq(Messages) /\ Len(w) = 2 /\ w[1] = b /\ w[2] = e
  BY <1>1
<1> HIDE DEF w
<1>3. Word(d, w, 1)
  BY <1>1, <1>2
  DEF Word, OfSync, BeginOf, EndOf, ErrorOf, OfAction, OfRestore, SyncWords, Restoring
<1>4. Word(d, w, 2)
  BY <1>1, <1>2
  DEF Word, OfSync, BeginOf, EndOf, ErrorOf, OfAction, OfRestore, SyncWords, Restoring
<1>5. \A k \in 1 .. Len(w) : k = 1 \/ k = 2
  BY <1>2
<1>6. Words(d, w) /\ NoItems(w)
  BY <1>1, <1>2, <1>3, <1>4, <1>5 DEF Words, NoItems, ItemWords
<1>7. 1 \in 1 .. Len(w) /\ 2 \in 1 .. Len(w)
  BY <1>2
<1> QED BY <1>1, <1>2, <1>6, <1>7 DEF w, b, e

LEMMA RestoreLast ==
  ASSUME NEW d \in Restores, NEW x \in RestoreIds, NEW status \in {"ok", "failed"}, RidOf(d, x),
         handler'[d].pc = "done", status = "failed" => ~NoFailed'
  PROVE  LET w == <<RestoreEnd(x, status)>> IN
           /\ w \in Seq(Messages) /\ Words(d, w) /\ NoItems(w)
           /\ \E k \in 1 .. Len(w) : w[k].type = "scene_restore_end"
<1> DEFINE e == RestoreEnd(x, status)
           w == <<e>>
<1>1. /\ e \in Messages /\ e.type = "scene_restore_end" /\ e.id = x /\ e.status = status
  BY RestoreMessages DEF Statuses
<1> HIDE DEF e
<1>2. w \in Seq(Messages) /\ Len(w) = 1 /\ w[1] = e
  BY <1>1
<1> HIDE DEF w
<1>3. Word(d, w, 1)
  BY <1>1, <1>2
  DEF Word, OfSync, BeginOf, EndOf, ErrorOf, OfAction, OfRestore, SyncWords, Restoring
<1>4. Words(d, w) /\ NoItems(w)
  BY <1>1, <1>2, <1>3 DEF Words, NoItems, ItemWords
<1> QED BY <1>1, <1>2, <1>4 DEF w, e

\* A restore that goes on before it has applied anything.
LEMMA RestoreMoves ==
  ASSUME Base, NEW d \in Restores, handler[d].pc \in {"validating", "saving"},
         NEW h \in Handlers, handler' = [handler EXCEPT ![d] = h], h.rid = handler[d].rid,
         NEW w \in Seq(Messages), toRen' = toRen \o w,
         \/ h.pc = "saving" /\ handler[d].pc = "validating" /\ w = <<>>
         \/ h.pc = "restoring" /\ w = <<RestoreBegin(handler[d].rid)>>,
         \/ activeTransaction' = "scene_restore" /\ handler[d].pc = "validating"
         \/ activeTransaction' = activeTransaction /\ handler[d].pc = "saving",
         UNCHANGED <<toSim, initialized, actionInFlight, restoreResults, modelState, syncedItems, applied, thrown>>,
         UNCHANGED renVars
  PROVE  Step(d, w) /\ TypeOK'
<1> DEFINE b == RestoreBegin(handler[d].rid)
<1>1. /\ toSim \in Seq(Calls) /\ toRen \in Seq(Messages) /\ handler \in [Requests -> Handlers]
      /\ StateOK /\ d \in Requests /\ handler[d].rid \in RestoreIds
  BY Types, KindOf DEF Base, Requests, StateOK
<1>2. /\ handler' \in [Requests -> Handlers] /\ handler'[d] = h
      /\ \A e \in Requests : e # d => handler'[e] = handler[e]
  BY <1>1
<1>3. toRen' \in Seq(Messages)
  BY <1>1, Appended
<1>4. StateOK'
  BY <1>1 DEF StateOK, modelState
<1>5. TypeOK'
  BY <1>1, <1>2, <1>3, <1>4, SimTypes DEF Base, SimTypeOK, StateOK
<1>6. Running(d) /\ handler'[d].pc \in {"saving", "restoring"} /\ Running(d)' /\ Engaged(d)'
  BY <1>2 DEF Running, Engaged
<1>7. Turn(d, w)
  BY <1>1, <1>2, <1>6 DEF Turn
<1>8. RidOf(d, handler[d].rid) /\ Early(d)
  BY <1>6 DEF RidOf, Early
<1>9. b \in Messages /\ b.type = "scene_restore_begin" /\ b.id = handler[d].rid
  BY <1>1, RestoreMessages DEF Statuses
<1> HIDE DEF b
<1>10. Len(<<b>>) = 1 /\ <<b>>[1] = b
  OBVIOUS
<1>11. Words(d, w) /\ NoItems(w) /\ (h.pc = "restoring" => \E k \in 1 .. Len(w) : w[k].type = "scene_restore_begin")
  <2>1. CASE w = <<>> /\ h.pc # "restoring"
    BY <1>1, <2>1, Silence
  <2>2. CASE w = <<b>> /\ h.pc = "restoring"
    <3>1. Word(d, w, 1)
      BY <1>2, <1>8, <1>9, <1>10, <2>2
      DEF Word, OfSync, BeginOf, EndOf, ErrorOf, OfAction, OfRestore, SyncWords, Restoring
    <3> QED BY <1>9, <1>10, <2>2, <3>1 DEF Words, NoItems, ItemWords
  <2> QED BY <2>1, <2>2 DEF b
<1>12. Answers(d, w)
  BY <1>2, <1>11, OneKind DEF Answers
<1>13. Path(d)
  BY <1>1, <1>2, <1>6, <1>8 DEF Path, Engaged
<1>14. d \in Ops /\ d \notin Syncs /\ d \notin Actions /\ d \notin Captures /\ d \notin ParamChanges
  BY OneKind DEF Ops
<1>15. Flags(d)
  BY <1>6, <1>14 DEF Flags, Engaged
<1>16. Marks(d)
  BY <1>1, <1>6 DEF Marks, Trying, Running
<1>17. Pushes(d, w) /\ Fits(d)'
  BY <1>1, <1>2, <1>6, <1>11, <1>14 DEF Pushes, Fits, RestorePcs
<1> QED BY <1>5, <1>7, <1>11, <1>12, <1>13, <1>15, <1>16, <1>17 DEF Step

\* A restore that ends.
LEMMA EndRestoreStep ==
  ASSUME Base, NEW d \in Restores, Running(d), handler[d].pc # "pushed", NEW x \in RestoreIds,
         handler[d].rid = x,
         NEW status \in Statuses, Return(d), UNCHANGED renVars, UNCHANGED toSim,
         restoreResults' = [restoreResults EXCEPT ![x] = status],
         NEW w, toRen' = toRen \o w,
         \/ /\ Early(d) /\ w = <<RestoreBegin(x), RestoreEnd(x, status)>>
         \/ /\ ~Early(d) /\ status # "rejected" /\ w = <<RestoreEnd(x, status)>>,
         activeTransaction' = activeTransaction \/ (activeTransaction' = None /\ Engaged(d)),
         UNCHANGED <<initialized, actionInFlight, syncedItems, applied, thrown>>,
         model' \in SUBSET Items, param' \in Values
  PROVE  Step(d, w) /\ TypeOK'
<1>1. StateOK /\ toRen \in Seq(Messages) /\ handler \in [Requests -> Handlers] /\ d \in Requests
  BY Types DEF Base, StateOK, Requests
<1>2. handler'[d].pc = "done"
  BY <1>1, Returned
<1>3. RidOf(d, x)
  BY DEF RidOf
<1>4. status = "failed" => ~NoFailed'
  BY <1>1 DEF NoFailed, StateOK
<1>5. /\ w \in Seq(Messages) /\ Words(d, w) /\ NoItems(w)
      /\ Early(d) => \E k \in 1 .. Len(w) : w[k].type = "scene_restore_begin"
      /\ \E k \in 1 .. Len(w) : w[k].type = "scene_restore_end"
  <2>1. CASE Early(d)
    <3> DEFINE v == <<RestoreBegin(x), RestoreEnd(x, status)>>
    <3>1. /\ v \in Seq(Messages) /\ Words(d, v) /\ NoItems(v)
          /\ \E k \in 1 .. Len(v) : v[k].type = "scene_restore_begin"
          /\ \E k \in 1 .. Len(v) : v[k].type = "scene_restore_end"
      BY <1>2, <1>3, <1>4, <2>1, RestorePair
    <3>2. w = v
      BY <2>1
    <3> HIDE DEF v
    <3> QED BY <3>1, <3>2
  <2>2. CASE ~Early(d)
    <3> DEFINE v == <<RestoreEnd(x, status)>>
    <3>1. status \in {"ok", "failed"}
      BY <2>2 DEF Statuses
    <3>2. /\ v \in Seq(Messages) /\ Words(d, v) /\ NoItems(v)
          /\ \E k \in 1 .. Len(v) : v[k].type = "scene_restore_end"
      BY <1>2, <1>3, <1>4, <3>1, RestoreLast
    <3>3. w = v
      BY <2>2
    <3> HIDE DEF v
    <3> QED BY <2>2, <3>2, <3>3
  <2> QED BY <2>1, <2>2
<1>6. d \in Ops /\ d \notin Syncs /\ d \notin Actions /\ d \notin Captures
  BY OneKind DEF Ops
<1>7. StateOK'
  BY <1>1 DEF StateOK
<1>8. handler[d].pc # "idle"
  BY DEF Running
<1> QED BY <1>1, <1>3, <1>5, <1>6, <1>7, <1>8, ReturnsStep

LEMMA RestoreAt ==
  ASSUME Base, NEW d \in Requests, d \in Restores, Running(d)
  PROVE  /\ handler[d].rid \in RestoreIds /\ d \in Ops /\ ~Called(d)
         /\ d \notin Syncs /\ d \notin Actions /\ d \notin Captures
BY OneKind DEF Base, Placed, Fits, Ops, Queued, Called, Running

LEMMA ValidateSteps ==
  ASSUME Base, NEW d \in Requests, ValidateRestore(d), UNCHANGED renVars
  PROVE  (\E w : Step(d, w)) /\ TypeOK'
<1> DEFINE x == handler[d].rid
<1>1. /\ StateOK /\ toRen \in Seq(Messages) /\ handler \in [Requests -> Handlers]
      /\ handler[d].pc = "validating"
  BY Types DEF Base, StateOK, ValidateRestore
<1>2. d \in Restores /\ Running(d) /\ x \in RestoreIds
  BY <1>1, KindOf DEF Base, Running
<1>3. Early(d)
  BY <1>1 DEF Early
<1>4. UNCHANGED <<toSim, initialized, actionInFlight, modelState, syncedItems, applied, thrown>>
  BY DEF ValidateRestore
<1>5. CASE RejectRestore(d, x) /\ UNCHANGED activeTransaction
  <2>1. /\ Return(d) /\ restoreResults' = [restoreResults EXCEPT ![x] = "rejected"]
        /\ toRen' = toRen \o <<RestoreBegin(x), RestoreEnd(x, "rejected")>>
    BY <1>5 DEF RejectRestore, Emit
  <2>2. model' \in SUBSET Items /\ param' \in Values
    BY <1>1, <1>4 DEF StateOK, modelState
  <2> HIDE DEF x
  <2>3. handler[d].rid = x
    BY DEF x
  <2> QED BY <1>1, <1>2, <1>3, <1>4, <1>5, <2>1, <2>2, <2>3, EndRestoreStep DEF Statuses
<1>6. CASE /\ activeTransaction' = "scene_restore" /\ UNCHANGED restoreResults
           /\ IF Checkpoints THEN Suspend(d, "saving") /\ UNCHANGED toRen
              ELSE Suspend(d, "restoring") /\ Emit(<<RestoreBegin(x)>>)
  <2>1. PICK pc \in {"saving", "restoring"} :
          /\ Suspend(d, pc)
          /\ pc = "saving" => toRen' = toRen
          /\ pc = "restoring" => toRen' = toRen \o <<RestoreBegin(x)>>
    BY <1>6 DEF Emit
  <2> DEFINE h == [handler[d] EXCEPT !.pc = pc]
             w == IF pc = "saving" THEN <<>> ELSE <<RestoreBegin(x)>>
  <2>2. handler' = [handler EXCEPT ![d] = h]
    BY <1>1, <2>1 DEF Suspend
  <2>3. h \in Handlers /\ h.pc = pc /\ h.rid = x
    BY <1>1 DEF Handlers, RestorePcs
  <2>4. RestoreBegin(x) \in Messages
    BY <1>2, RestoreMessages DEF Statuses
  <2>5. w \in Seq(Messages) /\ toRen' = toRen \o w
    BY <1>1, <2>1, <2>4, Silence, Single
  <2>6. \/ pc = "saving" /\ w = <<>>
        \/ pc = "restoring" /\ w = <<RestoreBegin(x)>>
    OBVIOUS
  <2> HIDE DEF h, w
  <2> QED BY <1>1, <1>2, <1>4, <1>6, <2>2, <2>3, <2>5, <2>6, RestoreMoves
<1> QED BY <1>1, <1>5, <1>6 DEF ValidateRestore

LEMMA SaveSteps ==
  ASSUME Base, NEW d \in Requests, SaveRollback(d), UNCHANGED renVars
  PROVE  (\E w : Step(d, w)) /\ TypeOK'
<1> DEFINE x == handler[d].rid
           h == [handler[d] EXCEPT !.pc = "restoring", !.saved = [model |-> model, param |-> param]]
           w == <<RestoreBegin(x)>>
<1>1. /\ StateOK /\ toRen \in Seq(Messages) /\ handler \in [Requests -> Handlers]
      /\ handler[d].pc = "saving"
  BY Types DEF Base, StateOK, SaveRollback
<1>2. d \in Restores /\ x \in RestoreIds
  BY <1>1, KindOf DEF Base
<1>3. /\ UNCHANGED <<toSim, bindingState, modelState, syncedItems, applied, thrown>>
      /\ handler' = [handler EXCEPT ![d] = h] /\ toRen' = toRen \o w
  BY <1>1 DEF SaveRollback, Emit
<1>4. h \in Handlers /\ h.pc = "restoring" /\ h.rid = x
  BY <1>1 DEF Handlers, RestorePcs, StateOK
<1>5. w \in Seq(Messages)
  BY <1>2, RestoreMessages, Single DEF Statuses
<1>6. w = <<RestoreBegin(x)>>
  OBVIOUS
<1> HIDE DEF h, w
<1> QED BY <1>1, <1>2, <1>3, <1>4, <1>5, <1>6, RestoreMoves DEF bindingState

LEMMA SaveThrowsSteps ==
  ASSUME Base, NEW d \in Requests, SaveThrows(d), UNCHANGED renVars
  PROVE  (\E w : Step(d, w)) /\ TypeOK'
<1> DEFINE x == handler[d].rid
           w == <<RestoreBegin(x)>> \o <<RestoreEnd(x, "failed")>>
<1>1. /\ StateOK /\ toRen \in Seq(Messages) /\ handler \in [Requests -> Handlers]
      /\ handler[d].pc = "saving"
  BY Types DEF Base, StateOK, SaveThrows
<1>2. d \in Restores /\ x \in RestoreIds /\ Running(d) /\ Early(d) /\ Engaged(d)
  BY <1>1, KindOf DEF Base, Running, Early, Engaged
<1>3. /\ UNCHANGED <<toSim, modelState, initialized, actionInFlight, syncedItems, applied, thrown>>
      /\ Return(d) /\ toRen' = toRen \o w /\ activeTransaction' = None
      /\ restoreResults' = [restoreResults EXCEPT ![x] = "failed"]
  BY DEF SaveThrows, EndRestore, Emit
<1>4. w = <<RestoreBegin(x), RestoreEnd(x, "failed")>>
  <2> DEFINE b == RestoreBegin(x)
             e == RestoreEnd(x, "failed")
  <2>0. b \in Messages /\ e \in Messages
    BY <1>2, RestoreMessages DEF Statuses
  <2> HIDE DEF b, e
  <2>1. <<b>> \o <<e>> = <<b, e>>
    <3>1. <<b>> \in Seq(Messages) /\ <<e>> \in Seq(Messages) /\ <<b, e>> \in Seq(Messages)
          /\ Len(<<b>>) = 1 /\ Len(<<e>>) = 1 /\ Len(<<b, e>>) = 2
          /\ <<b>>[1] = b /\ <<e>>[1] = e /\ <<b, e>>[1] = b /\ <<b, e>>[2] = e
      BY <2>0
    <3> DEFINE p == <<b>>
               q == <<e>>
               r == <<b, e>>
    <3> HIDE DEF p, q, r
    <3>2. p \o q \in Seq(Messages) /\ Len(p \o q) = 2 /\ (p \o q)[1] = b /\ (p \o q)[2] = e
      BY <3>1, Appended DEF p, q
    <3>3. p \o q = r
      <4>1. r \in Seq(Messages) /\ Len(r) = 2 /\ r[1] = b /\ r[2] = e
        BY <3>1 DEF r
      <4> QED BY <3>2, <4>1, SeqEqual
    <3> QED BY <3>3 DEF p, q, r
  <2> QED BY <2>1 DEF b, e
<1>5. model' \in SUBSET Items /\ param' \in Values
  BY <1>1, <1>3 DEF StateOK, modelState
<1> HIDE DEF w, x
<1>6. handler[d].rid = x
  BY DEF x
<1> QED BY <1>1, <1>2, <1>3, <1>4, <1>5, <1>6, EndRestoreStep DEF Statuses

LEMMA ApplyRestoreSteps ==
  ASSUME Base, NEW d \in Requests, ApplyRestore(d), UNCHANGED renVars
  PROVE  (\E w : Step(d, w)) /\ TypeOK'
<1> DEFINE x == handler[d].rid
           h == [handler[d] EXCEPT !.pc = "reconciling"]
           w == <<>>
<1>1. /\ StateOK /\ toSim \in Seq(Calls) /\ toRen \in Seq(Messages) /\ handler \in [Requests -> Handlers]
      /\ handler[d].pc = "restoring"
  BY Types DEF Base, StateOK, ApplyRestore
<1>2. d \in Restores /\ x \in RestoreIds /\ Running(d) /\ Engaged(d)
  BY <1>1, KindOf DEF Base, Running, Engaged
<1>3. ~Called(d) /\ ~Early(d) /\ d \in Ops /\ d \notin Syncs /\ d \notin Actions /\ d \notin Captures /\ d \notin ParamChanges
  BY <1>1, <1>2, RestoreAt, OneKind DEF Early
<1>4. /\ UNCHANGED <<toSim, toRen, bindingState, syncedItems, thrown>>
      /\ handler' = [handler EXCEPT ![d] = h] /\ model' \in SUBSET Items /\ param' \in Values
      /\ applied' = [applied EXCEPT ![x] = @ + 1]
  BY <1>1 DEF ApplyRestore, Suspend
<1>5. h \in Handlers /\ h.pc = "reconciling" /\ h.rid = x
  BY <1>1 DEF Handlers, RestorePcs
<1> HIDE DEF h
<1>6. /\ handler' \in [Requests -> Handlers] /\ handler'[d] = h
      /\ \A e \in Requests : e # d => handler'[e] = handler[e]
  BY <1>1, <1>4, <1>5
<1>7. applied' \in [RestoreIds -> Nat]
  BY <1>1, <1>2, <1>4 DEF StateOK
<1> HIDE DEF x
<1>8. StateOK' /\ TypeOK'
  <2>1. StateOK'
    BY <1>1, <1>4, <1>7 DEF StateOK, bindingState
  <2> QED BY <2>1, <1>1, <1>4, <1>6, SimTypes DEF Base, SimTypeOK, StateOK
<1>9. toRen' = toRen \o w /\ w \in Seq(Messages) /\ Words(d, w) /\ NoItems(w)
  BY <1>1, <1>4, Silence
<1> HIDE DEF w
<1>10. Running(d)' /\ Engaged(d)'
  BY <1>5, <1>6 DEF Running, Engaged
<1>11. Turn(d, w)
  BY <1>2, <1>4, <1>5, <1>6, <1>9 DEF Turn
<1>12. Answers(d, w)
  BY <1>3, <1>4, <1>5, <1>6 DEF Answers
<1>13. RidOf(d, handler'[d].rid)
  BY <1>2, <1>5, <1>6 DEF RidOf, x
<1>14. Path(d)
  BY <1>2, <1>5, <1>6, <1>13 DEF Path
<1>15. Flags(d)
  BY <1>2, <1>4, <1>10 DEF Flags, bindingState
<1>16. Marks(d)
  <2>1. restoreResults' = restoreResults /\ applied' = [applied EXCEPT ![handler[d].rid] = @ + 1]
    BY <1>4 DEF bindingState, x
  <2>2. handler'[d].pc = "reconciling" /\ handler'[d].rid = handler[d].rid
    BY <1>5, <1>6 DEF x
  <2> QED BY <1>1, <1>2, <2>1, <2>2 DEF Marks, Trying
<1>17. Pushes(d, w) /\ Fits(d)'
  BY <1>1, <1>2, <1>3, <1>4, <1>5, <1>6, <1>9 DEF Pushes, Fits, RestorePcs, x
<1> QED BY <1>8, <1>9, <1>11, <1>12, <1>14, <1>15, <1>16, <1>17 DEF Step

LEMMA ReconcileSteps ==
  ASSUME Base, NEW d \in Requests, ReconcileRestore(d), UNCHANGED renVars
  PROVE  (\E w : Step(d, w)) /\ TypeOK'
<1> DEFINE m == ParamMessage("param_update", param)
           v == <<m>>
           u == ItemDelete(syncedItems)
           w == v \o u
<1>1. /\ StateOK /\ toRen \in Seq(Messages) /\ handler \in [Requests -> Handlers]
      /\ handler[d].pc = "reconciling"
  BY Types DEF Base, StateOK, ReconcileRestore
<1>2. d \in Restores /\ Running(d) /\ Engaged(d)
  BY <1>1, KindOf DEF Base, Running, Engaged
<1>3. d \in Ops /\ d \notin Syncs /\ d \notin Actions
  BY <1>2, RestoreAt
<1>4. m \in Messages /\ m.type = "param_update" /\ Aside(m)
  BY <1>1 DEF ParamMessage, Messages, Aside, StateOK
<1>5. u \in Seq(Messages) /\ \A k \in 1 .. Len(u) : u[k].type \in ItemWords
  BY <1>1, ItemMessages DEF StateOK, ItemWords
<1>6. /\ Suspend(d, "pushing") /\ toRen' = toRen \o w /\ syncedItems' = {}
      /\ UNCHANGED <<toSim, bindingState, modelState, applied, thrown>>
  BY DEF ReconcileRestore, Emit
<1> HIDE DEF m, u
<1>7. v \in Seq(Messages) /\ Len(v) = 1 /\ v[1] = m
  BY <1>4, Single
<1>8. NoItems(v)
  BY <1>4, <1>7 DEF NoItems, ItemWords
<1> HIDE DEF v
<1>9. w \in Seq(Messages) /\ \A k \in 1 .. Len(w) : w[k] = m \/ w[k].type \in ItemWords
  BY <1>5, <1>7, Appended
<1>10. Words(d, w)
  <2> HIDE DEF w
  <2> QED BY <1>4, <1>9, Asides DEF Aside
<1>11. \E vv \in Seq(Messages) : w = vv \o ItemDelete(syncedItems) /\ NoItems(vv)
  BY <1>7, <1>8 DEF u
<1> HIDE DEF w
<1>12. StateOK'
  BY <1>1, <1>6 DEF StateOK, bindingState, modelState
<1> QED
  BY <1>1, <1>2, <1>3, <1>6, <1>9, <1>10, <1>11, <1>12, SuspendsStep
  DEF Trying, RestorePcs, PushPcs, bindingState

\* The common end of a restore that has begun.
LEMMA EndSteps ==
  ASSUME Base, NEW d \in Restores, Engaged(d), handler[d].pc \notin {"pushed", "saving"},
         NEW status \in {"ok", "failed"}, EndRestore(d, status, <<>>), UNCHANGED renVars,
         UNCHANGED applied, model' \in SUBSET Items, param' \in Values
  PROVE  (\E w : Step(d, w)) /\ TypeOK'
<1> DEFINE x == handler[d].rid
           e == RestoreEnd(x, status)
<1>1. /\ StateOK /\ toRen \in Seq(Messages) /\ handler \in [Requests -> Handlers] /\ d \in Requests
  BY Types DEF Base, StateOK, Requests
<1>2. Running(d)
  BY DEF Engaged
<1>3. x \in RestoreIds /\ ~Called(d)
  BY <1>1, <1>2, RestoreAt
<1>4. ~Early(d)
  BY <1>3 DEF Early, Engaged
<1>5. /\ Return(d) /\ toRen' = toRen \o (<<>> \o <<e>>) /\ activeTransaction' = None
      /\ UNCHANGED <<toSim, initialized, actionInFlight, syncedItems, thrown>>
      /\ restoreResults' = [restoreResults EXCEPT ![x] = status]
  BY DEF EndRestore, Emit
<1>6. e \in Messages
  BY <1>3, RestoreMessages DEF Statuses
<1>7. toRen' = toRen \o <<e>>
  <2> HIDE DEF e
  <2>1. <<>> \o <<e>> = <<e>>
    OBVIOUS
  <2> QED BY <1>5, <2>1
<1>8. handler[d].rid = x
  OBVIOUS
<1> HIDE DEF x
<1>9. status \in Statuses /\ status # "rejected"
  BY DEF Statuses
<1> QED BY <1>2, <1>3, <1>4, <1>5, <1>7, <1>8, <1>9, EndRestoreStep DEF e

LEMMA FinishRestoreSteps ==
  ASSUME Base, NEW d \in Requests, FinishRestore(d), UNCHANGED renVars
  PROVE  (\E w : Step(d, w)) /\ TypeOK'
<1>1. d \in Restores /\ handler[d].pc = "pushedAll" /\ Engaged(d)
  BY DEF FinishRestore, Engaged, Running
<1>2. UNCHANGED applied /\ model' \in SUBSET Items /\ param' \in Values
  BY Types DEF FinishRestore, modelState, Base
<1> QED BY <1>1, <1>2, EndSteps DEF FinishRestore

LEMMA RestoreThrowsSteps ==
  ASSUME Base, NEW d \in Requests, RestoreThrows(d), UNCHANGED renVars
  PROVE  (\E w : Step(d, w)) /\ TypeOK'
<1>1. /\ d \in Restores /\ handler[d].pc \in {"restoring", "pushing", "pushedAll"} /\ Engaged(d)
      /\ UNCHANGED applied
  BY DEF RestoreThrows, Engaged, Running
<1>2. model' \in SUBSET Items /\ param' \in Values
  BY Types DEF RestoreThrows, modelState, Base
<1>3. CASE EndRestore(d, "failed", <<>>)
  BY <1>1, <1>2, <1>3, EndSteps
<1>4. CASE /\ Suspend(d, "rollingBack")
           /\ UNCHANGED <<toSim, toRen, bindingState, syncedItems, thrown>>
           /\ handler[d].saved # None
  <2>1. StateOK /\ toRen \in Seq(Messages)
    BY Types DEF Base, StateOK
  <2>2. d \in Ops /\ d \notin Syncs /\ d \notin Actions
    BY <1>1, RestoreAt DEF Engaged
  <2>3. toRen' = toRen \o <<>>
    BY <1>4, <2>1, Silence
  <2>4. StateOK'
    BY <1>1, <1>2, <1>4, <2>1 DEF StateOK, bindingState
  <2> QED
    BY <1>1, <1>4, <2>1, <2>2, <2>3, <2>4, SuspendsStep, Silence DEF Trying, RestorePcs, bindingState
<1> QED BY <1>3, <1>4 DEF RestoreThrows

LEMMA RollBackSteps ==
  ASSUME Base, NEW d \in Requests, RollBack(d), UNCHANGED renVars
  PROVE  (\E w : Step(d, w)) /\ TypeOK'
<1>1. handler[d].pc = "rollingBack" /\ handler \in [Requests -> Handlers] /\ Engaged(d) /\ d \in Restores
  BY Types, KindOf DEF RollBack, Base, Engaged, Running
<1>2. handler[d].saved \in [model : SUBSET Items, param : Values]
  BY <1>1, HandlerFields DEF Base, Placed, Fits
<1>3. EndRestore(d, "failed", <<>>) /\ UNCHANGED applied
  BY DEF RollBack
<1>4. model' \in SUBSET Items /\ param' \in Values
  BY <1>2, Types DEF RollBack, modelState, Base
<1> QED BY <1>1, <1>3, <1>4, EndSteps

-----------------------------------------------------------------------------
(* The handlers' first steps.                                              *)

LEMMA Arrived ==
  ASSUME Base, NEW d \in Requests, NEW m, Dispatch(d, m)
  PROVE  /\ toSim # <<>> /\ m = toSim[1] /\ m \in Calls /\ m.at = d /\ toSim' = Tail(toSim)
         /\ handler[d].pc = "idle" /\ ~Running(d) /\ ~Engaged(d) /\ Called(d)
         /\ RidOf(d, m.rid)
<1>1. toSim \in Seq(Calls)
  BY Types DEF Base
<1>2. toSim # <<>> /\ m = toSim[1] /\ m.at = d /\ toSim' = Tail(toSim)
  BY <1>1 DEF Dispatch
<1>3. 1 \in 1 .. Len(toSim) /\ m \in Calls
  BY <1>1, <1>2
<1>4. handler[d].pc = "idle"
  BY <1>2, <1>3 DEF Base, Queued
<1> QED BY <1>2, <1>3, <1>4 DEF Running, Engaged, Called, RidOf

\* A request is taken up ...
LEMMA StartsStep ==
  ASSUME Base, NEW d \in Requests, NEW m, Dispatch(d, m), UNCHANGED renVars, StateOK',
         NEW h \in Handlers, handler' = [handler EXCEPT ![d] = h],
         \/ d \in Syncs /\ h.pc \in {"initializing", "replaying"} /\ activeTransaction' = "state_sync"
            /\ ~isBusy /\ UNCHANGED actionInFlight
         \/ d \in Actions /\ h.pc \in {"stepping", "resetting", "hooking"} /\ actionInFlight' = TRUE
            /\ ~isBusy /\ UNCHANGED activeTransaction
         \/ d \in Restores /\ h.pc = "validating" /\ h.rid = m.rid /\ restoreResults[m.rid] = None
            /\ UNCHANGED <<activeTransaction, actionInFlight>>
         \/ d \in ParamChanges /\ h.pc = "applying" /\ UNCHANGED <<activeTransaction, actionInFlight>>
         \/ d \in Captures /\ h.pc = "capturing" /\ UNCHANGED <<activeTransaction, actionInFlight>>,
         UNCHANGED <<restoreResults, applied, thrown>>,
         NEW w \in Seq(Messages), toRen' = toRen \o w, Words(d, w), Pushes(d, w)
  PROVE  Step(d, w) /\ TypeOK'
<1>1. /\ toSim \in Seq(Calls) /\ toRen \in Seq(Messages) /\ handler \in [Requests -> Handlers]
  BY Types DEF Base
<1>2. /\ toSim # <<>> /\ m = toSim[1] /\ m.at = d /\ toSim' = Tail(toSim) /\ m \in Calls
      /\ handler[d].pc = "idle" /\ ~Running(d) /\ ~Engaged(d) /\ Called(d) /\ RidOf(d, m.rid)
  BY Arrived
<1>3. /\ handler' \in [Requests -> Handlers] /\ handler'[d] = h
      /\ \A e \in Requests : e # d => handler'[e] = handler[e]
  BY <1>1
<1>4. toRen' \in Seq(Messages) /\ toSim' \in Seq(Calls)
  BY <1>1, <1>2, Appended
<1>5. TypeOK'
  BY <1>3, <1>4, SimTypes DEF Base, SimTypeOK, StateOK
<1>6. h.pc # "idle" /\ h.pc # "done" /\ h.pc # "saving" /\ h.pc # "rollingBack"
  OBVIOUS
<1>7. Turn(d, w)
  BY <1>2, <1>3, <1>6 DEF Turn
<1>8. Running(d)'
  BY <1>3, <1>6 DEF Running
<1>9. d \in Restores => h.pc = "validating" /\ h.rid = m.rid /\ restoreResults[m.rid] = None
  BY OneKind
<1>10. Answers(d, w)
  BY <1>3, <1>6, <1>9 DEF Answers
<1>11. d \in Ops /\ Engaged(d)' => ~isBusy
  BY <1>3, OneKind DEF Ops, Engaged
<1>12. Path(d)
  BY <1>2, <1>3, <1>6, <1>9, <1>11 DEF Path
<1>13. d \notin Restores /\ d \notin ParamChanges /\ d \notin Captures => d \in Ops /\ Engaged(d)'
  BY <1>3, <1>8, OneKind DEF Ops, Engaged
<1>14. Flags(d)
  <2>1. Engaged(d)' => d \notin Restores
    BY <1>3, <1>9 DEF Engaged
  <2> QED BY <1>13, <2>1, OneKind DEF Flags
<1>15. Marks(d)
  BY <1>2, <1>3, <1>9 DEF Marks
<1>16. d \in Restores => m.rid \in RestoreIds
  BY <1>2, CallFields
<1>17. Fits(d)'
  BY <1>3, <1>6, <1>9, <1>16, OneKind DEF Fits, SyncPcs, ActionPcs, RestorePcs
<1> QED BY <1>5, <1>7, <1>10, <1>12, <1>14, <1>15, <1>17 DEF Step

\* ... or refused.
LEMMA RefusesStep ==
  ASSUME Base, NEW d \in Requests, NEW c, Dispatch(d, c), Return(d), UNCHANGED renVars,
         NEW m \in Messages, toRen' = toRen \o <<m>>,
         \/ d \in Syncs /\ m.type = "error" /\ m.id = d
         \/ d \in Actions /\ m.type = "action_result" /\ m.id = d
         \/ d \in Captures /\ m.type = "error" /\ m.id = d
         \/ d \in ParamChanges /\ m.type = "error" /\ m.id = None
         \/ d \in Actions /\ m.type = "error" /\ m.id = None /\ d \in thrown',
         UNCHANGED <<bindingState, modelState, syncedItems, applied>>,
         thrown' = thrown \/ (d \in Actions /\ thrown' = thrown \union {d})
  PROVE  Step(d, <<m>>) /\ TypeOK'
<1>1. /\ StateOK /\ toRen \in Seq(Messages) /\ handler \in [Requests -> Handlers]
  BY Types DEF Base, StateOK
<1>2. /\ toSim # <<>> /\ toSim[1].at = d /\ toSim' = Tail(toSim)
      /\ handler[d].pc = "idle" /\ ~Running(d)
  BY Arrived
<1>3. <<m>> \in Seq(Messages) /\ Len(<<m>>) = 1 /\ <<m>>[1] = m
  BY Single
<1>4. handler'[d].pc = "done"
  BY <1>1, Returned
<1>5. d \notin Restores
  BY OneKind
<1>6. Words(d, <<m>>)
  <2>1. \/ m.type = "action_result" /\ m.id = d
        \/ m.type = "error" /\ m.id = d
        \/ Aside(m)
    BY OneKind DEF Aside, Requests
  <2> QED BY <1>2, <1>4, <2>1, LastWord
<1>7. NoItems(<<m>>)
  BY <1>3 DEF NoItems, ItemWords
<1>8. d \in Actions => d \in thrown' \/ \E k \in 1 .. Len(<<m>>) : OfAction(<<m>>[k], d)
  BY <1>3, OneKind DEF OfAction
<1>9. d \in Captures => \E k \in 1 .. Len(<<m>>) : OfCapture(<<m>>[k], d)
  BY <1>3, OneKind DEF OfCapture
<1>10. StateOK'
  BY <1>1 DEF StateOK, bindingState, modelState
<1>11. UNCHANGED <<activeTransaction, actionInFlight, restoreResults>>
  BY DEF bindingState
<1> QED BY <1>2, <1>3, <1>5, <1>6, <1>7, <1>8, <1>9, <1>10, <1>11, ReturnsStep

LEMMA OnStateSyncSteps ==
  ASSUME Base, NEW d \in Requests, NEW c, OnStateSync(d, c), UNCHANGED renVars
  PROVE  (\E w : Step(d, w)) /\ TypeOK'
<1>1. /\ StateOK /\ toRen \in Seq(Messages) /\ handler \in [Requests -> Handlers]
      /\ d \in Syncs /\ Dispatch(d, c)
  BY Types DEF Base, StateOK, OnStateSync
<1>2. handler[d].pc = "idle"
  BY <1>1, Arrived
<1>3. UNCHANGED <<initialized, actionInFlight, restoreResults, modelState, applied, thrown>>
  BY DEF OnStateSync
<1>4. CASE isBusy
  <2>1. Error(d) \in Messages /\ Error(d).type = "error" /\ Error(d).id = d
    BY <1>1 DEF Error, Note, Messages
  <2>2. /\ toRen' = toRen \o <<Error(d)>> /\ Return(d)
        /\ UNCHANGED <<bindingState, modelState, syncedItems, applied, thrown>>
    BY <1>4 DEF OnStateSync, Emit, bindingState
  <2> DEFINE m == Error(d)
  <2> HIDE DEF m
  <2>3. Step(d, <<m>>) /\ TypeOK'
    BY <1>1, <2>1, <2>2, RefusesStep DEF m
  <2> QED BY <2>3
<1>5. CASE ~isBusy
  <2>1. PICK pc \in {"initializing", "replaying"} :
          /\ Suspend(d, pc)
          /\ pc = "replaying" => toRen' = toRen \o <<Note("state_sync_begin", d)>>
          /\ pc = "initializing" => toRen' = toRen
    BY <1>5 DEF OnStateSync, Emit
  <2>2. activeTransaction' = "state_sync" /\ syncedItems' = {}
    BY <1>5 DEF OnStateSync
  <2> DEFINE h == [handler[d] EXCEPT !.pc = pc]
             m == Note("state_sync_begin", d)
             w == IF pc = "replaying" THEN <<m>> ELSE <<>>
  <2>3. handler' = [handler EXCEPT ![d] = h]
    BY <1>1, <2>1 DEF Suspend
  <2>4. h \in Handlers /\ h.pc = pc
    BY <1>1 DEF Handlers, SyncPcs
  <2>5. m \in Messages /\ m.type = "state_sync_begin" /\ m.id = d
    BY <1>1 DEF Note, Messages
  <2>6. /\ pc = "replaying" => toRen' = toRen \o <<m>>
        /\ pc = "initializing" => toRen' = toRen
    BY <2>1
  <2> HIDE DEF h, m
  <2>7. handler'[d] = h
    BY <1>1, <2>3
  <2>8. w \in Seq(Messages) /\ toRen' = toRen \o w /\ Words(d, w) /\ NoItems(w)
    <3>1. CASE pc = "initializing"
      BY <1>1, <2>6, <3>1, Silence
    <3>2. CASE pc = "replaying"
      <4>1. <<m>> \in Seq(Messages) /\ Len(<<m>>) = 1 /\ <<m>>[1] = m
        BY <2>5, Single
      <4>2. Words(d, <<m>>)
        BY <2>2, <2>4, <2>5, <2>7, <3>2, <4>1
        DEF Words, Word, OfSync, BeginOf, EndOf, ErrorOf, OfAction, OfRestore, Restoring
      <4> QED BY <2>5, <2>6, <3>2, <4>1, <4>2 DEF NoItems, ItemWords
    <3> QED BY <3>1, <3>2
  <2> HIDE DEF w
  <2>9. Pushes(d, w)
    BY <1>1, <1>2, <2>2, <2>4, <2>7, <2>8 DEF Pushes
  <2>10. StateOK'
    BY <1>1, <1>3, <2>2 DEF StateOK, modelState
  <2> QED BY <1>1, <1>3, <1>5, <2>2, <2>3, <2>4, <2>8, <2>9, <2>10, StartsStep
<1> QED BY <1>4, <1>5

LEMMA OnParamChangeSteps ==
  ASSUME Base, NEW d \in Requests, NEW c, OnParamChange(d, c), UNCHANGED renVars
  PROVE  (\E w : Step(d, w)) /\ TypeOK'
<1>1. /\ StateOK /\ toRen \in Seq(Messages) /\ handler \in [Requests -> Handlers]
      /\ d \in ParamChanges /\ Dispatch(d, c)
      /\ UNCHANGED <<bindingState, modelState, syncedItems, applied, thrown>>
  BY Types DEF Base, StateOK, OnParamChange
<1>2. handler[d].pc = "idle" /\ c \in Calls /\ c.at = d
  BY <1>1, Arrived
<1>3. CASE isBusy
  <2> DEFINE m == Error(None)
  <2>1. m \in Messages /\ m.type = "error" /\ m.id = None
    BY DEF Error, Note, Messages
  <2>2. toRen' = toRen \o <<m>> /\ Return(d)
    BY <1>3 DEF OnParamChange, Emit
  <2> HIDE DEF m
  <2>3. Step(d, <<m>>) /\ TypeOK'
    BY <1>1, <2>1, <2>2, RefusesStep
  <2> QED BY <2>3
<1>4. CASE ~isBusy
  <2> DEFINE h == [handler[d] EXCEPT !.pc = "applying", !.value = c.value]
  <2>1. handler' = [handler EXCEPT ![d] = h] /\ UNCHANGED toRen
    BY <1>1, <1>4 DEF OnParamChange
  <2>2. c.value \in Values
    BY <1>1, <1>2, CallFields
  <2>3. h \in Handlers /\ h.pc = "applying"
    BY <1>1, <2>2 DEF Handlers
  <2> HIDE DEF h
  <2>4. handler'[d] = h /\ toRen' = toRen \o <<>>
    BY <1>1, <2>1, Silence
  <2>5. Pushes(d, <<>>)
    BY <1>1, <1>2, <2>3, <2>4, Silence DEF Pushes
  <2>6. StateOK'
    BY <1>1 DEF StateOK, bindingState, modelState
  <2> QED BY <1>1, <2>1, <2>3, <2>4, <2>5, <2>6, StartsStep, Silence DEF bindingState
<1> QED BY <1>3, <1>4

LEMMA OnActionInvokeSteps ==
  ASSUME Base, NEW d \in Requests, NEW c, OnActionInvoke(d, c), UNCHANGED renVars
  PROVE  (\E w : Step(d, w)) /\ TypeOK'
<1>1. /\ StateOK /\ toRen \in Seq(Messages) /\ handler \in [Requests -> Handlers]
      /\ d \in Actions /\ Dispatch(d, c)
      /\ UNCHANGED <<initialized, activeTransaction, restoreResults, modelState, applied>>
  BY Types DEF Base, StateOK, OnActionInvoke
<1>2. handler[d].pc = "idle"
  BY <1>1, Arrived
<1>3. ASSUME NEW m \in Messages, Return(d), toRen' = toRen \o <<m>>,
             UNCHANGED <<actionInFlight, syncedItems>>,
             \/ m.type = "action_result" /\ m.id = d /\ thrown' = thrown
             \/ m.type = "error" /\ m.id = None /\ thrown' = thrown \union {d}
      PROVE  (\E w : Step(d, w)) /\ TypeOK'
  <2>1. Step(d, <<m>>) /\ TypeOK'
    BY <1>1, <1>3, RefusesStep DEF bindingState
  <2> QED BY <2>1
<1>4. CASE isBusy \/ c.kind = "invalid"
  <2>1. /\ ActionResult(d) \in Messages /\ ActionResult(d).type = "action_result"
        /\ ActionResult(d).id = d
    BY <1>1 DEF ActionResult, Note, Messages
  <2>2. Error(None) \in Messages /\ Error(None).type = "error" /\ Error(None).id = None
    BY DEF Error, Note, Messages
  <2>3. /\ Return(d) /\ UNCHANGED <<actionInFlight, syncedItems>>
        /\ \/ toRen' = toRen \o <<ActionResult(d)>> /\ thrown' = thrown
           \/ toRen' = toRen \o <<Error(None)>> /\ thrown' = thrown \union {d}
    BY <1>4 DEF OnActionInvoke, Emit
  <2> QED BY <1>3, <2>1, <2>2, <2>3
<1>5. CASE ~(isBusy \/ c.kind = "invalid")
  <2> DEFINE u == ItemDelete(syncedItems)
  <2>1. PICK pc \in {"stepping", "resetting", "hooking"} :
          /\ Suspend(d, pc)
          /\ pc # "resetting" => toRen' = toRen /\ syncedItems' = syncedItems
          /\ pc = "resetting" => toRen' = toRen \o u /\ syncedItems' = {}
    BY <1>5 DEF OnActionInvoke, Emit
  <2>2. actionInFlight' = TRUE /\ ~isBusy /\ thrown' = thrown
    BY <1>5 DEF OnActionInvoke
  <2>3. u \in Seq(Messages) /\ \A k \in 1 .. Len(u) : u[k].type \in ItemWords
    BY <1>1, ItemMessages DEF StateOK, ItemWords
  <2>4. u = <<>> \o u
    <3> HIDE DEF u
    <3> QED BY <2>3
  <2> DEFINE h == [handler[d] EXCEPT !.pc = pc]
             w == IF pc = "resetting" THEN u ELSE <<>>
  <2>5. handler' = [handler EXCEPT ![d] = h]
    BY <1>1, <2>1 DEF Suspend
  <2>6. h \in Handlers /\ h.pc = pc
    BY <1>1 DEF Handlers, ActionPcs
  <2> HIDE DEF h
  <2>7. handler'[d] = h
    BY <1>1, <2>5
  <2>8. Words(d, u)
    <3> HIDE DEF u
    <3> QED BY <2>3, Asides DEF Aside
  <2>9. w \in Seq(Messages) /\ toRen' = toRen \o w /\ Words(d, w)
    BY <1>1, <2>1, <2>3, <2>8, Silence
  <2>10. Engaged(d)' /\ d \in Ops
    BY <1>1, <2>6, <2>7 DEF Engaged, Running, Ops
  <2>11. Pushes(d, w)
    <3>1. CASE pc = "resetting"
      <4>1. w = <<>> \o ItemDelete(syncedItems) /\ <<>> \in Seq(Messages) /\ NoItems(<<>>)
        BY <1>1, <2>4, <3>1, Silence
      <4> HIDE DEF w, u
      <4> QED BY <1>2, <2>1, <2>6, <2>7, <2>10, <3>1, <4>1 DEF Pushes
    <3>2. CASE pc # "resetting"
      BY <1>1, <1>2, <2>1, <2>6, <2>7, <3>2, Silence DEF Pushes
    <3> QED BY <3>1, <3>2
  <2> HIDE DEF w
  <2>12. StateOK'
    BY <1>1, <2>1, <2>2 DEF StateOK, modelState
  <2> QED BY <1>1, <2>2, <2>5, <2>6, <2>9, <2>11, <2>12, StartsStep
<1> QED BY <1>4, <1>5

LEMMA OnSceneRestoreSteps ==
  ASSUME Base, NEW d \in Requests, NEW c, OnSceneRestore(d, c), UNCHANGED renVars
  PROVE  (\E w : Step(d, w)) /\ TypeOK'
<1> DEFINE x == c.rid
<1>1. /\ StateOK /\ toRen \in Seq(Messages) /\ handler \in [Requests -> Handlers]
      /\ d \in Restores /\ Dispatch(d, c)
      /\ UNCHANGED <<initialized, activeTransaction, actionInFlight, modelState, syncedItems, applied, thrown>>
  BY Types DEF Base, StateOK, OnSceneRestore
<1>2. /\ handler[d].pc = "idle" /\ c \in Calls /\ c.at = d /\ RidOf(d, x) /\ Called(d) /\ ~Running(d)
      /\ toSim # <<>> /\ toSim[1].at = d /\ toSim' = Tail(toSim)
  BY <1>1, Arrived
<1>3. x \in RestoreIds /\ Early(d) /\ d \notin Actions /\ d \notin Captures
  BY <1>1, <1>2, CallFields, OneKind DEF Early
<1>4. restoreResults[x] \in Statuses \union {None}
  BY <1>1, <1>3 DEF StateOK
<1>5. ASSUME NEW status \in Statuses, Return(d),
             toRen' = toRen \o <<RestoreBegin(x), RestoreEnd(x, status)>>,
             \/ restoreResults[x] = status /\ restoreResults' = restoreResults
             \/ /\ restoreResults[x] = None /\ status = "rejected"
                /\ restoreResults' = [restoreResults EXCEPT ![x] = status]
      PROVE  (\E w : Step(d, w)) /\ TypeOK'
  <2> DEFINE w == <<RestoreBegin(x), RestoreEnd(x, status)>>
  <2>1. handler'[d].pc = "done"
    BY <1>1, <1>5, Returned
  <2>2. status = "failed" => ~NoFailed'
    BY <1>3, <1>5 DEF NoFailed
  <2>3. /\ w \in Seq(Messages) /\ Words(d, w) /\ NoItems(w)
        /\ \E k \in 1 .. Len(w) : w[k].type = "scene_restore_begin"
        /\ \E k \in 1 .. Len(w) : w[k].type = "scene_restore_end"
    BY <1>1, <1>2, <1>3, <2>1, <2>2, RestorePair
  <2>4. toRen' = toRen \o w
    BY <1>5
  <2>5. StateOK'
    BY <1>1, <1>3, <1>5 DEF StateOK, modelState
  <2> HIDE DEF w, x
  <2> QED BY <1>1, <1>2, <1>3, <1>5, <2>3, <2>4, <2>5, ReturnsStep
<1>6. CASE restoreResults[x] # None
  BY <1>4, <1>5, <1>6 DEF OnSceneRestore, Emit
<1>7. CASE restoreResults[x] = None /\ RejectRestore(d, x)
  BY <1>5, <1>7 DEF RejectRestore, Emit, Statuses
<1>8. CASE /\ restoreResults[x] = None /\ UNCHANGED <<toRen, restoreResults>>
           /\ handler' = [handler EXCEPT ![d].pc = "validating", ![d].rid = x]
  <2> DEFINE h == [handler[d] EXCEPT !.pc = "validating", !.rid = x]
  <2>1. handler' = [handler EXCEPT ![d] = h]
    BY <1>1, <1>8
  <2>2. h \in Handlers /\ h.pc = "validating" /\ h.rid = x
    BY <1>1, <1>3 DEF Handlers, RestorePcs
  <2> HIDE DEF h
  <2>3. handler'[d] = h /\ toRen' = toRen \o <<>>
    BY <1>1, <1>8, <2>1, Silence
  <2>4. Pushes(d, <<>>)
    BY <1>1, <1>2, <2>2, <2>3, Silence DEF Pushes
  <2>5. StateOK'
    BY <1>1, <1>8 DEF StateOK, modelState
  <2> QED BY <1>1, <1>8, <2>1, <2>2, <2>3, <2>4, <2>5, StartsStep, Silence
<1> QED BY <1>6, <1>7, <1>8 DEF OnSceneRestore

LEMMA OnSceneCaptureSteps ==
  ASSUME Base, NEW d \in Requests, NEW c, OnSceneCapture(d, c), UNCHANGED renVars
  PROVE  (\E w : Step(d, w)) /\ TypeOK'
<1>1. /\ StateOK /\ toRen \in Seq(Messages) /\ handler \in [Requests -> Handlers]
      /\ d \in Captures /\ Dispatch(d, c)
      /\ UNCHANGED <<bindingState, modelState, syncedItems, applied, thrown>>
  BY Types DEF Base, StateOK, OnSceneCapture
<1>2. handler[d].pc = "idle"
  BY <1>1, Arrived
<1>3. CASE Emit(<<Error(d)>>) /\ Return(d)
  <2> DEFINE m == Error(d)
  <2>1. m \in Messages /\ m.type = "error" /\ m.id = d
    BY <1>1 DEF Error, Note, Messages
  <2>2. toRen' = toRen \o <<m>>
    BY <1>3 DEF Emit
  <2> HIDE DEF m
  <2>3. Step(d, <<m>>) /\ TypeOK'
    BY <1>1, <1>3, <2>1, <2>2, RefusesStep
  <2> QED BY <2>3
<1>4. CASE Suspend(d, "capturing") /\ UNCHANGED toRen
  <2> DEFINE h == [handler[d] EXCEPT !.pc = "capturing"]
  <2>1. handler' = [handler EXCEPT ![d] = h] /\ UNCHANGED toRen
    BY <1>1, <1>4 DEF Suspend
  <2>2. h \in Handlers /\ h.pc = "capturing"
    BY <1>1 DEF Handlers
  <2> HIDE DEF h
  <2>3. handler'[d] = h /\ toRen' = toRen \o <<>>
    BY <1>1, <2>1, Silence
  <2>4. Pushes(d, <<>>)
    BY <1>1, <1>2, <2>2, <2>3, Silence DEF Pushes
  <2>5. StateOK'
    BY <1>1 DEF StateOK, bindingState, modelState
  <2> QED BY <1>1, <2>1, <2>2, <2>3, <2>4, <2>5, StartsStep, Silence DEF bindingState
<1> QED BY <1>3, <1>4 DEF OnSceneCapture

\* Every step of the simulator is a step in this sense.
LEMMA SimulatorSteps ==
  ASSUME Base, Dispatched \/ Resumed
  PROVE  (\E d, w : Step(d, w)) /\ TypeOK'
<1>1. UNCHANGED renVars
  BY DEF Dispatched, Resumed
<1>2. CASE Dispatched
  <2> DEFINE c == Head(toSim)
  <2>1. PICK d \in Requests :
          OnStateSync(d, c) \/ OnParamChange(d, c) \/ OnActionInvoke(d, c)
            \/ OnSceneRestore(d, c) \/ OnSceneCapture(d, c)
    BY <1>2 DEF Dispatched, DispatchMessage
  <2> HIDE DEF c
  <2> QED
    BY <1>1, <2>1, OnStateSyncSteps, OnParamChangeSteps, OnActionInvokeSteps, OnSceneRestoreSteps,
       OnSceneCaptureSteps
<1>3. CASE Resumed
  <2>1. PICK d \in Requests : Resume(d)
    BY <1>3 DEF Resumed
  <2> QED
    BY <1>1, <2>1, PushItemsSteps, SetBaselineSteps, InitializeSteps, ReplaySteps, RunHookSteps,
       FinishSyncSteps, SyncThrowsSteps, ApplyParameterSteps, AnswerActionSteps, AnswerCaptureSteps,
       ValidateSteps, SaveSteps, SaveThrowsSteps, ApplyRestoreSteps, ReconcileSteps,
       FinishRestoreSteps, RestoreThrowsSteps, RollBackSteps
    DEF Resume
<1> QED BY <1>2, <1>3

-----------------------------------------------------------------------------
(* A step of the simulator preserves the invariant.                        *)

LEMMA RenvarsKept ==
  ASSUME UNCHANGED renVars
  PROVE  /\ unsent' = unsent /\ scene' = scene /\ transaction' = transaction
         /\ activeRequest' = activeRequest /\ (syncRequired' <=> syncRequired)
         /\ runAction' = runAction
         /\ \A kind, id : Asks(kind, id)' <=> Asks(kind, id)
         /\ \A kind : Asking(kind)' <=> Asking(kind)
         /\ Shown' = Shown
BY DEF renVars, Asks, Asking, Shown

\* d's request is taken out of the queue, or d is at work already.
LEMMA TurnQueue ==
  ASSUME Base, TypeOK', NEW d, NEW w, Turn(d, w)
  PROVE  \E j \in {0, 1} :
           /\ Len(toSim) \in Nat /\ Len(toSim') \in Nat /\ Len(toSim) = Len(toSim') + j
           /\ \A k \in 1 .. Len(toSim') : toSim'[k] = toSim[k + j]
           /\ j = 1 => 1 \in 1 .. Len(toSim) /\ toSim[1].at = d /\ handler[d].pc = "idle"
           /\ j = 0 => Running(d) /\ ~Called(d) /\ toSim' = toSim
<1>1. toSim \in Seq(Calls)
  BY Types DEF Base
<1>2. CASE Running(d) /\ toSim' = toSim
  <2>1. ~Called(d)
    BY <1>2 DEF Base, Queued, Called, Running
  <2> QED BY <1>1, <1>2, <2>1
<1>3. CASE toSim # <<>> /\ toSim[1].at = d /\ toSim' = Tail(toSim) /\ handler[d].pc = "idle"
  <2>1. /\ Len(toSim') = Len(toSim) - 1 /\ \A k \in 1 .. Len(toSim') : toSim'[k] = toSim[k + 1]
        /\ Len(toSim) \in Nat /\ Len(toSim') \in Nat /\ 1 \in 1 .. Len(toSim)
    BY <1>1, <1>3
  <2>2. Len(toSim) = Len(toSim') + 1
    BY <2>1
  <2> WITNESS 1 \in {0, 1}
  <2> QED BY <1>3, <2>1, <2>2
<1> QED BY <1>2, <1>3 DEF Turn

LEMMA TurnCalls ==
  ASSUME Base, TypeOK', NEW d, NEW w, Turn(d, w)
  PROVE  /\ Open(d) /\ ~Called(d)'
         /\ \A e : Called(e)' => Called(e)
         /\ \A e : e # d => (Called(e) => Called(e)')
         /\ handler[d].pc = "idle" => Called(d)
         /\ \A e, x : (\E k \in 1 .. Len(toSim') : toSim'[k].at = e /\ toSim'[k].rid = x) => RidOf(e, x)
         /\ \A e, x : e # d => ((\E k \in 1 .. Len(toSim) : toSim[k].at = e /\ toSim[k].rid = x) => RidOf(e, x)')
<1>1. PICK j \in {0, 1} :
           /\ Len(toSim) \in Nat /\ Len(toSim') \in Nat /\ Len(toSim) = Len(toSim') + j
           /\ \A k \in 1 .. Len(toSim') : toSim'[k] = toSim[k + j]
           /\ j = 1 => 1 \in 1 .. Len(toSim) /\ toSim[1].at = d /\ handler[d].pc = "idle"
           /\ j = 0 => Running(d) /\ ~Called(d) /\ toSim' = toSim
  BY TurnQueue
<1>2. \A k \in 1 .. Len(toSim') : k + j \in 1 .. Len(toSim) /\ (j = 1 => k + j # 1)
  BY <1>1
<1>3. \A k \in 1 .. Len(toSim) : toSim[k].at # d => k - j \in 1 .. Len(toSim') /\ toSim'[k - j] = toSim[k]
  <2> SUFFICES ASSUME NEW k \in 1 .. Len(toSim), toSim[k].at # d
               PROVE  k - j \in 1 .. Len(toSim') /\ toSim'[k - j] = toSim[k]
    OBVIOUS
  <2>1. k - j \in 1 .. Len(toSim')
    BY <1>1
  <2> QED BY <1>1, <2>1
<1>4. Open(d)
  BY <1>1 DEF Open, Called
<1>5. ~Called(d)'
  <2> SUFFICES ASSUME NEW k \in 1 .. Len(toSim'), toSim'[k].at = d PROVE FALSE
    BY DEF Called
  <2>1. k + j \in 1 .. Len(toSim) /\ toSim[k + j].at = d
    BY <1>1, <1>2
  <2>2. j = 1
    BY <1>1, <2>1 DEF Called
  <2> QED BY <1>1, <1>2, <2>1, <2>2 DEF Base, Queued
<1>6. \A e : Called(e)' => Called(e)
  BY <1>1, <1>2 DEF Called
<1>7. \A e : e # d => (Called(e) => Called(e)')
  BY <1>3 DEF Called
<1>8. handler[d].pc = "idle" => Called(d)
  BY <1>1 DEF Called, Running
<1>9. \A e, x : (\E k \in 1 .. Len(toSim') : toSim'[k].at = e /\ toSim'[k].rid = x) => RidOf(e, x)
  BY <1>1, <1>2 DEF RidOf
<1>10. \A e, x : e # d => ((\E k \in 1 .. Len(toSim) : toSim[k].at = e /\ toSim[k].rid = x) => RidOf(e, x)')
  BY <1>3 DEF RidOf
<1> QED BY <1>4, <1>5, <1>6, <1>7, <1>8, <1>9, <1>10

\* The other requests stay where they are; d only moves on.
LEMMA TurnFacts ==
  ASSUME Base, TypeOK', NEW d, NEW w, Step(d, w)
  PROVE  /\ d \in Requests /\ Open(d) /\ ~Called(d)'
         /\ handler[d].pc = "idle" => Called(d)
         /\ Running(d) => ~Called(d)
         /\ (Open(d)' <=> handler'[d].pc # "done") /\ (Open(d)' <=> Running(d)')
         /\ Early(d)' => Early(d)
         /\ d \in Restores => \A x : RidOf(d, x)' => RidOf(d, x)
         /\ \A e \in Requests : e # d =>
              /\ handler'[e] = handler[e]
              /\ (Called(e)' <=> Called(e)) /\ (Running(e)' <=> Running(e)) /\ (Engaged(e)' <=> Engaged(e))
              /\ (Open(e)' <=> Open(e)) /\ (Early(e)' <=> Early(e))
              /\ \A x : RidOf(e, x)' <=> RidOf(e, x)
<1>1. /\ Turn(d, w) /\ Path(d) /\ d \in Requests /\ handler'[d].pc # "idle"
      /\ \A e \in Requests : e # d => handler'[e] = handler[e]
  BY DEF Step, Turn
<1>2. /\ Open(d) /\ ~Called(d)'
      /\ \A e : Called(e)' => Called(e)
      /\ \A e : e # d => (Called(e) => Called(e)')
      /\ handler[d].pc = "idle" => Called(d)
      /\ \A e, x : (\E k \in 1 .. Len(toSim') : toSim'[k].at = e /\ toSim'[k].rid = x) => RidOf(e, x)
      /\ \A e, x : e # d => ((\E k \in 1 .. Len(toSim) : toSim[k].at = e /\ toSim[k].rid = x) => RidOf(e, x)')
  BY <1>1, TurnCalls
<1>3. Running(d) => ~Called(d)
  BY DEF Base, Queued, Called, Running
<1>4. (Open(d)' <=> handler'[d].pc # "done") /\ (Open(d)' <=> Running(d)')
  BY <1>1, <1>2 DEF Open, Running
<1>5. Early(d)' => Early(d)
  BY <1>1, <1>2 DEF Early, Path
<1>6. ASSUME d \in Restores PROVE \A x : RidOf(d, x)' => RidOf(d, x)
  <2> SUFFICES ASSUME NEW x, RidOf(d, x)' PROVE RidOf(d, x)
    OBVIOUS
  <2>1. CASE Running(d)' /\ handler'[d].rid = x
    BY <1>1, <1>6, <2>1 DEF Path, Running
  <2>2. CASE \E k \in 1 .. Len(toSim') : toSim'[k].at = d /\ toSim'[k].rid = x
    BY <1>2, <2>2
  <2> QED BY <2>1, <2>2 DEF RidOf
<1>7. ASSUME NEW e \in Requests, e # d
      PROVE  /\ handler'[e] = handler[e]
             /\ (Called(e)' <=> Called(e)) /\ (Running(e)' <=> Running(e)) /\ (Engaged(e)' <=> Engaged(e))
             /\ (Open(e)' <=> Open(e)) /\ (Early(e)' <=> Early(e))
             /\ \A x : RidOf(e, x)' <=> RidOf(e, x)
  <2>1. handler'[e] = handler[e] /\ (Called(e)' <=> Called(e))
    BY <1>1, <1>2, <1>7
  <2>2. (Running(e)' <=> Running(e)) /\ (Engaged(e)' <=> Engaged(e))
    BY <2>1 DEF Running, Engaged
  <2>3. (Open(e)' <=> Open(e)) /\ (Early(e)' <=> Early(e))
    BY <2>1, <2>2 DEF Open, Early
  <2>4. \A x : RidOf(e, x)' <=> RidOf(e, x)
    <3> TAKE x
    <3>1. RidOf(e, x) => RidOf(e, x)'
      <4>1. (\E k \in 1 .. Len(toSim) : toSim[k].at = e /\ toSim[k].rid = x) => RidOf(e, x)'
        BY <1>2, <1>7
      <4>2. Running(e) /\ handler[e].rid = x => RidOf(e, x)'
        BY <2>1, <2>2 DEF RidOf
      <4>3. RidOf(e, x) <=> (\/ Running(e) /\ handler[e].rid = x
                            \/ \E k \in 1 .. Len(toSim) : toSim[k].at = e /\ toSim[k].rid = x)
        BY DEF RidOf
      <4> QED BY <4>1, <4>2, <4>3
    <3>2. (\E k \in 1 .. Len(toSim') : toSim'[k].at = e /\ toSim'[k].rid = x) => RidOf(e, x)
      BY <1>2
    <3>3. Running(e)' /\ handler'[e].rid = x => RidOf(e, x)
      BY <2>1, <2>2 DEF RidOf
    <3>4. RidOf(e, x)' => RidOf(e, x)
      <4> HIDE <3>2, <3>3
      <4>1. RidOf(e, x)' <=> (\/ Running(e)' /\ handler'[e].rid = x
                             \/ \E k \in 1 .. Len(toSim') : toSim'[k].at = e /\ toSim'[k].rid = x)
        BY DEF RidOf
      <4> QED BY <3>2, <3>3, <4>1
    <3> QED BY <3>1, <3>4
  <2> QED BY <2>1, <2>2, <2>3, <2>4
<1> QED BY <1>1, <1>2, <1>3, <1>4, <1>5, <1>6, <1>7

\* The messages are the old ones and then w.
LEMMA TurnSaid ==
  ASSUME Base, NEW d, NEW w, Step(d, w)
  PROVE  /\ toRen \in Seq(Messages) /\ w \in Seq(Messages) /\ toRen' = toRen \o w
         /\ Len(toRen) \in Nat /\ Len(w) \in Nat /\ Len(toRen') = Len(toRen) + Len(w)
         /\ \A k \in Said : k \in Said' /\ toRen'[k] = toRen[k]
         /\ \A k \in Said' :
              \/ k \in Said /\ toRen'[k] = toRen[k]
              \/ k - Len(toRen) \in 1 .. Len(w) /\ toRen'[k] = w[k - Len(toRen)] /\ k > Len(toRen)
         /\ \A k \in Said' : k \in Nat /\ k <= Len(toRen) + Len(w)
         /\ \A k \in 1 .. Len(w) :
              /\ Len(toRen) + k \in Said' /\ toRen'[Len(toRen) + k] = w[k]
              /\ Word(d, w, k) /\ w[k] \in Messages
<1>1. toRen \in Seq(Messages) /\ w \in Seq(Messages) /\ toRen' = toRen \o w
  BY Types DEF Base, Step, Turn
<1>2. \A k \in 1 .. Len(w) : Word(d, w, k) /\ w[k] \in Messages
  BY <1>1 DEF Step, Words
<1> QED BY <1>1, <1>2, Appended DEF Said

LEMMA BaseSteps ==
  ASSUME Base, TypeOK', NEW d, NEW w, Step(d, w)
  PROVE  Base'
<1>1. /\ d \in Requests /\ \A e \in Requests : e # d => handler'[e] = handler[e]
      /\ ~Called(d)' /\ Open(d) /\ unsent' = unsent
  BY TurnFacts, RenvarsKept DEF Step, Turn
<1>2. Placed'
  <2> SUFFICES ASSUME NEW e \in Requests PROVE Fits(e)'
    BY DEF Placed
  <2>1. CASE e = d
    BY <2>1 DEF Step
  <2>2. CASE e # d
    BY <1>1, <2>2 DEF Base, Placed, Fits, Running
  <2> QED BY <2>1, <2>2
<1>3. PICK j \in {0, 1} :
           /\ Len(toSim) \in Nat /\ Len(toSim') \in Nat /\ Len(toSim) = Len(toSim') + j
           /\ \A k \in 1 .. Len(toSim') : toSim'[k] = toSim[k + j]
  BY TurnQueue DEF Step
<1>4. \A k \in 1 .. Len(toSim') : k + j \in 1 .. Len(toSim) /\ toSim'[k].at # d
  BY <1>1, <1>3 DEF Called
<1>5. \A k \in 1 .. Len(toSim') : toSim'[k].at \notin unsent' /\ handler'[toSim'[k].at].pc = "idle"
  <2> SUFFICES ASSUME NEW k \in 1 .. Len(toSim')
               PROVE  toSim'[k].at \notin unsent' /\ handler'[toSim'[k].at].pc = "idle"
    OBVIOUS
  <2>1. toSim[k + j] = toSim'[k] /\ k + j \in 1 .. Len(toSim)
    BY <1>3, <1>4
  <2>2. toSim'[k].at \in Requests
    BY <2>1, Types, CallFields DEF Base
  <2> QED BY <1>1, <1>4, <2>1, <2>2 DEF Base, Queued
<1>6. \A k, l \in 1 .. Len(toSim') : toSim'[k].at = toSim'[l].at => k = l
  <2> SUFFICES ASSUME NEW k \in 1 .. Len(toSim'), NEW l \in 1 .. Len(toSim'), toSim'[k].at = toSim'[l].at
               PROVE  k = l
    OBVIOUS
  <2>1. k + j = l + j
    BY <1>3, <1>4 DEF Base, Queued
  <2> QED BY <1>3, <2>1
<1>7. \A e \in unsent' : handler'[e].pc = "idle"
  <2>1. d \notin unsent
    BY <1>1 DEF Base, Queued, Open, Called, Running
  <2>2. unsent \subseteq Requests
    BY DEF Base, TypeOK
  <2> QED BY <1>1, <2>1, <2>2 DEF Base, Queued
<1> QED BY <1>2, <1>5, <1>6, <1>7 DEF Base, Queued

\* A restore that is not marked active is alone: the renderer waits for it.
LEMMA WaitedFor ==
  ASSUME Base, Guarded, Known, Patient, NEW r \in Restores, Called(r) \/ handler[r].pc = "validating"
  PROVE  /\ \A e \in Ops : Open(e) => e = r
         /\ ~syncRequired /\ Asking("scene-restore")
<1>1. Open(r) /\ ~syncRequired
  BY DEF Open, Running, Patient
<1>2. r \in Requests /\ toSim \in Seq(Calls)
  BY Types DEF Base, Requests
<1>3. \E x \in RestoreIds : RidOf(r, x)
  <2>1. CASE Called(r)
    <3>1. PICK k \in 1 .. Len(toSim) : toSim[k].at = r
      BY <2>1 DEF Called
    <3>2. toSim[k] \in Calls
      BY <1>2
    <3> QED BY <3>1, <3>2, CallFields DEF RidOf
  <2>2. CASE handler[r].pc = "validating"
    BY <1>2, <2>2, KindOf DEF RidOf, Running, Base
  <2> QED BY <2>1, <2>2
<1>4. Asking("scene-restore")
  <2>1. PICK x \in RestoreIds : Asks("scene-restore", x)
    BY <1>1, <1>3 DEF Known
  <2>2. activeRequest # None
    BY <2>1, NoneAssumption DEF Asks, Controls
  <2> QED BY <2>1, <2>2 DEF Asks, Asking
<1>5. runAction = None
  BY <1>4 DEF Guarded, Asking
<1> SUFFICES ASSUME NEW e \in Ops, Open(e) PROVE e = r
  BY <1>1, <1>4
<1>6. e \notin Actions
  BY <1>1, <1>5, OneKind DEF Known, Requests
<1>7. e \notin Syncs
  BY <1>1, <1>4 DEF Known, Asks, Asking
<1> QED BY <1>1, <1>6, <1>7 DEF Guarded, Ops

LEMMA BusySteps ==
  ASSUME Control, TypeOK', NEW d, NEW w, Step(d, w)
  PROVE  Busy'
<1>1. /\ d \in Requests /\ Open(d)
      /\ \A e \in Requests : e # d => (Engaged(e)' <=> Engaged(e)) /\ (Open(e)' <=> Open(e))
  BY TurnFacts DEF Control
<1>2. \A e \in Ops : e \in Requests
  BY DEF Ops, Requests
<1>3. \A e \in Ops : Engaged(e) => isBusy
  BY OneKind DEF Control, Busy, isBusy, Ops
<1>4. ASSUME NEW e \in Ops, e # d, Engaged(e), d \in Ops, Engaged(d)'
      PROVE  FALSE
  <2>1. CASE Engaged(d)
    BY <1>4, <2>1 DEF Control, Busy
  <2>2. CASE ~isBusy
    BY <1>3, <1>4, <2>2
  <2>3. CASE handler[d].pc = "validating"
    <3>1. d \in Restores
      BY <1>1, <2>3, KindOf DEF Control, Base
    <3>2. Open(e)
      BY <1>4 DEF Engaged, Open
    <3> QED BY <1>4, <2>3, <3>1, <3>2, WaitedFor DEF Control
  <2> QED BY <1>4, <2>1, <2>2, <2>3 DEF Step, Path
<1>5. \A e, f \in Ops : Engaged(e)' /\ Engaged(f)' => e = f
  BY <1>1, <1>2, <1>4 DEF Control, Busy
<1>6. ASSUME NEW e \in Ops, Engaged(e)'
      PROVE  /\ e \in Syncs => activeTransaction' = "state_sync"
             /\ e \in Restores => activeTransaction' = "scene_restore"
             /\ e \in Actions => actionInFlight'
  <2>1. CASE e = d
    <3>1. CASE Engaged(d) /\ UNCHANGED <<activeTransaction, actionInFlight>>
      BY <1>6, <2>1, <3>1 DEF Control, Busy
    <3> QED BY <1>6, <2>1, <3>1 DEF Step, Flags
  <2>2. CASE e # d
    <3>1. Engaged(e)
      BY <1>1, <1>2, <1>6, <2>2
    <3>2. ~(d \in Ops /\ (Engaged(d) \/ Engaged(d)'))
      BY <1>4, <2>2, <3>1 DEF Control, Busy
    <3>3. activeTransaction' = activeTransaction /\ (actionInFlight' <=> actionInFlight)
      BY <3>2 DEF Step, Flags
    <3> QED BY <3>1, <3>3 DEF Control, Busy
  <2> QED BY <2>1, <2>2
<1> QED BY <1>5, <1>6 DEF Busy

\* What a word of d's is about.
LEMMA WordFacts ==
  ASSUME Base, TypeOK', NEW d, NEW w, Step(d, w), NEW k \in 1 .. Len(w)
  PROVE  /\ \A s \in Syncs : OfSync(w[k], s) =>
              /\ s = d /\ Len(w) = 1
              /\ BeginOf(w[k], s) => handler'[d].pc = "replaying" /\ syncedItems' = {}
              /\ EndOf(w[k], s) => Running(d) /\ handler'[d].pc = "done"
              /\ ErrorOf(w[k], s) => Called(d) /\ handler'[d].pc = "done"
         /\ \A a \in Actions : OfAction(w[k], a) => a = d /\ Len(w) = 1 /\ handler'[d].pc = "done"
         /\ OfRestore(w[k]) =>
              /\ d \in Restores /\ RidOf(d, w[k].id) /\ ~Early(d)' /\ w[k].id \in RestoreIds
              /\ w[k].type = "scene_restore_begin" => k = 1
              /\ w[k].type = "scene_restore_end" => k = Len(w) /\ handler'[d].pc = "done"
<1>1. Word(d, w, k) /\ w[k] \in Messages
  BY TurnSaid
<1>2. ~Running(d) => Called(d)
  BY TurnFacts DEF Open
<1>3. ~Called(d)'
  BY TurnFacts
<1> QED BY <1>1, <1>2, <1>3, MessageFields DEF Word, Early, OfRestore

LEMMA EndingSteps ==
  ASSUME Control, TypeOK', NEW d, NEW w, Step(d, w)
  PROVE  Ending'
<1> DEFINE n == Len(toRen)
<1>1. /\ Base /\ d \in Requests /\ Open(d) /\ ~Called(d)' /\ unsent' = unsent
      /\ handler[d].pc = "idle" => Called(d)
      /\ Running(d) => ~Called(d)
      /\ (Open(d)' <=> handler'[d].pc # "done")
      /\ Early(d)' => Early(d)
  BY TurnFacts, RenvarsKept DEF Control, Step, Turn
<1>2. \A e \in Requests : e # d =>
              /\ handler'[e] = handler[e] /\ (Called(e)' <=> Called(e)) /\ (Open(e)' <=> Open(e))
              /\ (Early(e)' <=> Early(e))
  BY <1>1, TurnFacts
<1>3. d \notin unsent
  BY <1>1 DEF Base, Queued, Open, Called, Running
<1>4. \A e \in Ops : e \in Requests
  BY DEF Ops, Requests
<1>5. ASSUME NEW s \in Syncs, NEW k \in Said', OfSync(toRen'[k], s)
      PROVE  /\ s \notin unsent' /\ ~Called(s)' /\ handler'[s].pc # "initializing"
             /\ ~BeginOf(toRen'[k], s) =>
                  ~Open(s)' /\ \A l \in Said' : l > k => ~OfSync(toRen'[l], s)
             /\ ErrorOf(toRen'[k], s) => \A l \in Said' : OfSync(toRen'[l], s) => l = k
  <2>1. CASE k \in Said /\ toRen'[k] = toRen[k]
    <3>1. /\ s \notin unsent /\ ~Called(s) /\ handler[s].pc # "initializing"
          /\ ~BeginOf(toRen[k], s) => ~Open(s) /\ \A l \in Said : l > k => ~OfSync(toRen[l], s)
          /\ ErrorOf(toRen[k], s) => \A l \in Said : OfSync(toRen[l], s) => l = k
      BY <1>5, <2>1 DEF Control, Ending
    <3>2. s \in Requests
      BY DEF Requests
    <3>3. ~Called(s)' /\ handler'[s].pc # "initializing" /\ (~Open(s) => ~Open(s)')
      BY <1>1, <1>2, <3>1, <3>2 DEF Step, Path
    <3>4. ErrorOf(toRen[k], s) => ~BeginOf(toRen[k], s)
      BY DEF ErrorOf, BeginOf
    <3>5. ASSUME ~BeginOf(toRen[k], s), NEW l \in Said', OfSync(toRen'[l], s)
          PROVE  l \in Said /\ toRen'[l] = toRen[l]
      <4>1. s # d
        BY <1>1, <3>1, <3>5
      <4>2. CASE l - n \in 1 .. Len(w) /\ toRen'[l] = w[l - n]
        BY <1>1, <3>5, <4>1, <4>2, WordFacts
      <4> QED BY <1>1, <4>2, TurnSaid
    <3> QED BY <1>1, <2>1, <3>1, <3>3, <3>4, <3>5
  <2>2. CASE k - n \in 1 .. Len(w) /\ toRen'[k] = w[k - n] /\ k > n
    <3>1. /\ s = d /\ Len(w) = 1
          /\ BeginOf(w[k - n], s) => handler'[d].pc = "replaying"
          /\ EndOf(w[k - n], s) => handler'[d].pc = "done"
          /\ ErrorOf(w[k - n], s) => Called(d) /\ handler'[d].pc = "done"
      BY <1>1, <1>5, <2>2, WordFacts
    <3>2. BeginOf(w[k - n], s) \/ EndOf(w[k - n], s) \/ ErrorOf(w[k - n], s)
      BY <1>5, <2>2 DEF OfSync, SyncWords, BeginOf, EndOf, ErrorOf
    <3>3. k = n + 1 /\ \A l \in Said' : l <= k
      <4>1. k \in Nat /\ n \in Nat /\ \A l \in Said' : l \in Nat /\ l <= n + 1
        BY <1>1, <3>1, TurnSaid
      <4>2. k - n \in 1 .. 1
        BY <2>2, <3>1
      <4> HIDE DEF n
      <4> QED BY <4>1, <4>2
    <3>4. ErrorOf(w[k - n], s) => \A l \in Said' : OfSync(toRen'[l], s) => l = k
      <4> SUFFICES ASSUME ErrorOf(w[k - n], s), NEW l \in Said', OfSync(toRen'[l], s), l # k
                   PROVE  FALSE
        OBVIOUS
      <4>1. Called(s)
        BY <3>1
      <4>2. l \in Said /\ toRen'[l] = toRen[l]
        BY <1>1, <3>1, <3>3, TurnSaid DEF Said
      <4> QED BY <4>1, <4>2 DEF Control, Ending
    <3>5. \A l \in Said' : ~(l > k)
      BY <1>1, <3>3, TurnSaid DEF Said
    <3> QED BY <1>1, <1>3, <2>2, <3>1, <3>2, <3>4, <3>5
  <2> QED BY <1>1, <2>1, <2>2, TurnSaid
<1>6. ASSUME NEW a \in Actions, NEW k \in Said', OfAction(toRen'[k], a)
      PROVE  a \notin unsent' /\ ~Open(a)' /\ \A l \in Said' : OfAction(toRen'[l], a) => l = k
  <2> a \in Requests
    BY DEF Requests
  <2>1. CASE k \in Said /\ toRen'[k] = toRen[k]
    <3>1. a \notin unsent /\ ~Open(a) /\ \A l \in Said : OfAction(toRen[l], a) => l = k
      BY <1>6, <2>1 DEF Control, Ending
    <3>2. a # d /\ ~Open(a)'
      BY <1>1, <1>2, <3>1
    <3>3. \A l \in Said' : OfAction(toRen'[l], a) => l \in Said /\ toRen'[l] = toRen[l]
      BY <1>1, <3>2, TurnSaid, WordFacts
    <3> QED BY <1>1, <3>1, <3>2, <3>3
  <2>2. CASE k - n \in 1 .. Len(w) /\ toRen'[k] = w[k - n] /\ k > n
    <3>1. a = d /\ Len(w) = 1 /\ handler'[d].pc = "done"
      BY <1>1, <1>6, <2>2, WordFacts
    <3>2. ASSUME NEW l \in Said', OfAction(toRen'[l], a), l # k PROVE FALSE
      <4>1. l \in Said /\ toRen'[l] = toRen[l]
        <5>1. ASSUME l - n \in 1 .. 1 PROVE FALSE
          <6>1. k \in Nat /\ l \in Nat /\ n \in Nat /\ k - n \in 1 .. 1
            BY <1>1, <2>2, <3>1, TurnSaid
          <6> HIDE DEF n
          <6> QED BY <3>2, <5>1, <6>1
        <5> QED BY <1>1, <3>1, <5>1, TurnSaid
      <4> QED BY <1>1, <3>1, <3>2, <4>1 DEF Control, Ending
    <3> QED BY <1>1, <1>3, <3>1, <3>2
  <2> QED BY <1>1, <2>1, <2>2, TurnSaid
<1>7. ASSUME NEW r \in Restores, NEW k \in Said', OfRestore(toRen'[k])
      PROVE  /\ ~Early(r)'
             /\ toRen'[k].type = "scene_restore_end" =>
                  ~Open(r)' /\ \A l \in Said' : l > k => ~OfRestore(toRen'[l])
  <2> r \in Requests
    BY DEF Requests
  <2>1. CASE k \in Said /\ toRen'[k] = toRen[k]
    <3>1. /\ ~Early(r) /\ \A q \in Restores : toRen[k].type = "scene_restore_end" => ~Open(q)
          /\ toRen[k].type = "scene_restore_end" => \A l \in Said : l > k => ~OfRestore(toRen[l])
      BY <1>7, <2>1 DEF Control, Ending
    <3>2. ~Early(r)' /\ (~Open(r) => ~Open(r)')
      BY <1>1, <1>2, <3>1
    <3>3. ASSUME toRen[k].type = "scene_restore_end", NEW l \in Said', OfRestore(toRen'[l])
          PROVE  l \in Said /\ toRen'[l] = toRen[l]
      <4>1. d \notin Restores
        BY <1>1, <3>1, <3>3
      <4> QED BY <1>1, <3>3, <4>1, TurnSaid, WordFacts
    <3> QED BY <2>1, <3>1, <3>2, <3>3
  <2>2. CASE k - n \in 1 .. Len(w) /\ toRen'[k] = w[k - n] /\ k > n
    <3>1. /\ d \in Restores /\ ~Early(d)'
          /\ w[k - n].type = "scene_restore_end" => k - n = Len(w) /\ handler'[d].pc = "done"
      BY <1>1, <1>7, <2>2, WordFacts
    <3>2. r # d => ~Open(r) /\ ~Early(r)
      BY <1>1, <3>1 DEF Control, Guarded, Open, Early, Running
    <3>3. ~Early(r)' /\ (handler'[d].pc = "done" => ~Open(r)')
      BY <1>1, <1>2, <3>1, <3>2
    <3>4. w[k - n].type = "scene_restore_end" => \A l \in Said' : ~(l > k)
      BY <1>1, <2>2, <3>1, TurnSaid DEF Said
    <3> QED BY <2>2, <3>1, <3>3, <3>4
  <2> QED BY <1>1, <2>1, <2>2, TurnSaid
<1> QED BY <1>5, <1>6, <1>7 DEF Ending

LEMMA GuardedSteps ==
  ASSUME Control, TypeOK', NEW d, NEW w, Step(d, w)
  PROVE  Guarded'
<1>1. UNCHANGED renVars /\ Base /\ thrown \subseteq thrown'
  BY DEF Step, Turn, Control, Answers
<1>2. \A e \in Requests : Open(e)' => Open(e)
  BY <1>1, TurnFacts
<1>3. \A r \in Restores : r \in Requests
  BY DEF Requests
<1> QED BY <1>1, <1>2, <1>3, RenvarsKept DEF Control, Guarded

LEMMA KnownSteps ==
  ASSUME Control, TypeOK', NEW d, NEW w, Step(d, w)
  PROVE  Known'
<1>1. /\ UNCHANGED renVars /\ Base /\ d \in Requests /\ Open(d)
  BY TurnFacts DEF Step, Turn, Control
<1>2. \A e \in Requests : Open(e)' => Open(e)
  BY <1>1, TurnFacts
<1>3. /\ \A r \in Restores : r \in Requests
      /\ \A a \in Actions : a \in Requests
      /\ \A s \in Syncs : s \in Requests
  BY DEF Requests
<1> SUFFICES ASSUME ~syncRequired PROVE Known'
  BY <1>1, RenvarsKept DEF Known
<1>4. ASSUME NEW a \in Actions, Open(a)' \/ (\E k \in Said' : OfAction(toRen'[k], a))
      PROVE  runAction = a
  <2>1. CASE Open(a)'
    BY <1>2, <1>3, <2>1 DEF Control, Known
  <2>2. ASSUME NEW k \in Said', OfAction(toRen'[k], a) PROVE runAction = a
    <3>1. CASE k \in Said /\ toRen'[k] = toRen[k]
      BY <2>2, <3>1 DEF Control, Known
    <3>2. CASE k - Len(toRen) \in 1 .. Len(w) /\ toRen'[k] = w[k - Len(toRen)]
      BY <1>1, <2>2, <3>2, WordFacts DEF Control, Known
    <3> QED BY <1>1, <2>2, <3>1, <3>2, TurnSaid
  <2> QED BY <1>4, <2>1, <2>2
<1>5. ASSUME NEW s \in Syncs, Open(s)' \/ (\E k \in Said' : OfSync(toRen'[k], s))
      PROVE  Asks("state-sync", s)
  <2>1. CASE Open(s)'
    BY <1>2, <1>3, <2>1 DEF Control, Known
  <2>2. ASSUME NEW k \in Said', OfSync(toRen'[k], s) PROVE Asks("state-sync", s)
    <3>1. CASE k \in Said /\ toRen'[k] = toRen[k]
      BY <2>2, <3>1 DEF Control, Known
    <3>2. CASE k - Len(toRen) \in 1 .. Len(w) /\ toRen'[k] = w[k - Len(toRen)]
      BY <1>1, <2>2, <3>2, WordFacts DEF Control, Known
    <3> QED BY <1>1, <2>2, <3>1, <3>2, TurnSaid
  <2> QED BY <1>5, <2>1, <2>2
<1>6. ASSUME NEW r \in Restores, NEW x \in RestoreIds, Open(r)', RidOf(r, x)'
      PROVE  Asks("scene-restore", x)
  <2>1. Open(r) /\ RidOf(r, x)
    BY <1>1, <1>2, <1>3, <1>6, TurnFacts
  <2> QED BY <2>1 DEF Control, Known
<1>7. ASSUME NEW k \in Said', OfRestore(toRen'[k])
      PROVE  Asks("scene-restore", toRen'[k].id)
  <2>1. CASE k \in Said /\ toRen'[k] = toRen[k]
    BY <1>7, <2>1 DEF Control, Known
  <2>2. CASE k - Len(toRen) \in 1 .. Len(w) /\ toRen'[k] = w[k - Len(toRen)]
    BY <1>1, <1>7, <2>2, WordFacts DEF Control, Known
  <2> QED BY <1>1, <1>7, <2>1, <2>2, TurnSaid
<1> QED BY <1>1, <1>4, <1>5, <1>6, <1>7, RenvarsKept DEF Known

LEMMA PatientSteps ==
  ASSUME Control, TypeOK', NEW d, NEW w, Step(d, w)
  PROVE  Patient'
<1>1. /\ UNCHANGED renVars /\ Base /\ d \in Requests
      /\ handler[d].pc = "idle" => Called(d)
      /\ ~Called(d)' /\ \A e \in Requests : e # d => handler'[e] = handler[e] /\ (Called(e)' <=> Called(e))
      /\ handler'[d].pc = "validating" => handler[d].pc = "idle"
  BY TurnFacts DEF Step, Turn, Control, Path
<1>2. \A r \in Restores : r \in Requests
  BY DEF Requests
<1> QED BY <1>1, <1>2, RenvarsKept DEF Control, Patient

LEMMA AloneSteps ==
  ASSUME Control, TypeOK', NEW d, NEW w, Step(d, w)
  PROVE  Alone'
<1> DEFINE n == Len(toRen)
<1>1. /\ UNCHANGED renVars /\ Base /\ d \in Requests /\ Open(d) /\ ~Called(d)'
      /\ handler[d].pc = "idle" => Called(d)
      /\ Running(d) => ~Called(d)
  BY TurnFacts DEF Step, Turn, Control
<1>2. \A e \in Requests : (Open(e)' => Open(e)) /\ (Called(e)' => Called(e))
  BY <1>1, TurnFacts
<1>3. \A e \in Ops : e \in Requests
  BY DEF Ops, Requests
<1> SUFFICES ASSUME NEW s \in Syncs, Asks("state-sync", s)
             PROVE  /\ \A k, l \in 1 .. Len(toSim') : toSim'[k].at = s /\ k < l => toSim'[l].at \notin Ops
                    /\ Accepted(s)' => \A e \in Ops \ {s} : ~Open(e)'
                    /\ transaction # None =>
                         /\ ~Called(s)' /\ handler'[s].pc # "initializing"
                         /\ \A l \in Said' : ~OfOther(toRen'[l], s) /\ ~ErrorOf(toRen'[l], s)
                    /\ \A k \in Said' : BeginOf(toRen'[k], s) =>
                         \A l \in Said' : l > k => ~OfOther(toRen'[l], s)
  BY <1>1, RenvarsKept DEF Alone
<1>4. s \in Ops
  BY DEF Ops
<1>5. /\ \A k, l \in 1 .. Len(toSim) : toSim[k].at = s /\ k < l => toSim[l].at \notin Ops
      /\ Accepted(s) => \A e \in Ops \ {s} : ~Open(e)
      /\ transaction # None =>
           /\ ~Called(s) /\ handler[s].pc # "initializing"
           /\ \A l \in Said : ~OfOther(toRen[l], s) /\ ~ErrorOf(toRen[l], s)
      /\ \A k \in Said : BeginOf(toRen[k], s) =>
           \A l \in Said : l > k => ~OfOther(toRen[l], s)
  BY DEF Control, Alone
<1>6. PICK j \in {0, 1} :
           /\ Len(toSim) \in Nat /\ Len(toSim') \in Nat /\ Len(toSim) = Len(toSim') + j
           /\ \A k \in 1 .. Len(toSim') : toSim'[k] = toSim[k + j]
           /\ j = 1 => 1 \in 1 .. Len(toSim) /\ toSim[1].at = d /\ handler[d].pc = "idle"
           /\ j = 0 => Running(d)
  BY <1>1, TurnQueue DEF Step
<1>7. \A k \in 1 .. Len(toSim') : k + j \in 1 .. Len(toSim)
  BY <1>6
<1>8. \A k, l \in 1 .. Len(toSim') : toSim'[k].at = s /\ k < l => toSim'[l].at \notin Ops
  <2> SUFFICES ASSUME NEW k \in 1 .. Len(toSim'), NEW l \in 1 .. Len(toSim'), toSim'[k].at = s, k < l
               PROVE  toSim'[l].at \notin Ops
    OBVIOUS
  <2>1. k + j < l + j /\ k + j \in 1 .. Len(toSim) /\ l + j \in 1 .. Len(toSim)
    BY <1>7, <1>6
  <2> QED BY <1>5, <1>6, <2>1
<1>9. Accepted(s)' => Accepted(s) \/ (s = d /\ handler[d].pc = "idle" /\ Engaged(d)' /\ ~isBusy)
  <2> SUFFICES ASSUME Accepted(s)', ~Accepted(s)
               PROVE  s = d /\ handler[d].pc = "idle" /\ Engaged(d)' /\ ~isBusy
    OBVIOUS
  <2>1. ~Running(s) /\ transaction' = None
    BY <1>1, RenvarsKept DEF Accepted
  <2>2. s = d /\ Running(d)'
    <3>1. CASE Running(s)'
      BY <1>1, <1>3, <1>4, <2>1, <3>1, TurnFacts
    <3>2. ASSUME NEW k \in Said', BeginOf(toRen'[k], s) \/ EndOf(toRen'[k], s)
          PROVE  s = d /\ Running(d)'
      <4>1. ~(k \in Said /\ toRen'[k] = toRen[k])
        BY <3>2 DEF Accepted
      <4>2. k - n \in 1 .. Len(w) /\ toRen'[k] = w[k - n]
        BY <1>1, <4>1, TurnSaid
      <4>3. OfSync(w[k - n], s)
        BY <3>2, <4>2 DEF OfSync, BeginOf, EndOf, SyncWords
      <4>4. s = d /\ (EndOf(w[k - n], s) => Running(d)) /\ (BeginOf(w[k - n], s) => handler'[d].pc = "replaying")
        BY <1>1, <4>2, <4>3, WordFacts
      <4> QED BY <2>1, <3>2, <4>2, <4>4 DEF Running
    <3> QED BY <2>1, <3>1, <3>2 DEF Accepted
  <2>3. handler[d].pc # "validating"
    BY <1>1, <2>2, OneKind, KindOf DEF Base
  <2>4. ~Engaged(d) /\ handler'[d].pc # "validating"
    BY <1>1, <2>1, <2>2, <2>3, OneKind DEF Engaged, Step, Fits, SyncPcs, PushPcs
  <2>5. Engaged(d)'
    BY <2>2, <2>4 DEF Engaged
  <2>6. handler[d].pc = "idle"
    BY <1>6, <2>1, <2>2
  <2> QED BY <1>4, <2>2, <2>3, <2>4, <2>5, <2>6 DEF Step, Path
<1>10. Accepted(s)' => \A e \in Ops \ {s} : ~Open(e)'
  <2> SUFFICES ASSUME Accepted(s)', NEW e \in Ops, e # s, Open(e)' PROVE FALSE
    OBVIOUS
  <2>1. Open(e)
    BY <1>2, <1>3
  <2>2. s = d /\ handler[d].pc = "idle" /\ Engaged(d)' /\ ~isBusy
    BY <1>5, <1>9, <2>1
  <2>3. ~Engaged(e)
    BY <2>2, OneKind DEF Control, Busy, isBusy, Ops
  <2>4. CASE Running(e)
    <3>1. handler[e].pc = "validating" /\ e \in Restores
      BY <1>1, <1>3, <2>3, <2>4, KindOf DEF Engaged, Base
    <3> QED BY <1>1, <1>4, <2>2, <3>1, WaitedFor DEF Control
  <2>5. CASE Called(e)'
    <3>1. PICK l \in 1 .. Len(toSim') : toSim'[l].at = e
      BY <2>5 DEF Called
    <3>2. toSim[1].at = s /\ 1 \in 1 .. Len(toSim) /\ j = 1
      BY <1>6, <2>2 DEF Running
    <3>3. l + 1 \in 1 .. Len(toSim) /\ toSim[l + 1].at = e /\ 1 < l + 1
      BY <1>6, <3>1, <3>2
    <3> QED BY <1>5, <3>2, <3>3
  <2>6. Running(e)' => Running(e)
    BY <1>1, <1>3, <2>2, TurnFacts
  <2> QED BY <2>4, <2>5, <2>6 DEF Open
<1>11. ASSUME Accepted(s), s # d, NEW k \in 1 .. Len(w)
       PROVE  ~OfOther(w[k], s)
  <2>1. d \notin Ops
    BY <1>1, <1>5, <1>11
  <2> QED BY <1>1, <2>1, WordFacts DEF OfOther, Ops
<1>12. \A k \in 1 .. Len(w) : s = d => ~OfOther(w[k], s)
  BY <1>1, OneKind, WordFacts DEF OfOther
<1>13. ASSUME transaction # None
       PROVE  /\ ~Called(s)' /\ handler'[s].pc # "initializing"
              /\ \A l \in Said' : ~OfOther(toRen'[l], s) /\ ~ErrorOf(toRen'[l], s)
  <2>1. ~Called(s) /\ handler[s].pc # "initializing" /\ Accepted(s)
    BY <1>5, <1>13 DEF Accepted
  <2>2. ~Called(s)' /\ handler'[s].pc # "initializing"
    BY <1>1, <1>2, <1>3, <1>4, <2>1 DEF Step, Path, Turn
  <2>3. ASSUME NEW k \in 1 .. Len(w) PROVE ~OfOther(w[k], s) /\ ~ErrorOf(w[k], s)
    <3>1. ~OfOther(w[k], s)
      BY <1>11, <1>12, <2>1
    <3>2. ErrorOf(w[k], s) => Called(s)
      BY <1>1, WordFacts DEF ErrorOf, OfSync, SyncWords
    <3> QED BY <2>1, <3>1, <3>2
  <2>4. ASSUME NEW l \in Said' PROVE ~OfOther(toRen'[l], s) /\ ~ErrorOf(toRen'[l], s)
    <3>1. CASE l \in Said /\ toRen'[l] = toRen[l]
      BY <1>5, <1>13, <3>1
    <3>2. CASE l - n \in 1 .. Len(w) /\ toRen'[l] = w[l - n]
      BY <2>3, <3>2
    <3> QED BY <1>1, <3>1, <3>2, TurnSaid
  <2> QED BY <2>2, <2>4
<1>14. ASSUME NEW k \in Said', BeginOf(toRen'[k], s), NEW l \in Said', l > k, OfOther(toRen'[l], s)
       PROVE  FALSE
  <2>1. CASE k \in Said /\ toRen'[k] = toRen[k]
    <3>1. Accepted(s)
      BY <1>14, <2>1 DEF Accepted
    <3>2. CASE l - n \in 1 .. Len(w) /\ toRen'[l] = w[l - n]
      BY <1>11, <1>12, <1>14, <3>1, <3>2
    <3>3. CASE l \in Said /\ toRen'[l] = toRen[l]
      BY <1>5, <1>14, <2>1, <3>3
    <3> QED BY <1>1, <3>2, <3>3, TurnSaid
  <2>2. CASE k - n \in 1 .. Len(w) /\ toRen'[k] = w[k - n] /\ k > n
    <3>1. OfSync(w[k - n], s)
      BY <1>14, <2>2 DEF OfSync, BeginOf, SyncWords
    <3>2. Len(w) = 1
      BY <1>1, <2>2, <3>1, WordFacts
    <3>3. k \in Nat /\ l \in Nat /\ n \in Nat /\ l <= n + 1 /\ k - n \in 1 .. 1
      BY <1>1, <2>2, <3>2, TurnSaid
    <3> HIDE DEF n
    <3> QED BY <1>14, <3>3
  <2> QED BY <1>1, <2>1, <2>2, TurnSaid
<1> QED BY <1>5, <1>8, <1>10, <1>13, <1>14

LEMMA BegunSteps ==
  ASSUME Control, TypeOK', NEW d, NEW w, Step(d, w)
  PROVE  Begun'
<1> DEFINE n == Len(toRen)
<1>1. /\ UNCHANGED renVars /\ Base /\ d \in Requests
      /\ Early(d)' => Early(d)
      /\ \A e \in Requests : e # d => (Early(e)' <=> Early(e))
  BY TurnFacts DEF Step, Turn, Control
<1>2. ASSUME NEW k \in Said', toRen'[k].type = "scene_restore_begin"
      PROVE  \/ k \in Said /\ toRen'[k] = toRen[k] /\ OfRestore(toRen[k])
             \/ k = n + 1 /\ Early(d) /\ d \in Restores
  <2>1. CASE k \in Said /\ toRen'[k] = toRen[k]
    BY <1>2, <2>1 DEF OfRestore, Restoring
  <2>2. CASE k - n \in 1 .. Len(w) /\ toRen'[k] = w[k - n]
    <3>1. k - n = 1 /\ Early(d) /\ d \in Restores
      BY <1>1, <1>2, <2>2, TurnSaid DEF Word, OfRestore, Restoring
    <3>2. k \in Nat /\ n \in Nat
      BY <1>1, TurnSaid
    <3> HIDE DEF n
    <3> QED BY <3>1, <3>2
  <2> QED BY <1>1, <2>1, <2>2, TurnSaid
<1>3. ASSUME NEW k \in Said', NEW l \in Said', toRen'[k].type = "scene_restore_begin",
             toRen'[l].type = "scene_restore_begin"
      PROVE  k = l
  BY <1>2, <1>3 DEF Control, Begun, Ending
<1>4. ASSUME transaction # None, Asking("scene-restore")
      PROVE  /\ \A r \in Restores : ~Early(r)'
             /\ \A k \in Said' : toRen'[k].type # "scene_restore_begin"
  <2>1. /\ \A r \in Restores : ~Early(r)
        /\ \A k \in Said : toRen[k].type # "scene_restore_begin"
    BY <1>4 DEF Control, Begun
  <2>2. \A r \in Restores : ~Early(r)'
    BY <1>1, <2>1 DEF Requests
  <2> QED BY <1>2, <2>1, <2>2
<1> QED BY <1>1, <1>3, <1>4, RenvarsKept DEF Begun

\* The first half of the invariant.
LEMMA ControlSteps ==
  ASSUME Control, Dispatched \/ Resumed
  PROVE  \E d, w : Step(d, w) /\ TypeOK' /\ Control'
<1>1. PICK d, w : Step(d, w) /\ TypeOK'
  BY SimulatorSteps DEF Control
<1>2. Control'
  BY <1>1, BaseSteps, BusySteps, EndingSteps, GuardedSteps, KnownSteps, PatientSteps, AloneSteps,
     BegunSteps
  DEF Control
<1> QED BY <1>1, <1>2

-----------------------------------------------------------------------------
(* Answers and verdicts.                                                   *)

LEMMA AnsweredSteps ==
  ASSUME Control, Answered, TypeOK', NEW d, NEW w, Step(d, w)
  PROVE  Answered'
<1> DEFINE n == Len(toRen)
<1>1. /\ UNCHANGED renVars /\ Base /\ d \in Requests
      /\ (Open(d)' <=> handler'[d].pc # "done")
      /\ \A e \in Requests : e # d => (Open(e)' <=> Open(e)) /\ (Early(e)' <=> Early(e))
      /\ Answers(d, w)
  BY TurnFacts DEF Step, Turn, Control
<1>2. /\ \A k \in Said : k \in Said' /\ toRen'[k] = toRen[k]
      /\ \A k \in 1 .. Len(w) : n + k \in Said' /\ toRen'[n + k] = w[k]
  <2>1. \A k \in Said : k \in Said' /\ toRen'[k] = toRen[k]
    BY <1>1, TurnSaid
  <2>2. ASSUME NEW k \in 1 .. Len(w) PROVE n + k \in Said' /\ toRen'[n + k] = w[k]
    BY <1>1, TurnSaid
  <2> QED BY <2>1, <2>2
<1>3. ASSUME NEW a \in Actions, runAction = a
      PROVE  a \in thrown' \/ Open(a)' \/ \E k \in Said' : OfAction(toRen'[k], a)
  <2>1. a \in thrown \/ Open(a) \/ \E k \in Said : OfAction(toRen[k], a)
    BY <1>3 DEF Answered
  <2>2. CASE \E k \in Said : OfAction(toRen[k], a)
    BY <1>2, <2>2
  <2>3. CASE Open(a)
    <3>1. ASSUME a = d, handler'[d].pc = "done", d \notin thrown'
          PROVE  \E k \in Said' : OfAction(toRen'[k], a)
      <4>1. PICK k \in 1 .. Len(w) : OfAction(w[k], d)
        BY <1>1, <3>1 DEF Answers
      <4> QED BY <1>2, <3>1, <4>1
    <3> QED BY <1>1, <2>3, <3>1 DEF Requests
  <2>4. CASE a \in thrown
    BY <1>1, <2>4 DEF Answers
  <2> QED BY <2>1, <2>2, <2>3, <2>4
<1>4. ASSUME NEW c \in Captures, Asks("scene-capture", c)
      PROVE  Open(c)' \/ \E k \in Said' : OfCapture(toRen'[k], c)
  <2>1. Open(c) \/ \E k \in Said : OfCapture(toRen[k], c)
    BY <1>4 DEF Answered
  <2>2. CASE \E k \in Said : OfCapture(toRen[k], c)
    BY <1>2, <2>2
  <2>3. CASE Open(c)
    <3>1. CASE c = d /\ handler'[d].pc = "done"
      <4>1. PICK k \in 1 .. Len(w) : OfCapture(w[k], d)
        BY <1>1, <3>1 DEF Answers
      <4> QED BY <1>2, <3>1, <4>1
    <3> QED BY <1>1, <2>3, <3>1 DEF Requests
  <2> QED BY <2>1, <2>2, <2>3
<1>5. ASSUME Asking("scene-restore")
      PROVE  (\E r \in Restores : Open(r)') \/ \E k \in Said' : toRen'[k].type = "scene_restore_end"
  <2>1. (\E r \in Restores : Open(r)) \/ \E k \in Said : toRen[k].type = "scene_restore_end"
    BY <1>5 DEF Answered
  <2>2. CASE \E k \in Said : toRen[k].type = "scene_restore_end"
    BY <1>2, <2>2
  <2>3. ASSUME NEW r \in Restores, Open(r)
        PROVE  Open(r)' \/ \E k \in Said' : toRen'[k].type = "scene_restore_end"
    <3>1. CASE r = d /\ handler'[d].pc = "done"
      <4>1. PICK k \in 1 .. Len(w) : w[k].type = "scene_restore_end"
        BY <1>1, <3>1 DEF Answers
      <4> QED BY <1>2, <4>1
    <3> QED BY <1>1, <2>3, <3>1 DEF Requests
  <2> QED BY <2>1, <2>2, <2>3
<1>6. ASSUME Asking("scene-restore"), transaction = None
      PROVE  \/ \E r \in Restores : Early(r)'
             \/ \E k \in Said' : toRen'[k].type = "scene_restore_begin"
  <2>1. (\E r \in Restores : Early(r)) \/ \E k \in Said : toRen[k].type = "scene_restore_begin"
    BY <1>6 DEF Answered
  <2>2. CASE \E k \in Said : toRen[k].type = "scene_restore_begin"
    BY <1>2, <2>2
  <2>3. ASSUME NEW r \in Restores, Early(r)
        PROVE  Early(r)' \/ \E k \in Said' : toRen'[k].type = "scene_restore_begin"
    <3>1. CASE r = d /\ handler'[d].pc \notin {"validating", "saving"}
      <4>1. PICK k \in 1 .. Len(w) : w[k].type = "scene_restore_begin"
        BY <1>1, <2>3, <3>1 DEF Answers
      <4> QED BY <1>2, <4>1
    <3>2. CASE r = d /\ handler'[d].pc \in {"validating", "saving"}
      BY <3>2 DEF Early
    <3> QED BY <1>1, <2>3, <3>1, <3>2 DEF Requests
  <2> QED BY <2>1, <2>2, <2>3
<1> QED BY <1>1, <1>3, <1>4, <1>5, <1>6, RenvarsKept DEF Answered

\* A verdict is given once.
LEMMA VerdictKept ==
  ASSUME Control, Applied, TypeOK', NEW d, NEW w, Step(d, w)
  PROVE  /\ \A x \in RestoreIds : restoreResults[x] # None => restoreResults'[x] = restoreResults[x]
         /\ \A x \in RestoreIds : restoreResults'[x] # restoreResults[x] => d \in Restores /\ RidOf(d, x)
<1>1. restoreResults \in [RestoreIds -> Statuses \union {None}] /\ d \in Requests
  BY Types, TurnFacts DEF Control, Base
<1>2. CASE restoreResults' = restoreResults
  BY <1>2
<1>3. ASSUME d \in Restores, NEW x \in RestoreIds, NEW status \in Statuses, RidOf(d, x),
             handler[d].pc = "idle" => restoreResults[x] = None,
             restoreResults' = [restoreResults EXCEPT ![x] = status]
      PROVE  restoreResults[x] = None
  <2>1. CASE Running(d)
    <3>1. ~Called(d)
      BY <2>1, TurnFacts DEF Control
    <3>2. handler[d].rid = x
      BY <1>3, <3>1 DEF RidOf, Called
    <3> QED BY <1>3, <2>1, <3>2 DEF Applied
  <2>2. CASE ~Running(d)
    <3>1. Called(d)
      BY <2>2, TurnFacts DEF Control, Open
    <3>2. handler[d].pc = "idle"
      BY <3>1 DEF Control, Base, Queued, Called
    <3> QED BY <1>3, <3>2
  <2> QED BY <2>1, <2>2
<1> QED BY <1>1, <1>2, <1>3 DEF Step, Marks

LEMMA FailedStays ==
  ASSUME Control, Applied, TypeOK', NEW d, NEW w, Step(d, w), NoFailed'
  PROVE  NoFailed
BY VerdictKept, OneKind DEF NoFailed, Statuses

LEMMA AppliedSteps ==
  ASSUME Control, Applied, TypeOK', NEW d, NEW w, Step(d, w)
  PROVE  Applied'
<1>1. /\ Base /\ d \in Requests /\ Open(d)
      /\ \A e \in Requests : e # d => handler'[e] = handler[e] /\ (Running(e)' <=> Running(e))
      /\ Running(d) => ~Called(d)
      /\ Marks(d) /\ Path(d)
  BY TurnFacts DEF Step, Control
<1>2. /\ restoreResults \in [RestoreIds -> Statuses \union {None}]
      /\ restoreResults' \in [RestoreIds -> Statuses \union {None}]
      /\ applied \in [RestoreIds -> Nat] /\ applied' \in [RestoreIds -> Nat]
      /\ None \notin Statuses
  BY <1>1, Types, OneKind DEF Base, TypeOK, SimTypeOK
<1>3. \A r \in Restores : r \in Requests
  BY DEF Requests
<1>4. \A r \in Restores : r # d /\ Open(r) => d \notin Restores
  BY <1>1 DEF Control, Guarded
<1>5. Running(d) /\ d \in Restores /\ handler'[d].pc # "done" => handler'[d].rid = handler[d].rid
  BY <1>1 DEF Path, RidOf, Called
<1>6. ASSUME NEW r \in Restores, Running(r)'
      PROVE  restoreResults'[handler'[r].rid] = None
  <2>1. CASE r # d
    <3>1. Running(r) /\ handler'[r] = handler[r] /\ Open(r)
      BY <1>1, <1>3, <1>6, <2>1 DEF Open
    <3>2. restoreResults' = restoreResults
      BY <1>1, <1>4, <2>1, <3>1 DEF Marks
    <3> QED BY <3>1, <3>2 DEF Applied
  <2>2. CASE r = d
    <3>1. handler'[d].pc # "done" /\ restoreResults' = restoreResults
      BY <1>1, <1>6, <2>2 DEF Running, Marks
    <3>2. CASE Running(d)
      BY <1>5, <2>2, <3>1, <3>2 DEF Applied
    <3>3. CASE ~Running(d)
      <4>1. handler[d].pc = "idle"
        BY <1>1, <3>3 DEF Open, Called, Base, Queued
      <4> QED BY <1>1, <2>2, <3>1, <4>1 DEF Marks
    <3> QED BY <3>2, <3>3
  <2> QED BY <2>1, <2>2
<1>7. ASSUME NEW x \in RestoreIds
      PROVE  /\ applied'[x] <= 1
             /\ restoreResults'[x] = None =>
                  \/ applied'[x] = 0
                  \/ \E r \in Restores : Running(r)' /\ handler'[r].rid = x
                       /\ handler'[r].pc \notin {"validating", "saving", "restoring"}
  <2>1. /\ applied[x] <= 1 /\ applied[x] \in Nat
        /\ restoreResults[x] = None =>
             \/ applied[x] = 0
             \/ \E r \in Restores : Running(r) /\ handler[r].rid = x
                  /\ handler[r].pc \notin {"validating", "saving", "restoring"}
    BY <1>2 DEF Applied
  <2>2. restoreResults'[x] = None => restoreResults[x] = None
    BY VerdictKept
  <2>3. CASE applied'[x] = applied[x]
    <3> SUFFICES ASSUME restoreResults'[x] = None, NEW r \in Restores, Running(r), handler[r].rid = x,
                        handler[r].pc \notin {"validating", "saving", "restoring"}
                 PROVE  Running(r)' /\ handler'[r].rid = x /\ handler'[r].pc \notin {"validating", "saving", "restoring"}
      BY <2>1, <2>2, <2>3
    <3>1. CASE r # d
      BY <1>1, <1>3, <3>1
    <3>2. CASE r = d
      <4>1. handler'[d].pc # "done"
        <5> SUFFICES ASSUME handler'[d].pc = "done" PROVE FALSE
          OBVIOUS
        <5>1. PICK y \in RestoreIds, status \in Statuses :
                RidOf(d, y) /\ restoreResults' = [restoreResults EXCEPT ![y] = status]
          BY <1>1, <3>2 DEF Marks
        <5>2. y = x
          BY <1>1, <3>2, <5>1 DEF RidOf, Called
        <5> QED BY <1>2, <5>1, <5>2
      <4>2. handler'[d].pc \notin {"validating", "saving", "restoring"}
        BY <1>1, <3>2 DEF Marks, Trying
      <4>3. handler'[d].pc # "idle"
        BY DEF Step, Turn
      <4> QED BY <1>5, <3>2, <4>1, <4>2, <4>3 DEF Running
    <3> QED BY <3>1, <3>2
  <2>4. CASE applied'[x] # applied[x]
    <3>1. /\ d \in Restores /\ handler[d].pc = "restoring" /\ handler'[d].pc = "reconciling"
          /\ handler'[d].rid = handler[d].rid /\ handler[d].rid = x
          /\ applied'[x] = applied[x] + 1
      BY <1>1, <1>2, <2>4 DEF Marks
    <3>2. Running(d) /\ restoreResults[x] = None
      BY <3>1 DEF Running, Applied
    <3>3. applied[x] = 0
      <4> SUFFICES ASSUME NEW r \in Restores, Running(r),
                          handler[r].pc \notin {"validating", "saving", "restoring"}
                   PROVE  FALSE
        BY <2>1, <3>2
      <4>1. r = d
        BY <1>4, <3>1 DEF Open
      <4> QED BY <3>1, <4>1
    <3>4. Running(d)'
      BY <3>1 DEF Running
    <3> QED BY <3>1, <3>3, <3>4
  <2> QED BY <2>3, <2>4
<1> QED BY <1>6, <1>7 DEF Applied

-----------------------------------------------------------------------------
(* What messages make of a scene's items.                                  *)

\* The messages q make T of S, each being allowed.
Makes(q, S, T) ==
  \E f \in [0 .. Len(q) -> SUBSET Items] :
    /\ f[0] = S /\ f[Len(q)] = T
    /\ \A k \in 1 .. Len(q) :
         /\ f[k] = Changed(f[k - 1], q[k])
         /\ q[k].type = "item_create" => f[k - 1] \intersect q[k].items = {}

LEMMA MakesNone ==
  ASSUME NEW v \in Seq(Messages), NoItems(v), NEW S \in SUBSET Items
  PROVE  Makes(v, S, S)
<1> DEFINE f == [k \in 0 .. Len(v) |-> S]
<1>1. Len(v) \in Nat
  OBVIOUS
<1>2. f \in [0 .. Len(v) -> SUBSET Items] /\ f[0] = S /\ f[Len(v)] = S
  BY <1>1
<1>3. ASSUME NEW k \in 1 .. Len(v)
      PROVE  f[k] = Changed(f[k - 1], v[k]) /\ v[k].type # "item_create"
  <2>1. f[k] = S /\ f[k - 1] = S
    BY <1>1
  <2> QED BY <2>1 DEF Changed, NoItems, ItemWords
<1> HIDE DEF f
<1> QED BY <1>2, <1>3 DEF Makes

LEMMA MakesDelete ==
  ASSUME NEW S \in SUBSET Items, NEW D \in SUBSET Items
  PROVE  Makes(ItemDelete(D), S, S \ D)
<1> DEFINE f == [k \in 0 .. 1 |-> IF k = 0 THEN S ELSE S \ D]
           g == [k \in 0 .. 0 |-> S]
           q == ItemDelete(D)
<1>1. /\ Len(q) = IF D = {} THEN 0 ELSE 1
      /\ D # {} => q[1].type = "item_delete" /\ q[1].items = D
  BY ItemMessages
<1>2. f \in [0 .. 1 -> SUBSET Items] /\ f[0] = S /\ f[1] = S \ D
  OBVIOUS
<1>3. g \in [0 .. 0 -> SUBSET Items] /\ g[0] = S
  OBVIOUS
<1> HIDE DEF f, g, q
<1>4. CASE D = {}
  <2>1. Len(q) = 0 /\ S \ D = S
    BY <1>1, <1>4
  <2> QED BY <1>3, <2>1 DEF Makes, q
<1>5. CASE D # {}
  <2>1. Len(q) = 1 /\ f[1] = Changed(f[0], q[1]) /\ q[1].type # "item_create"
    BY <1>1, <1>2, <1>5 DEF Changed
  <2>2. \A k \in 1 .. Len(q) : f[k] = Changed(f[k - 1], q[k]) /\ q[k].type # "item_create"
    BY <2>1
  <2> QED BY <1>2, <2>1, <2>2 DEF Makes, q
<1> QED BY <1>4, <1>5

LEMMA MakesCreate ==
  ASSUME NEW S \in SUBSET Items, NEW D \in SUBSET Items, S \intersect D = {}
  PROVE  Makes(ItemCreate(D), S, S \union D)
<1> DEFINE f == [k \in 0 .. 1 |-> IF k = 0 THEN S ELSE S \union D]
           g == [k \in 0 .. 0 |-> S]
           q == ItemCreate(D)
<1>1. /\ Len(q) = IF D = {} THEN 0 ELSE 1
      /\ D # {} => q[1].type = "item_create" /\ q[1].items = D
  BY ItemMessages
<1>2. f \in [0 .. 1 -> SUBSET Items] /\ f[0] = S /\ f[1] = S \union D
  OBVIOUS
<1>3. g \in [0 .. 0 -> SUBSET Items] /\ g[0] = S
  OBVIOUS
<1> HIDE DEF f, g, q
<1>4. CASE D = {}
  <2>1. Len(q) = 0 /\ S \union D = S
    BY <1>1, <1>4
  <2> QED BY <1>3, <2>1 DEF Makes, q
<1>5. CASE D # {}
  <2>1. Len(q) = 1 /\ f[1] = Changed(f[0], q[1]) /\ f[0] \intersect q[1].items = {}
    BY <1>1, <1>2, <1>5 DEF Changed
  <2>2. \A k \in 1 .. Len(q) : f[k] = Changed(f[k - 1], q[k]) /\ f[k - 1] \intersect q[k].items = {}
    BY <2>1
  <2> QED BY <1>2, <2>1, <2>2 DEF Makes, q
<1> QED BY <1>4, <1>5

LEMMA MakesBoth ==
  ASSUME NEW v \in Seq(Messages), NEW u \in Seq(Messages), NEW S, NEW T, NEW U,
         Makes(v, S, T), Makes(u, T, U)
  PROVE  Makes(v \o u, S, U)
<1> DEFINE n == Len(v)
           m == Len(u)
           q == v \o u
<1>1. /\ n \in Nat /\ m \in Nat /\ Len(q) = n + m
      /\ \A k \in 1 .. n : q[k] = v[k]
      /\ \A k \in 1 .. m : q[n + k] = u[k]
  BY Appended
<1>2. PICK f \in [0 .. n -> SUBSET Items] :
        /\ f[0] = S /\ f[n] = T
        /\ \A k \in 1 .. n :
             /\ f[k] = Changed(f[k - 1], v[k])
             /\ v[k].type = "item_create" => f[k - 1] \intersect v[k].items = {}
  BY DEF Makes
<1>3. PICK g \in [0 .. m -> SUBSET Items] :
        /\ g[0] = T /\ g[m] = U
        /\ \A k \in 1 .. m :
             /\ g[k] = Changed(g[k - 1], u[k])
             /\ u[k].type = "item_create" => g[k - 1] \intersect u[k].items = {}
  BY DEF Makes
<1> HIDE DEF n, m, q
<1> DEFINE h == [k \in 0 .. (n + m) |-> IF k <= n THEN f[k] ELSE g[k - n]]
<1>4. h \in [0 .. (n + m) -> SUBSET Items]
  BY <1>1, <1>2, <1>3
<1>5. \A k \in 0 .. n : h[k] = f[k]
  BY <1>1
<1>6. \A k \in 0 .. m : h[n + k] = g[k]
  <2> SUFFICES ASSUME NEW k \in 0 .. m PROVE h[n + k] = g[k]
    OBVIOUS
  <2>1. CASE k = 0
    BY <1>1, <1>2, <1>3, <1>5, <2>1
  <2>2. CASE k # 0
    <3>1. n + k \in 0 .. (n + m) /\ ~(n + k <= n) /\ (n + k) - n = k
      BY <1>1, <2>2
    <3> QED BY <3>1
  <2> QED BY <2>1, <2>2
<1> HIDE DEF h
<1>7. h[0] = S /\ h[n + m] = U
  BY <1>1, <1>2, <1>3, <1>5, <1>6
<1>8. ASSUME NEW k \in 1 .. (n + m)
      PROVE  /\ h[k] = Changed(h[k - 1], q[k])
             /\ q[k].type = "item_create" => h[k - 1] \intersect q[k].items = {}
  <2>1. CASE k <= n
    <3>1. k \in 1 .. n /\ k \in 0 .. n /\ k - 1 \in 0 .. n
      BY <1>1, <2>1
    <3> QED BY <1>1, <1>2, <1>5, <3>1
  <2>2. CASE k > n
    <3> DEFINE i == k - n
    <3>1. i \in 1 .. m /\ i \in 0 .. m /\ i - 1 \in 0 .. m /\ n + i = k /\ n + (i - 1) = k - 1
      BY <1>1, <2>2
    <3> HIDE DEF i
    <3>2. q[k] = u[i] /\ h[k] = g[i] /\ h[k - 1] = g[i - 1]
      BY <1>1, <1>6, <3>1
    <3> QED BY <1>3, <3>1, <3>2
  <2> QED BY <1>1, <2>1, <2>2
<1> QED BY <1>1, <1>4, <1>7, <1>8 DEF Makes, q

\* What is said next takes the scene from T to U.
LEMMA LeadsOn ==
  ASSUME toRen \in Seq(Messages), NEW w \in Seq(Messages), toRen' = toRen \o w,
         NEW S, NEW n \in 0 .. Len(toRen), NEW T, NEW U, Leads(S, n, T), Makes(w, T, U)
  PROVE  Leads(S, n, U)'
<1> DEFINE L == Len(toRen)
           m == Len(w)
<1>1. /\ L \in Nat /\ m \in Nat /\ Len(toRen') = L + m /\ n \in Nat /\ n <= L
      /\ \A k \in 1 .. L : toRen'[k] = toRen[k]
      /\ \A k \in 1 .. m : toRen'[L + k] = w[k]
  BY Appended
<1>2. PICK f \in [n .. L -> SUBSET Items] :
        /\ f[n] = S /\ f[L] = T
        /\ \A k \in (n + 1) .. L :
             /\ f[k] = Changed(f[k - 1], toRen[k])
             /\ toRen[k].type = "item_create" => f[k - 1] \intersect toRen[k].items = {}
  BY DEF Leads
<1>3. PICK g \in [0 .. m -> SUBSET Items] :
        /\ g[0] = T /\ g[m] = U
        /\ \A k \in 1 .. m :
             /\ g[k] = Changed(g[k - 1], w[k])
             /\ w[k].type = "item_create" => g[k - 1] \intersect w[k].items = {}
  BY DEF Makes
<1> DEFINE q == toRen'
<1>4. /\ Len(q) = L + m
      /\ \A k \in 1 .. L : q[k] = toRen[k]
      /\ \A k \in 1 .. m : q[L + k] = w[k]
  BY <1>1
<1> HIDE DEF L, m, q
<1> DEFINE h == [k \in n .. (L + m) |-> IF k <= L THEN f[k] ELSE g[k - L]]
<1>5. h \in [n .. (L + m) -> SUBSET Items]
  BY <1>1, <1>2, <1>3
<1>6. \A k \in n .. L : h[k] = f[k]
  BY <1>1
<1>7. \A k \in 0 .. m : h[L + k] = g[k]
  <2> SUFFICES ASSUME NEW k \in 0 .. m PROVE h[L + k] = g[k]
    OBVIOUS
  <2>1. CASE k = 0
    BY <1>1, <1>2, <1>3, <1>6, <2>1
  <2>2. CASE k # 0
    <3>1. L + k \in n .. (L + m) /\ ~(L + k <= L) /\ (L + k) - L = k
      BY <1>1, <2>2
    <3> QED BY <3>1
  <2> QED BY <2>1, <2>2
<1> HIDE DEF h
<1>8. h[n] = S /\ h[L + m] = U
  BY <1>1, <1>2, <1>3, <1>6, <1>7
<1>9. ASSUME NEW k \in (n + 1) .. (L + m)
      PROVE  /\ h[k] = Changed(h[k - 1], q[k])
             /\ q[k].type = "item_create" => h[k - 1] \intersect q[k].items = {}
  <2>1. CASE k <= L
    <3>1. k \in (n + 1) .. L /\ k \in 1 .. L /\ k \in n .. L /\ k - 1 \in n .. L
      BY <1>1, <2>1
    <3> QED BY <1>2, <1>4, <1>6, <3>1
  <2>2. CASE k > L
    <3> DEFINE i == k - L
    <3>1. i \in 1 .. m /\ i \in 0 .. m /\ i - 1 \in 0 .. m /\ L + i = k /\ L + (i - 1) = k - 1
      BY <1>1, <2>2
    <3> HIDE DEF i
    <3>2. q[k] = w[i] /\ h[k] = g[i] /\ h[k - 1] = g[i - 1]
      BY <1>4, <1>7, <3>1
    <3> QED BY <1>3, <3>1, <3>2
  <2>3. k \in Int /\ L \in Int
    BY <1>1
  <2>4. k <= L \/ k > L
    BY <2>3
  <2> QED BY <2>1, <2>2, <2>4
<1>10. \E ff \in [n .. Len(q) -> SUBSET Items] :
         /\ ff[n] = S /\ ff[Len(q)] = U
         /\ \A k \in (n + 1) .. Len(q) :
              /\ ff[k] = Changed(ff[k - 1], q[k])
              /\ q[k].type = "item_create" => ff[k - 1] \intersect q[k].items = {}
  BY <1>4, <1>5, <1>8, <1>9
<1> QED BY <1>10 DEF Leads, q, Changed

\* The sync d has just taken up empties the baseline and its staging scene.
Restarts(d) ==
  /\ d \in Syncs /\ handler[d].pc \in {"idle", "initializing"}
  /\ handler'[d].pc \in {"initializing", "replaying"}

LEMMA PushedSteps ==
  ASSUME Control, Control', TypeOK', NEW d, NEW w, Step(d, w), ~Restarts(d),
         NEW T \in SUBSET Items, Pushed(T)
  PROVE  \E U \in SUBSET Items : Pushed(U)' /\ Makes(w, T, U)
<1>1. /\ d \in Requests /\ Base /\ w \in Seq(Messages)
      /\ \A e \in Requests : e # d => handler'[e] = handler[e] /\ (Engaged(e)' <=> Engaged(e))
  BY TurnFacts DEF Control, Step, Turn
<1>2. /\ model \in SUBSET Items /\ syncedItems \in SUBSET Items /\ syncedItems' \in SUBSET Items
  BY <1>1, Types DEF Base, TypeOK, SimTypeOK
<1>3. \A e \in Requests : handler[e].pc = "pushed" => e \in Ops /\ Engaged(e)
  BY <1>1, Pushers DEF Base, PushPcs
<1>4. \A e \in Requests : d \in Ops /\ (Engaged(d) \/ Engaged(d)') /\ handler[e].pc = "pushed" => e = d
  BY <1>1, <1>3 DEF Control, Busy
<1>5. CASE /\ syncedItems' = syncedItems /\ NoItems(w)
           /\ handler[d].pc # "pushed" /\ handler'[d].pc # "pushed"
  <2>1. \A e \in Requests : /\ handler'[e].pc = "pushed" <=> handler[e].pc = "pushed"
                            /\ handler[e].pc = "pushed" => handler'[e] = handler[e]
    BY <1>1, <1>5
  <2>2. Pushed(T)'
    BY <1>5, <2>1 DEF Pushed
  <2> QED BY <1>1, <1>5, <2>2, MakesNone
<1>6. CASE /\ d \in Ops /\ handler[d].pc = "pushing" /\ handler'[d].pc = "pushed"
           /\ syncedItems' = syncedItems /\ handler'[d].snap = model
           /\ w = ItemDelete(syncedItems \ model) \o ItemCreate(model \ syncedItems)
  <2>1. Engaged(d)
    BY <1>6 DEF Engaged, Running
  <2>2. \A e \in Requests : handler[e].pc # "pushed"
    BY <1>4, <1>6, <2>1
  <2>3. T = syncedItems
    BY <2>2 DEF Pushed
  <2>4. PICK M \in SUBSET Items : M = model
    BY <1>2
  <2>5. Pushed(M)'
    <3>1. \A e \in Requests : handler'[e].pc = "pushed" => e = d
      BY <1>1, <2>2
    <3> QED BY <1>1, <1>6, <2>4, <3>1 DEF Pushed
  <2>6. Makes(w, T, M)
    <3> DEFINE D == T \ M
               C == M \ T
    <3>1. D \in SUBSET Items /\ C \in SUBSET Items /\ T \ D \in SUBSET Items
          /\ (T \ D) \intersect C = {} /\ (T \ D) \union C = M
      OBVIOUS
    <3>2. w = ItemDelete(D) \o ItemCreate(C)
      BY <1>6, <2>3, <2>4
    <3> HIDE DEF D, C
    <3>3. ItemDelete(D) \in Seq(Messages) /\ ItemCreate(C) \in Seq(Messages)
      BY <3>1, ItemMessages
    <3>4. Makes(ItemDelete(D), T, T \ D)
      BY <3>1, MakesDelete
    <3>5. Makes(ItemCreate(C), T \ D, M)
      BY <3>1, MakesCreate
    <3> QED BY <3>2, <3>3, <3>4, <3>5, MakesBoth
  <2> QED BY <2>5, <2>6
<1>7. CASE /\ d \in Ops /\ handler[d].pc = "pushed" /\ handler'[d].pc # "pushed"
           /\ syncedItems' = handler[d].snap /\ w = <<>>
  <2>1. T = handler[d].snap
    BY <1>1, <1>7 DEF Pushed
  <2>2. \A e \in Requests : handler'[e].pc # "pushed"
    BY <1>1, <1>3, <1>4, <1>7
  <2>3. Pushed(T)'
    BY <1>7, <2>1, <2>2 DEF Pushed
  <2>4. NoItems(w)
    BY <1>7 DEF NoItems
  <2> QED BY <1>1, <2>3, <2>4, MakesNone
<1>8. CASE /\ d \in Ops /\ Engaged(d)' /\ handler[d].pc # "pushed" /\ handler'[d].pc # "pushed"
           /\ syncedItems' = {}
           /\ \E v \in Seq(Messages) : w = v \o ItemDelete(syncedItems) /\ NoItems(v)
  <2>1. \A e \in Requests : e # d /\ handler[e].pc = "pushed" => FALSE
    <3> SUFFICES ASSUME NEW e \in Requests, e # d, handler[e].pc = "pushed" PROVE FALSE
      OBVIOUS
    <3>1. e \in Ops /\ Engaged(e)'
      BY <1>1, <1>3
    <3> QED BY <1>8, <3>1 DEF Control, Busy
  <2>2. T = syncedItems
    BY <1>8, <2>1 DEF Pushed
  <2>3. PICK U \in SUBSET Items : U = {}
    OBVIOUS
  <2>4. Pushed(U)'
    <3>1. \A e \in Requests : handler'[e].pc # "pushed"
      BY <1>1, <1>8, <2>1
    <3> QED BY <1>8, <2>3, <3>1 DEF Pushed
  <2>5. PICK v \in Seq(Messages) : w = v \o ItemDelete(T) /\ NoItems(v)
    BY <1>8, <2>2
  <2>6. Makes(v, T, T) /\ Makes(ItemDelete(T), T, U) /\ ItemDelete(T) \in Seq(Messages)
    <3>1. T \ T = U
      BY <2>3
    <3> QED BY <2>5, <3>1, MakesNone, MakesDelete, ItemMessages
  <2> QED BY <2>4, <2>5, <2>6, MakesBoth
<1>9. Pushes(d, w)
  BY DEF Step
<1> QED BY <1>5, <1>6, <1>7, <1>8, <1>9 DEF Pushes, Restarts

\* The scene in hand, and what it will be.
LEMMA LeadsSteps ==
  ASSUME Control, Control', TypeOK', NEW d, NEW w, Step(d, w), ~Restarts(d),
         NEW S, NEW n \in 0 .. Len(toRen), NEW T \in SUBSET Items, Pushed(T), Leads(S, n, T)
  PROVE  \E U \in SUBSET Items : Pushed(U)' /\ Leads(S, n, U)'
<1>1. PICK U \in SUBSET Items : Pushed(U)' /\ Makes(w, T, U)
  BY PushedSteps
<1>2. toRen \in Seq(Messages) /\ w \in Seq(Messages) /\ toRen' = toRen \o w
  BY TurnSaid DEF Control
<1>3. Leads(S, n, U)'
  BY <1>1, <1>2, LeadsOn
<1> QED BY <1>1, <1>3

LEMMA TracksSteps ==
  ASSUME Control, Control', Applied, Tracks, TypeOK', NEW d, NEW w, Step(d, w)
  PROVE  Tracks'
<1> DEFINE L == Len(toRen)
<1>1. /\ UNCHANGED renVars /\ Base /\ d \in Requests /\ Open(d) /\ ~Called(d)'
      /\ handler[d].pc = "idle" => Called(d)
      /\ Running(d) => ~Called(d)
      /\ \A e \in Requests : e # d => handler'[e] = handler[e] /\ (Engaged(e)' <=> Engaged(e))
                                       /\ (Called(e)' <=> Called(e))
  BY TurnFacts DEF Step, Turn, Control
<1>2. /\ toRen \in Seq(Messages) /\ L \in Nat /\ Len(w) \in Nat /\ Len(toRen') = L + Len(w)
      /\ \A k \in Said : k \in Said' /\ toRen'[k] = toRen[k]
      /\ \A k \in Said' : \/ k \in Said /\ toRen'[k] = toRen[k]
                          \/ k - L \in 1 .. Len(w) /\ toRen'[k] = w[k - L] /\ k > L
      /\ \A k \in Said' : k \in Nat /\ k <= L + Len(w)
      /\ \A k \in 1 .. Len(w) : L + k \in Said' /\ toRen'[L + k] = w[k]
  BY <1>1, TurnSaid
<1>3. \A k \in Said : k \in 0 .. L
  BY <1>2 DEF Said
<1> SUFFICES ASSUME NoFailed' PROVE Tracks'
  BY DEF Tracks
<1>4. NoFailed
  BY FailedStays
<1>5. /\ transaction # None \/ (~syncRequired /\ Settled) =>
           \E T \in SUBSET Items : Pushed(T) /\ Leads(Shown, 0, T)
      /\ \A s \in Syncs, k \in Said : Asks("state-sync", s) /\ BeginOf(toRen[k], s) =>
           \E T \in SUBSET Items : Pushed(T) /\ Leads({}, k, T)
      /\ \A k \in Said : toRen[k].type = "scene_restore_end" =>
           /\ toRen[k].status # "failed"
           /\ toRen[k].status = "rejected" =>
                IF k = 1 THEN Asking("scene-restore") /\ transaction # None => transaction.staging.items = scene.items
                ELSE toRen[k - 1].type = "scene_restore_begin"
  BY <1>4 DEF Tracks
<1>6. Settled' => Settled
  <2> SUFFICES ASSUME Settled', NEW s \in Syncs, Asks("state-sync", s)
               PROVE  Called(s) \/ \E k \in Said : ErrorOf(toRen[k], s)
    BY DEF Settled
  <2>1. s \in Requests
    BY DEF Requests
  <2>2. Called(s)' \/ \E k \in Said' : ErrorOf(toRen'[k], s)
    BY <1>1, RenvarsKept DEF Settled
  <2>3. CASE Called(s)'
    BY <1>1, <2>1, <2>3
  <2>4. ASSUME NEW k \in Said', ErrorOf(toRen'[k], s)
        PROVE  Called(s) \/ \E l \in Said : ErrorOf(toRen[l], s)
    <3>1. CASE k \in Said /\ toRen'[k] = toRen[k]
      BY <2>4, <3>1
    <3>2. CASE k - L \in 1 .. Len(w) /\ toRen'[k] = w[k - L]
      BY <1>1, <2>4, <3>2, WordFacts DEF ErrorOf, OfSync, SyncWords
    <3> QED BY <1>2, <3>1, <3>2
  <2> QED BY <2>2, <2>3, <2>4
<1>7. ASSUME Restarts(d)
      PROVE  transaction = None /\ ~(~syncRequired /\ Settled')
  <2>1. d \in Syncs /\ handler'[d].pc \in {"initializing", "replaying"} /\ d \in Ops
        /\ (Called(d) \/ handler[d].pc = "initializing")
    BY <1>1, <1>7 DEF Restarts, Ops
  <2>2. transaction = None
    <3> SUFFICES ASSUME transaction # None PROVE FALSE
      OBVIOUS
    <3>1. transaction \in Transactions /\ activeRequest \in Controls
          /\ transaction.kind = activeRequest.kind /\ transaction.id = activeRequest.id
      BY <1>1 DEF Control, Guarded, Base, TypeOK
    <3>2. CASE activeRequest.kind = "state-sync"
      <4>1. PICK s \in Syncs : Asks("state-sync", s)
        BY <3>1, <3>2 DEF Controls, Asks
      <4>2. d = s
        BY <1>1, <2>1, <4>1 DEF Control, Alone, Accepted
      <4> QED BY <2>1, <4>1, <4>2 DEF Control, Alone
    <3>3. CASE activeRequest.kind # "state-sync"
      <4>1. ~syncRequired
        BY <1>1, <3>1, <3>3 DEF Control, Guarded
      <4> QED BY <1>1, <2>1, <3>3, <4>1 DEF Control, Known, Asks
    <3> QED BY <3>2, <3>3
  <2>3. ASSUME ~syncRequired, Settled' PROVE FALSE
    <3>1. Asks("state-sync", d)
      BY <1>1, <2>1, <2>3 DEF Control, Known
    <3>2. PICK k \in Said' : ErrorOf(toRen'[k], d)
      BY <1>1, <2>1, <2>3, <3>1, RenvarsKept DEF Settled
    <3>3. OfSync(toRen'[k], d) /\ ~BeginOf(toRen'[k], d)
      BY <3>2 DEF ErrorOf, BeginOf, OfSync, SyncWords
    <3>4. ~Open(d)'
      BY <2>1, <3>3 DEF Control, Ending
    <3> QED BY <2>1, <3>4 DEF Open, Running
  <2> QED BY <2>2, <2>3
<1>8. ASSUME transaction' # None \/ (~syncRequired' /\ Settled')
      PROVE  \E T \in SUBSET Items : Pushed(T)' /\ Leads(Shown, 0, T)'
  <2>1. transaction # None \/ (~syncRequired /\ Settled')
    BY <1>1, <1>8, RenvarsKept
  <2>2. ~Restarts(d)
    BY <1>7, <2>1
  <2>3. PICK T \in SUBSET Items : Pushed(T) /\ Leads(Shown, 0, T)
    BY <1>5, <1>6, <2>1
  <2>4. PICK S : S = Shown
    OBVIOUS
  <2>5. 0 \in 0 .. Len(toRen)
    BY <1>2
  <2>6. PICK U \in SUBSET Items : Pushed(U)' /\ Leads(S, 0, U)'
    BY <2>2, <2>3, <2>4, <2>5, LeadsSteps
  <2>7. S = Shown'
    BY <1>1, <2>4, RenvarsKept
  <2>8. Leads(Shown, 0, U)'
    BY <2>6, <2>7 DEF Leads
  <2> QED BY <2>6, <2>8
<1>9. ASSUME NEW s \in Syncs, NEW k \in Said', Asks("state-sync", s), BeginOf(toRen'[k], s)
      PROVE  \E T \in SUBSET Items : Pushed(T)' /\ Leads({}, k, T)'
  <2>1. OfSync(toRen'[k], s) /\ s \in Ops
    BY <1>9 DEF BeginOf, OfSync, SyncWords, Ops
  <2>2. CASE k \in Said /\ toRen'[k] = toRen[k]
    <3>1. PICK T \in SUBSET Items : Pushed(T) /\ Leads({}, k, T)
      BY <1>5, <1>9, <2>2
    <3>2. Accepted(s) /\ ~Called(s) /\ handler[s].pc # "initializing"
      BY <1>9, <2>1, <2>2 DEF Accepted, Control, Ending
    <3>3. ~Restarts(d)
      <4> SUFFICES ASSUME Restarts(d) PROVE FALSE
        OBVIOUS
      <4>1. d = s
        BY <1>1, <1>9, <3>2 DEF Restarts, Control, Alone, Ops
      <4> QED BY <1>1, <3>2, <4>1 DEF Restarts
    <3> QED BY <1>3, <2>2, <3>1, <3>3, LeadsSteps
  <2>3. CASE k - L \in 1 .. Len(w) /\ toRen'[k] = w[k - L]
    <3>1. /\ s = d /\ Len(w) = 1 /\ handler'[d].pc = "replaying" /\ syncedItems' = {}
      BY <1>1, <1>9, <2>1, <2>3, WordFacts
    <3>2. k = Len(toRen')
      <4>1. k - L \in 1 .. 1 /\ k \in Nat /\ Len(toRen') = L + 1
        BY <1>2, <2>3, <3>1
      <4> QED BY <1>2, <4>1
    <3>3. Engaged(d)' /\ d \in Ops
      BY <2>1, <3>1 DEF Engaged, Running
    <3>4. \A e \in Requests : handler'[e].pc # "pushed"
      <4> SUFFICES ASSUME NEW e \in Requests, handler'[e].pc = "pushed", e # d PROVE FALSE
        BY <3>1
      <4>1. handler[e].pc = "pushed"
        BY <1>1
      <4>2. e \in Ops /\ Engaged(e)
        BY <1>1, <4>1, Pushers DEF Base, PushPcs
      <4> QED BY <1>1, <3>3, <4>2 DEF Control, Busy
    <3>5. PICK U \in SUBSET Items : U = {}
      OBVIOUS
    <3>6. Pushed(U)'
      BY <3>1, <3>4, <3>5 DEF Pushed
    <3>7. Leads(U, Len(toRen), U)'
      <4>1. toRen' \in Seq(Messages)
        BY DEF TypeOK, SimTypeOK
      <4> DEFINE q == toRen'
                 n == Len(q)
                 f == [j \in n .. n |-> U]
      <4>2. n \in Nat
        BY <4>1
      <4>3. f \in [n .. n -> SUBSET Items] /\ f[n] = U /\ \A j \in (n + 1) .. n : FALSE
        BY <4>2
      <4> HIDE DEF f
      <4> QED BY <4>3 DEF Leads
    <3> QED BY <3>2, <3>5, <3>6, <3>7 DEF Leads
  <2> QED BY <1>2, <2>2, <2>3
<1>10. ASSUME NEW k \in Said', toRen'[k].type = "scene_restore_end"
       PROVE  /\ toRen'[k].status # "failed"
              /\ toRen'[k].status = "rejected" =>
                   IF k = 1 THEN Asking("scene-restore") /\ transaction # None => transaction.staging.items = scene.items
                   ELSE toRen'[k - 1].type = "scene_restore_begin"
  <2>1. CASE k \in Said /\ toRen'[k] = toRen[k]
    <3>1. k # 1 => k - 1 \in Said
      BY <1>2, <2>1 DEF Said
    <3>2. k # 1 => toRen'[k - 1] = toRen[k - 1]
      BY <1>2, <3>1
    <3> QED BY <1>5, <1>10, <2>1, <3>2
  <2>2. CASE k - L \in 1 .. Len(w) /\ toRen'[k] = w[k - L] /\ k > L
    <3>1. Word(d, w, k - L)
      BY <1>1, <2>2, TurnSaid
    <3>2. /\ w[k - L].status = "failed" => ~NoFailed'
          /\ w[k - L].status = "rejected" => k - L = 2 /\ w[1].type = "scene_restore_begin"
      BY <1>10, <2>2, <3>1 DEF Word
    <3>3. ASSUME k - L = 2 PROVE k # 1 /\ toRen'[k - 1] = w[1]
      <4>1. k - 1 = L + 1 /\ k # 1 /\ 1 \in 1 .. Len(w)
        BY <1>2, <2>2, <3>3
      <4>2. toRen'[L + 1] = w[1]
        BY <1>2, <4>1
      <4> QED BY <4>1, <4>2
    <3> QED BY <2>2, <3>2, <3>3
  <2> QED BY <1>2, <2>1, <2>2
<1>11. /\ \A kind, id : Asks(kind, id)' <=> Asks(kind, id)
       /\ \A kind : Asking(kind)' <=> Asking(kind)
       /\ transaction' = transaction /\ scene' = scene
  BY <1>1, RenvarsKept
<1> QED BY <1>8, <1>9, <1>10, <1>11 DEF Tracks

\* The invariant.
Inv == Control /\ Answered /\ Applied /\ Tracks

LEMMA SimulatorKeepsInv ==
  ASSUME Inv, Dispatched \/ Resumed
  PROVE  Inv'
<1>1. PICK d, w : Step(d, w) /\ TypeOK' /\ Control'
  BY ControlSteps DEF Inv
<1> QED BY <1>1, AnsweredSteps, AppliedSteps, TracksSteps DEF Inv

LEMMA InitInv ==
  ASSUME Init
  PROVE  Inv
<1>1. /\ toSim = <<>> /\ toRen = <<>> /\ Len(toSim) = 0 /\ Len(toRen) = 0
      /\ \A d \in Requests : handler[d] = Idle
      /\ unsent = Requests /\ transaction = None /\ activeRequest = None
      /\ syncRequired = TRUE /\ runAction = None
      /\ restoreResults = [i \in RestoreIds |-> None] /\ applied = [i \in RestoreIds |-> 0]
  BY DEF Init, SimInit
<1>2. Idle \in Handlers /\ Idle.pc = "idle" /\ Idle.rid = None
  BY DEF Idle, Handlers
<1>3. SimTypeOK
  <2>1. toSim \in Seq(Calls) /\ toRen \in Seq(Messages)
    BY <1>1
  <2>2. handler \in [Requests -> Handlers]
    BY <1>2 DEF Init, SimInit
  <2>3. restoreResults \in [RestoreIds -> Statuses \union {None}] /\ applied \in [RestoreIds -> Nat]
    BY <1>1
  <2>4. /\ initialized \in BOOLEAN /\ actionInFlight \in BOOLEAN
        /\ activeTransaction \in {None, "state_sync", "scene_restore"}
        /\ model \in SUBSET Items /\ syncedItems \in SUBSET Items /\ param \in Values
        /\ thrown \subseteq Actions
    BY DEF Init, SimInit
  <2> QED BY <2>1, <2>2, <2>3, <2>4 DEF SimTypeOK
<1>4. TypeOK
  BY <1>1, <1>3 DEF Init, TypeOK, Empty, Scenes
<1>5. \A k \in 1 .. Len(toSim) : FALSE
  BY <1>1
<1>6. \A k \in Said : FALSE
  BY <1>1 DEF Said
<1>7. \A d \in Requests : handler[d].pc = "idle" /\ ~Called(d) /\ ~Running(d) /\ ~Open(d) /\ ~Engaged(d) /\ ~Early(d)
  BY <1>1, <1>2, <1>5 DEF Called, Running, Open, Engaged, Early
<1>8. /\ \A d \in Ops : d \in Requests
      /\ \A d \in Syncs : d \in Requests
      /\ \A d \in Actions : d \in Requests
      /\ \A d \in Restores : d \in Requests
      /\ \A d \in Captures : d \in Requests
  BY DEF Ops, Requests
<1>9. \A kind, id : ~Asking(kind) /\ (Asks(kind, id) /\ kind = "state-sync" => id \notin Syncs)
                    /\ (Asks(kind, id) /\ kind = "scene-capture" => id \notin Captures)
  BY <1>1, NoneAssumption DEF Asking, Asks, Controls
<1>10. Base
  <2>1. Placed
    BY <1>7 DEF Placed, Fits, Running
  <2>2. Queued
    BY <1>1, <1>5, <1>7 DEF Queued
  <2> QED BY <1>4, <2>1, <2>2 DEF Base
<1>11. Busy /\ Ending /\ Begun
  BY <1>6, <1>7, <1>8, <1>9 DEF Busy, Ending, Begun
<1>12. Guarded /\ Known /\ Patient /\ Alone
  BY <1>1, <1>5, <1>6, <1>7, <1>8, <1>9 DEF Guarded, Known, Patient, Alone
<1>13. Answered /\ Applied
  BY <1>1, <1>6, <1>7, <1>8, <1>9, OneKind DEF Answered, Applied
<1>14. Tracks
  BY <1>1, <1>6, <1>9 DEF Tracks
<1> QED BY <1>10, <1>11, <1>12, <1>13, <1>14 DEF Inv, Control

\* What the renderer waits for is one thing.
LEMMA Waits ==
  ASSUME TypeOK
  PROVE  /\ activeRequest = None => /\ \A kind : ~Asking(kind)
                                    /\ \A s \in Syncs : ~Asks("state-sync", s)
                                    /\ \A x \in RestoreIds : ~Asks("scene-restore", x)
                                    /\ \A c \in Captures : ~Asks("scene-capture", c)
         /\ \A s \in Syncs : Asks("state-sync", s) => Asking("state-sync")
         /\ \A x \in RestoreIds : Asks("scene-restore", x) => Asking("scene-restore")
         /\ \A c \in Captures : Asks("scene-capture", c) => Asking("scene-capture")
         /\ \A kind, other : Asking(kind) /\ Asking(other) => kind = other
         /\ \A kind, id, jd : Asks(kind, id) /\ Asks(kind, jd) => id = jd
         /\ Asking("state-sync") => activeRequest.id \in Syncs /\ Asks("state-sync", activeRequest.id)
         /\ Asking("scene-restore") => activeRequest.id \in RestoreIds /\ Asks("scene-restore", activeRequest.id)
         /\ Asking("scene-capture") => activeRequest.id \in Captures /\ Asks("scene-capture", activeRequest.id)
         /\ activeRequest # None => Asking("state-sync") \/ Asking("scene-restore") \/ Asking("scene-capture")
<1>1. activeRequest \in Controls \union {None}
  BY DEF TypeOK
<1>2. \A kind, id, jd : Asks(kind, id) /\ Asks(kind, jd) => id = jd
  <2> SUFFICES ASSUME NEW kind, NEW id, NEW jd, Asks(kind, id), Asks(kind, jd) PROVE id = jd
    OBVIOUS
  <2>1. activeRequest.id = id /\ activeRequest.id = jd
    BY DEF Asks
  <2> QED BY <2>1
<1>3. /\ \A s \in Syncs : [kind |-> "state-sync", id |-> s] \in Controls
      /\ \A x \in RestoreIds : [kind |-> "scene-restore", id |-> x] \in Controls
      /\ \A c \in Captures : [kind |-> "scene-capture", id |-> c] \in Controls
  BY DEF Controls
<1>4. /\ \A s \in Syncs : Asks("state-sync", s) => activeRequest # None /\ activeRequest.kind = "state-sync"
      /\ \A x \in RestoreIds : Asks("scene-restore", x) => activeRequest # None /\ activeRequest.kind = "scene-restore"
      /\ \A c \in Captures : Asks("scene-capture", c) => activeRequest # None /\ activeRequest.kind = "scene-capture"
  BY <1>3, NoneAssumption DEF Asks
<1>5. activeRequest # None =>
        \/ activeRequest.kind = "state-sync" /\ activeRequest.id \in Syncs /\ Asks("state-sync", activeRequest.id)
        \/ activeRequest.kind = "scene-restore" /\ activeRequest.id \in RestoreIds /\ Asks("scene-restore", activeRequest.id)
        \/ activeRequest.kind = "scene-capture" /\ activeRequest.id \in Captures /\ Asks("scene-capture", activeRequest.id)
  BY <1>1 DEF Controls, Asks
<1> QED BY <1>2, <1>4, <1>5 DEF Asking

-----------------------------------------------------------------------------
(* The renderer sends.                                                     *)

\* d is called; no other request, and no handler, moves.
LEMMA SentFacts ==
  ASSUME Base, NEW d \in Requests, NEW m \in Calls, m.at = d, Send(d, m)
  PROVE  /\ d \in unsent /\ d \notin unsent' /\ unsent' \subseteq unsent
         /\ toRen' = toRen /\ handler' = handler /\ restoreResults' = restoreResults
         /\ applied' = applied /\ thrown' = thrown /\ syncedItems' = syncedItems
         /\ activeTransaction' = activeTransaction /\ (actionInFlight' <=> actionInFlight)
         /\ handler[d].pc = "idle" /\ ~Open(d) /\ ~Early(d) /\ Called(d)'
         /\ \A e : e # d => (Called(e)' <=> Called(e)) /\ (Open(e)' <=> Open(e)) /\ (Early(e)' <=> Early(e))
         /\ \A e : (Running(e)' <=> Running(e)) /\ (Engaged(e)' <=> Engaged(e))
         /\ \A e : Open(e) => Open(e)'
         /\ \A e, x : RidOf(e, x)' => RidOf(e, x) \/ (e = d /\ x = m.rid)
         /\ \A k, l \in 1 .. Len(toSim') : toSim'[k].at = d /\ k < l => FALSE
         /\ SimTypeOK' /\ Queued' /\ Placed'
<1>1. toSim \in Seq(Calls) /\ SimTypeOK /\ unsent \subseteq Requests
  BY DEF Base, TypeOK, SimTypeOK
<1>2. /\ d \in unsent /\ unsent' = unsent \ {d} /\ toSim' = Append(toSim, m)
      /\ UNCHANGED <<toRen, handler, bindingState, modelState, syncedItems, applied, thrown>>
  BY DEF Send
<1> DEFINE n == Len(toSim)
<1>3. /\ n \in Nat /\ Len(toSim') = n + 1 /\ toSim' \in Seq(Calls)
      /\ \A k \in 1 .. n : toSim'[k] = toSim[k]
      /\ toSim'[n + 1] = m
  BY <1>1, <1>2
<1>4. handler[d].pc = "idle" /\ ~Called(d)
  BY <1>2 DEF Base, Queued, Called
<1> HIDE DEF n
<1>5. \A k \in 1 .. (n + 1) : k \in 1 .. n \/ k = n + 1
  BY <1>3
<1>6. n + 1 \in 1 .. (n + 1) /\ \A k \in 1 .. n : k \in 1 .. (n + 1)
  BY <1>3
<1>7. Called(d)' /\ \A e : e # d => (Called(e)' <=> Called(e))
  <2>1. \A e : Called(e)' <=> Called(e) \/ e = d
    <3> TAKE e
    <3>1. Called(e)' => Called(e) \/ e = d
      BY <1>3, <1>5 DEF Called, n
    <3>2. Called(e) => Called(e)'
      BY <1>3, <1>6 DEF Called, n
    <3>3. Called(d)'
      BY <1>3, <1>6 DEF Called
    <3> QED BY <3>1, <3>2, <3>3
  <2> QED BY <2>1
<1>8. \A e : (Running(e)' <=> Running(e)) /\ (Engaged(e)' <=> Engaged(e))
  BY <1>2 DEF Running, Engaged
<1>9. /\ \A e : e # d => (Open(e)' <=> Open(e)) /\ (Early(e)' <=> Early(e))
      /\ \A e : Open(e) => Open(e)'
  BY <1>2, <1>7, <1>8 DEF Open, Early
<1>10. \A e, x : RidOf(e, x)' => RidOf(e, x) \/ (e = d /\ x = m.rid)
  <2> SUFFICES ASSUME NEW e, NEW x, RidOf(e, x)' PROVE RidOf(e, x) \/ (e = d /\ x = m.rid)
    OBVIOUS
  <2>1. CASE Running(e)' /\ handler'[e].rid = x
    BY <1>2, <1>8, <2>1 DEF RidOf
  <2>2. ASSUME NEW k \in 1 .. Len(toSim'), toSim'[k].at = e, toSim'[k].rid = x
        PROVE  RidOf(e, x) \/ (e = d /\ x = m.rid)
    BY <1>3, <1>5, <2>2 DEF RidOf, n
  <2> QED BY <2>1, <2>2 DEF RidOf
<1>11. \A k, l \in 1 .. Len(toSim') : toSim'[k].at = d /\ k < l => FALSE
  <2> SUFFICES ASSUME NEW k \in 1 .. (n + 1), NEW l \in 1 .. (n + 1), toSim'[k].at = d, k < l PROVE FALSE
    BY <1>3
  <2>1. k \in 1 .. n
    BY <1>3
  <2> QED BY <1>3, <1>4, <2>1 DEF Called, n
<1>12. SimTypeOK'
  BY <1>1, <1>2, <1>3 DEF SimTypeOK, bindingState, modelState
<1>13. Queued'
  <2>1. \A k \in 1 .. Len(toSim') : toSim'[k].at \notin unsent' /\ handler'[toSim'[k].at].pc = "idle"
    BY <1>2, <1>3, <1>4, <1>5 DEF Base, Queued, n
  <2>2. ASSUME NEW k \in 1 .. (n + 1), NEW l \in 1 .. (n + 1), toSim'[k].at = toSim'[l].at PROVE k = l
    <3>1. CASE k \in 1 .. n /\ l \in 1 .. n
      BY <1>3, <2>2, <3>1 DEF Base, Queued, n
    <3>2. CASE k = n + 1 \/ l = n + 1
      BY <1>3, <1>4, <1>5, <2>2, <3>2 DEF Called, n
    <3> QED BY <1>5, <3>1, <3>2
  <2> QED BY <1>2, <1>3, <2>1, <2>2 DEF Base, Queued
<1>14. Placed'
  BY <1>2, <1>8 DEF Base, Placed, Fits
<1>15. ~Open(d) /\ ~Early(d)
  BY <1>4 DEF Open, Early, Running
<1> QED BY <1>2, <1>4, <1>7, <1>8, <1>9, <1>10, <1>11, <1>12, <1>13, <1>14, <1>15
        DEF bindingState

\* The renderer sends only when it waits for nothing; unless it asks for the
\* scene, it has had the answer to everything else.
LEMMA FreeFacts ==
  ASSUME Inv, Free
  PROVE  /\ activeRequest = None /\ transaction = None
         /\ \A kind : ~Asking(kind)
         /\ \A s \in Syncs : ~Asks("state-sync", s)
         /\ \A x \in RestoreIds : ~Asks("scene-restore", x)
         /\ \A c \in Captures : ~Asks("scene-capture", c)
         /\ \A r \in Restores : ~Called(r) /\ handler[r].pc # "validating"
         /\ Settled
         /\ ~syncRequired =>
              /\ \A s \in Syncs : ~Open(s) /\ \A k \in Said : ~OfSync(toRen[k], s)
              /\ \A r \in Restores : ~Open(r)
              /\ \A k \in Said : ~OfRestore(toRen[k])
<1>1. /\ activeRequest = None /\ transaction = None /\ TypeOK /\ Base
      /\ Guarded /\ Known /\ Patient
  BY DEF Free, Inv, Control, Base
<1>2. /\ \A kind : ~Asking(kind)
      /\ \A s \in Syncs : ~Asks("state-sync", s)
      /\ \A x \in RestoreIds : ~Asks("scene-restore", x)
      /\ \A c \in Captures : ~Asks("scene-capture", c)
  BY <1>1, Waits
<1>3. \A r \in Restores : ~Called(r) /\ handler[r].pc # "validating"
  BY <1>1, <1>2, WaitedFor
<1>4. Settled
  BY <1>2 DEF Settled
<1>5. ASSUME ~syncRequired
      PROVE  /\ \A s \in Syncs : ~Open(s) /\ \A k \in Said : ~OfSync(toRen[k], s)
             /\ \A r \in Restores : ~Open(r)
             /\ \A k \in Said : ~OfRestore(toRen[k])
  <2>1. \A s \in Syncs : ~Open(s) /\ \A k \in Said : ~OfSync(toRen[k], s)
    BY <1>1, <1>2, <1>5 DEF Known
  <2>2. \A k \in Said : ~OfRestore(toRen[k])
    <3>1. \A k \in Said : OfRestore(toRen[k]) => toRen[k].id \in RestoreIds
      <4>1. toRen \in Seq(Messages)
        BY <1>1 DEF TypeOK, SimTypeOK
      <4>2. \A k \in Said : toRen[k] \in Messages
        BY <4>1 DEF Said
      <4> QED BY <4>2, MessageFields DEF OfRestore
    <3> QED BY <1>1, <1>2, <1>5, <3>1 DEF Known
  <2>3. \A r \in Restores : ~Open(r)
    <3> SUFFICES ASSUME NEW r \in Restores, Open(r) PROVE FALSE
      OBVIOUS
    <3>1. Running(r)
      BY <1>3 DEF Open
    <3>2. handler[r].rid \in RestoreIds
      BY <1>1, <3>1 DEF Base, Placed, Fits, Requests
    <3>3. RidOf(r, handler[r].rid)
      BY <3>1 DEF RidOf
    <3> QED BY <1>1, <1>2, <1>5, <3>2, <3>3 DEF Known
  <2> QED BY <2>1, <2>2, <2>3
<1> QED BY <1>1, <1>2, <1>3, <1>4, <1>5

LEMMA SendKeepsInv ==
  ASSUME Inv, NEW d \in Requests, NEW m \in Calls, m.at = d, Send(d, m), Free, TypeOK',
         transaction' = None, syncRequired' = syncRequired, scene'.items = scene.items,
         \/ d \in Syncs /\ activeRequest' = [kind |-> "state-sync", id |-> d] /\ runAction' = runAction
         \/ /\ d \in Restores /\ ~syncRequired /\ runAction = None /\ runAction' = None
            /\ m.rid \in RestoreIds /\ activeRequest' = [kind |-> "scene-restore", id |-> m.rid]
         \/ /\ d \in Captures /\ ~syncRequired /\ runAction = None /\ runAction' = None
            /\ activeRequest' = [kind |-> "scene-capture", id |-> d]
         \/ d \in ParamChanges /\ ~syncRequired /\ activeRequest' = None /\ runAction' = runAction
         \/ d \in Actions /\ ~syncRequired /\ runAction = None /\ activeRequest' = None /\ runAction' = d
  PROVE  Inv'
<1>1. /\ Base /\ Busy /\ Ending /\ Guarded /\ Known /\ Patient /\ Alone /\ Begun
      /\ Answered /\ Applied /\ Tracks
  BY DEF Inv, Control
<1>2. /\ d \in unsent /\ d \notin unsent' /\ unsent' \subseteq unsent
      /\ toRen' = toRen /\ handler' = handler /\ restoreResults' = restoreResults
      /\ applied' = applied /\ thrown' = thrown /\ syncedItems' = syncedItems
      /\ activeTransaction' = activeTransaction /\ (actionInFlight' <=> actionInFlight)
      /\ handler[d].pc = "idle" /\ ~Open(d) /\ ~Early(d) /\ Called(d)'
      /\ \A e : e # d => (Called(e)' <=> Called(e)) /\ (Open(e)' <=> Open(e)) /\ (Early(e)' <=> Early(e))
      /\ \A e : (Running(e)' <=> Running(e)) /\ (Engaged(e)' <=> Engaged(e))
      /\ \A e : Open(e) => Open(e)'
      /\ \A e, x : RidOf(e, x)' => RidOf(e, x) \/ (e = d /\ x = m.rid)
      /\ \A k, l \in 1 .. Len(toSim') : toSim'[k].at = d /\ k < l => FALSE
      /\ Queued' /\ Placed'
  BY <1>1, SentFacts
<1>3. /\ activeRequest = None /\ transaction = None
      /\ \A kind : ~Asking(kind)
      /\ \A s \in Syncs : ~Asks("state-sync", s)
      /\ \A x \in RestoreIds : ~Asks("scene-restore", x)
      /\ \A c \in Captures : ~Asks("scene-capture", c)
      /\ \A r \in Restores : ~Called(r) /\ handler[r].pc # "validating"
      /\ Settled
      /\ ~syncRequired =>
           /\ \A s \in Syncs : ~Open(s) /\ \A k \in Said : ~OfSync(toRen[k], s)
           /\ \A r \in Restores : ~Open(r)
           /\ \A k \in Said : ~OfRestore(toRen[k])
  BY FreeFacts
<1>4. Said' = Said
  BY <1>2 DEF Said
<1>5. /\ Called(d)' /\ Open(d)' /\ (d \in Restores => Early(d)')
  BY <1>2 DEF Open, Early
<1>6. /\ d \in Syncs => d \notin Actions /\ d \notin Restores /\ d \notin Captures /\ d \notin ParamChanges
      /\ d \in Restores => d \notin Actions /\ d \notin Captures /\ d \notin ParamChanges
      /\ d \in Captures => d \notin Actions /\ d \notin ParamChanges
      /\ d \in ParamChanges => d \notin Actions
      /\ None \notin Actions /\ None \notin RestoreIds /\ None \notin Requests
  BY OneKind DEF Requests
\* What it waits for now.
<1>7. /\ \A s \in Syncs : Asks("state-sync", s)' => s = d
      /\ d \in Syncs => Asks("state-sync", d)' /\ Asking("state-sync")'
      /\ \A x \in RestoreIds : Asks("scene-restore", x)' => d \in Restores /\ x = m.rid
      /\ d \in Restores => Asks("scene-restore", m.rid)'
      /\ \A c \in Captures : Asks("scene-capture", c)' => c = d
      /\ Asking("scene-restore")' => d \in Restores
      /\ activeRequest' # None /\ activeRequest'.kind # "state-sync" => d \in Restores \union Captures
      /\ activeRequest' = None \/ activeRequest'.kind = "state-sync" \/ ~syncRequired
  <2> DEFINE a == activeRequest'
  <2>1. CASE d \in Syncs /\ a = [kind |-> "state-sync", id |-> d]
    <3>1. a.kind = "state-sync" /\ a.id = d /\ a # None
      BY <2>1, NoneAssumption DEF Controls
    <3>2. \A kind, id : Asks(kind, id)' => a.kind = kind /\ a.id = id
      BY DEF Asks
    <3> HIDE DEF a
    <3> QED BY <1>6, <2>1, <3>1, <3>2 DEF Asks, Asking, a
  <2>2. CASE d \in Restores /\ a = [kind |-> "scene-restore", id |-> m.rid] /\ ~syncRequired
    <3>1. a.kind = "scene-restore" /\ a.id = m.rid
      BY <2>2
    <3>2. \A kind, id : Asks(kind, id)' => a.kind = kind /\ a.id = id
      BY DEF Asks
    <3> HIDE DEF a
    <3> QED BY <1>6, <2>2, <3>1, <3>2 DEF Asks, Asking, a
  <2>3. CASE d \in Captures /\ a = [kind |-> "scene-capture", id |-> d] /\ ~syncRequired
    <3>1. a.kind = "scene-capture" /\ a.id = d
      BY <2>3
    <3>2. \A kind, id : Asks(kind, id)' => a.kind = kind /\ a.id = id
      BY DEF Asks
    <3> HIDE DEF a
    <3> QED BY <1>6, <2>3, <3>1, <3>2 DEF Asks, Asking, a
  <2>4. CASE d \in ParamChanges \union Actions /\ a = None
    <3>1. /\ \A s \in Syncs : [kind |-> "state-sync", id |-> s] # None
          /\ \A x \in RestoreIds : [kind |-> "scene-restore", id |-> x] # None
          /\ \A c \in Captures : [kind |-> "scene-capture", id |-> c] # None
      BY NoneAssumption DEF Controls
    <3> QED BY <1>6, <2>4, <3>1 DEF Asks, Asking
  <2> QED BY <2>1, <2>2, <2>3, <2>4
<1>8. Base'
  BY <1>2 DEF Base
<1>9. Busy'
  BY <1>1, <1>2 DEF Busy
<1>10. Ending'
  <2>1. ASSUME NEW s \in Syncs, NEW k \in Said, OfSync(toRen[k], s)
        PROVE  s # d
    BY <1>1, <1>2, <2>1 DEF Ending
  <2>2. ASSUME NEW s \in Actions, NEW k \in Said, OfAction(toRen[k], s)
        PROVE  s # d
    BY <1>1, <1>2, <2>2 DEF Ending
  <2>3. ASSUME NEW k \in Said, OfRestore(toRen[k]) PROVE d \notin Restores
    BY <1>3, <1>6, <2>3
  <2> QED BY <1>1, <1>2, <1>4, <2>1, <2>2, <2>3 DEF Ending
<1>11. Guarded'
  <2>1. syncRequired => runAction' = None /\ (activeRequest' # None => activeRequest'.kind = "state-sync")
    BY <1>1, <1>3, <1>6, <1>7 DEF Guarded
  <2>2. activeRequest' # None /\ activeRequest'.kind # "state-sync" => runAction' = None
    BY <1>6, <1>7
  <2>3. \A s \in Syncs : Asks("state-sync", s)' => s \notin unsent'
    BY <1>2, <1>7
  <2>4. \A r, q \in Restores : Open(r)' /\ Open(q)' => r = q
    BY <1>1, <1>2, <1>3, <1>6 DEF Guarded
  <2>5. Asking("scene-restore")' => Restores # {}
    BY <1>7
  <2> QED BY <2>1, <2>2, <2>3, <2>4, <2>5 DEF Guarded
<1>12. Known'
  <2> SUFFICES ASSUME ~syncRequired PROVE Known'
    BY DEF Known
  <2>1. \A a \in Actions : Open(a)' \/ (\E k \in Said : OfAction(toRen[k], a)) => runAction' = a
    BY <1>1, <1>2, <1>6 DEF Known
  <2>2. \A s \in Syncs : Open(s)' \/ (\E k \in Said : OfSync(toRen[k], s)) => s = d
    BY <1>2, <1>3
  <2>3. \A r \in Restores, x \in RestoreIds : Open(r)' /\ RidOf(r, x)' => r = d /\ x = m.rid
    <3> SUFFICES ASSUME NEW r \in Restores, NEW x \in RestoreIds, Open(r)', RidOf(r, x)'
                 PROVE  r = d /\ x = m.rid
      OBVIOUS
    <3>1. r = d
      BY <1>2, <1>3
    <3>2. ~RidOf(d, x)
      <4>1. ~Running(d) /\ ~Called(d)
        BY <1>2 DEF Open
      <4> QED BY <4>1 DEF RidOf, Called
    <3> QED BY <1>2, <3>1, <3>2
  <2> QED BY <1>2, <1>3, <1>4, <1>7, <2>1, <2>2, <2>3 DEF Known
<1>13. Patient'
  BY <1>2, <1>3, <1>6 DEF Patient
<1>14. Alone'
  <2> SUFFICES ASSUME d \in Syncs
               PROVE  /\ Accepted(d)' => FALSE
                      /\ \A k \in Said : ~BeginOf(toRen[k], d)
    BY <1>2, <1>4, <1>7 DEF Alone
  <2>1. \A k \in Said : ~OfSync(toRen[k], d)
    BY <1>1, <1>2 DEF Ending
  <2>2. \A k \in Said : ~BeginOf(toRen[k], d) /\ ~EndOf(toRen[k], d)
    BY <2>1 DEF OfSync, BeginOf, EndOf, SyncWords
  <2>3. ~Running(d)'
    BY <1>2 DEF Running
  <2> QED BY <1>2, <1>4, <2>2, <2>3 DEF Accepted
<1>15. Begun'
  BY <1>1, <1>2, <1>4 DEF Begun
<1>16. Answered'
  <2>1. \A a \in Actions : runAction' = a =>
          a \in thrown \/ Open(a)' \/ \E k \in Said : OfAction(toRen[k], a)
    BY <1>1, <1>2, <1>5, <1>6 DEF Answered
  <2>2. \A c \in Captures : Asks("scene-capture", c)' => Open(c)'
    BY <1>5, <1>7
  <2>3. Asking("scene-restore")' => d \in Restores /\ Open(d)' /\ Early(d)'
    BY <1>5, <1>7
  <2> QED BY <1>2, <1>4, <2>1, <2>2, <2>3 DEF Answered
<1>17. Applied'
  BY <1>1, <1>2 DEF Applied
<1>18. Tracks'
  <2> SUFFICES ASSUME NoFailed PROVE Tracks'
    BY <1>2 DEF Tracks, NoFailed
  <2>1. ASSUME ~syncRequired PROVE \E T \in SUBSET Items : Pushed(T)' /\ Leads(Shown, 0, T)'
    <3>1. PICK T \in SUBSET Items : Pushed(T) /\ Leads(Shown, 0, T)
      BY <1>1, <1>3, <2>1 DEF Tracks
    <3>2. Pushed(T)'
      BY <1>2, <3>1 DEF Pushed
    <3>3. Shown' = Shown
      BY <1>3 DEF Shown
    <3>4. Leads(Shown, 0, T)'
      BY <1>2, <3>1, <3>3 DEF Leads
    <3> QED BY <3>2, <3>4
  <2>2. \A s \in Syncs, k \in Said : Asks("state-sync", s)' => ~BeginOf(toRen[k], s)
    <3> SUFFICES ASSUME NEW k \in Said, d \in Syncs PROVE ~BeginOf(toRen[k], d)
      BY <1>7
    <3>1. ~OfSync(toRen[k], d)
      BY <1>1, <1>2 DEF Ending
    <3> QED BY <3>1 DEF OfSync, BeginOf, SyncWords
  <2>3. \A k \in Said : toRen[k].type = "scene_restore_end" =>
             /\ toRen[k].status # "failed"
             /\ toRen[k].status = "rejected" => k = 1 \/ toRen[k - 1].type = "scene_restore_begin"
    BY <1>1 DEF Tracks
  <2> QED BY <1>2, <1>4, <2>1, <2>2, <2>3 DEF Tracks
<1> QED BY <1>8, <1>9, <1>10, <1>11, <1>12, <1>13, <1>14, <1>15, <1>16, <1>17, <1>18 DEF Inv, Control

\* What a step of the renderer's that sends comes to.
Sends(d, m) ==
  /\ m.at = d /\ Send(d, m) /\ Free
  /\ transaction' = None /\ syncRequired' = syncRequired /\ scene'.items = scene.items
  /\ \/ d \in Syncs /\ activeRequest' = [kind |-> "state-sync", id |-> d] /\ runAction' = runAction
     \/ /\ d \in Restores /\ ~syncRequired /\ runAction = None /\ runAction' = None
        /\ m.rid \in RestoreIds /\ activeRequest' = [kind |-> "scene-restore", id |-> m.rid]
     \/ /\ d \in Captures /\ ~syncRequired /\ runAction = None /\ runAction' = None
        /\ activeRequest' = [kind |-> "scene-capture", id |-> d]
     \/ d \in ParamChanges /\ ~syncRequired /\ activeRequest' = None /\ runAction' = runAction
     \/ d \in Actions /\ ~syncRequired /\ runAction = None /\ activeRequest' = None /\ runAction' = d

LEMMA SendIs ==
  ASSUME Base, SendSomething
  PROVE  \E d \in Requests, m \in Calls : Sends(d, m) /\ TypeOK'
<1>1. TypeOK /\ unsent \subseteq Requests
  BY DEF Base, TypeOK
<1>2. PICK d \in unsent : RequestStateSync(d) \/ IssueSceneRestore(d) \/ IssueSceneCapture(d)
                            \/ SetParameter(d) \/ InvokeAction(d)
  BY DEF SendSomething
<1>3. d \in Requests
  BY <1>1, <1>2
<1>4. ASSUME NEW m \in Calls, m.at = d, Send(d, m), scene' \in Scenes, transaction' = transaction,
             activeRequest' \in Controls \union {None}, syncRequired' = syncRequired,
             rejected' = rejected, runAction' \in Actions \union {None}
      PROVE  TypeOK'
  <2>1. SimTypeOK' /\ unsent' \subseteq unsent /\ overtaken' = overtaken
    BY <1>1, <1>3, <1>4, SentFacts DEF Send
  <2> QED BY <1>1, <1>4, <2>1 DEF TypeOK
<1>5. CASE RequestStateSync(d)
  <2>1. /\ d \in Syncs /\ Free /\ Send(d, [at |-> d]) /\ transaction = None
        /\ activeRequest' = [kind |-> "state-sync", id |-> d]
        /\ UNCHANGED <<scene, transaction, syncRequired, runAction, rejected>>
    BY <1>5 DEF RequestStateSync, Free
  <2>2. [at |-> d] \in Calls /\ [kind |-> "state-sync", id |-> d] \in Controls
    BY <2>1 DEF Calls, Controls
  <2>3. TypeOK'
    BY <1>1, <1>4, <2>1, <2>2 DEF TypeOK
  <2> QED BY <1>3, <2>1, <2>2, <2>3 DEF Sends
<1>6. CASE IssueSceneRestore(d)
  <2>1. /\ d \in Restores /\ Free /\ ~syncRequired /\ runAction = None /\ transaction = None
        /\ UNCHANGED <<scene, transaction, syncRequired, runAction, rejected>>
    BY <1>6 DEF IssueSceneRestore, Free
  <2>2. PICK rid \in RestoreIds, ok \in BOOLEAN :
          /\ Send(d, [at |-> d, rid |-> rid, acceptable |-> ok])
          /\ activeRequest' = [kind |-> "scene-restore", id |-> rid]
    BY <1>6 DEF IssueSceneRestore
  <2>3. PICK m : m = [at |-> d, rid |-> rid, acceptable |-> ok]
    OBVIOUS
  <2>4. m \in Calls /\ m.at = d /\ m.rid = rid /\ [kind |-> "scene-restore", id |-> rid] \in Controls
    BY <2>1, <2>3 DEF Calls, Controls
  <2>5. TypeOK'
    BY <1>1, <1>4, <2>1, <2>2, <2>3, <2>4 DEF TypeOK
  <2> QED BY <1>3, <2>1, <2>2, <2>3, <2>4, <2>5 DEF Sends
<1>7. CASE IssueSceneCapture(d)
  <2>1. /\ d \in Captures /\ Free /\ ~syncRequired /\ runAction = None /\ transaction = None
        /\ Send(d, [at |-> d])
        /\ activeRequest' = [kind |-> "scene-capture", id |-> d]
        /\ UNCHANGED <<scene, transaction, syncRequired, runAction, rejected>>
    BY <1>7 DEF IssueSceneCapture, Free
  <2>2. [at |-> d] \in Calls /\ [kind |-> "scene-capture", id |-> d] \in Controls
    BY <2>1 DEF Calls, Controls
  <2>3. TypeOK'
    BY <1>1, <1>4, <2>1, <2>2 DEF TypeOK
  <2> QED BY <1>3, <2>1, <2>2, <2>3 DEF Sends
<1>8. CASE SetParameter(d)
  <2>1. /\ d \in ParamChanges /\ Free /\ ~syncRequired /\ transaction = None /\ activeRequest = None
        /\ UNCHANGED <<transaction, activeRequest, syncRequired, runAction, rejected>>
    BY <1>8 DEF SetParameter, Free
  <2>2. PICK v \in Values : Send(d, [at |-> d, value |-> v]) /\ scene' = [scene EXCEPT !.param = v]
    BY <1>8 DEF SetParameter
  <2>3. [at |-> d, value |-> v] \in Calls
    BY <2>1 DEF Calls
  <2>4. scene' \in Scenes /\ scene'.items = scene.items
    BY <1>1, <2>2 DEF TypeOK, Scenes
  <2>5. TypeOK'
    BY <1>1, <1>4, <2>1, <2>2, <2>3, <2>4 DEF TypeOK
  <2> QED BY <1>3, <2>1, <2>2, <2>3, <2>4, <2>5 DEF Sends
<1>9. CASE InvokeAction(d)
  <2>1. /\ d \in Actions /\ Free /\ ~syncRequired /\ runAction = None /\ runAction' = d
        /\ transaction = None /\ activeRequest = None
        /\ UNCHANGED <<scene, transaction, activeRequest, syncRequired, rejected>>
    BY <1>9 DEF InvokeAction, Free
  <2>2. PICK kind \in Kinds : Send(d, [at |-> d, kind |-> kind])
    BY <1>9 DEF InvokeAction
  <2>3. [at |-> d, kind |-> kind] \in Calls
    BY <2>1 DEF Calls
  <2>4. TypeOK'
    BY <1>1, <1>4, <2>1, <2>2, <2>3 DEF TypeOK
  <2> QED BY <1>3, <2>1, <2>2, <2>3, <2>4 DEF Sends
<1> QED BY <1>2, <1>5, <1>6, <1>7, <1>8, <1>9

LEMMA SendsKeepInv ==
  ASSUME Inv, SendSomething
  PROVE  Inv'
<1>1. PICK d \in Requests, m \in Calls : Sends(d, m) /\ TypeOK'
  BY SendIs DEF Inv, Control
<1>2. m.at = d /\ Send(d, m) /\ Free
  BY <1>1 DEF Sends
<1> QED BY <1>1, <1>2, SendKeepsInv DEF Sends

-----------------------------------------------------------------------------
(* The renderer reads the first j messages, none or one.                   *)

Reads(j) ==
  /\ UNCHANGED <<toSim, handler, bindingState, modelState, syncedItems, applied, thrown, unsent>>
  /\ Len(toRen) = Len(toRen') + j
  /\ \A k \in 1 .. Len(toRen') : toRen'[k] = toRen[k + j]

LEMMA ReadsSaid ==
  ASSUME TypeOK, TypeOK', NEW j \in {0, 1}, Reads(j)
  PROVE  /\ \A k \in Said' : k \in Nat /\ k >= 1 /\ k + j \in Said /\ toRen'[k] = toRen[k + j]
         /\ \A k \in Said : \/ k - j \in Said' /\ toRen'[k - j] = toRen[k] /\ (k - j) + j = k
                            \/ k = 1 /\ j = 1
         /\ \A k, l \in Said' : (l + j > k + j <=> l > k) /\ (l + j = k + j => l = k)
         /\ j = 1 => 1 \in Said
<1> DEFINE n == Len(toRen)
           m == Len(toRen')
<1>1. n \in Nat /\ m \in Nat /\ n = m + j /\ \A k \in 1 .. m : toRen'[k] = toRen[k + j]
  BY DEF TypeOK, SimTypeOK, Reads
<1>2. Said = 1 .. n /\ Said' = 1 .. m
  BY DEF Said
<1> DEFINE q == toRen'
<1> HIDE DEF n, m, q
<1>3. \A k \in 1 .. m : k \in Nat /\ k >= 1 /\ k + j \in 1 .. n /\ q[k] = toRen[k + j]
  BY <1>1 DEF q
<1>4. \A k \in 1 .. n : \/ k - j \in 1 .. m /\ q[k - j] = toRen[k] /\ (k - j) + j = k
                        \/ k = 1 /\ j = 1
  <2> SUFFICES ASSUME NEW k \in 1 .. n, ~(k = 1 /\ j = 1)
               PROVE  k - j \in 1 .. m /\ q[k - j] = toRen[k] /\ (k - j) + j = k
    OBVIOUS
  <2>1. k - j \in 1 .. m /\ (k - j) + j = k
    BY <1>1
  <2> QED BY <1>3, <2>1
<1>5. \A k, l \in 1 .. m : (l + j > k + j <=> l > k) /\ (l + j = k + j => l = k)
  BY <1>1
<1>6. j = 1 => 1 \in 1 .. n
  BY <1>1
<1> QED BY <1>2, <1>3, <1>4, <1>5, <1>6 DEF q

\* The message before one that is left.
LEMMA ReadsBefore ==
  ASSUME TypeOK, TypeOK', NEW j \in {0, 1}, Reads(j), NEW k \in Said', k # 1
  PROVE  toRen'[k - 1] = toRen[(k + j) - 1] /\ k + j # 1
<1> DEFINE m == Len(toRen')
<1>1. m \in Nat /\ \A i \in 1 .. m : toRen'[i] = toRen[i + j]
  BY DEF TypeOK, SimTypeOK, Reads
<1>2. k \in 1 .. m
  BY DEF Said
<1> DEFINE q == toRen'
<1>3. \A i \in 1 .. m : q[i] = toRen[i + j]
  BY <1>1
<1> HIDE DEF m, q
<1>4. k - 1 \in 1 .. m /\ (k - 1) + j = (k + j) - 1 /\ k + j # 1
  BY <1>1, <1>2
<1>5. q[k - 1] = toRen[(k + j) - 1]
  BY <1>3, <1>4
<1> QED BY <1>4, <1>5 DEF q

LEMMA ReadsKept ==
  ASSUME NEW j, Reads(j)
  PROVE  /\ toSim' = toSim /\ handler' = handler /\ unsent' = unsent /\ syncedItems' = syncedItems
         /\ activeTransaction' = activeTransaction /\ (actionInFlight' <=> actionInFlight)
         /\ restoreResults' = restoreResults /\ applied' = applied /\ thrown' = thrown
         /\ \A e : /\ (Called(e)' <=> Called(e)) /\ (Running(e)' <=> Running(e))
                   /\ (Open(e)' <=> Open(e)) /\ (Engaged(e)' <=> Engaged(e)) /\ (Early(e)' <=> Early(e))
         /\ \A e, x : RidOf(e, x)' <=> RidOf(e, x)
         /\ \A T : Pushed(T)' <=> Pushed(T)
         /\ NoFailed' <=> NoFailed
<1>1. /\ toSim' = toSim /\ handler' = handler /\ unsent' = unsent /\ syncedItems' = syncedItems
      /\ activeTransaction' = activeTransaction /\ (actionInFlight' <=> actionInFlight)
      /\ restoreResults' = restoreResults /\ applied' = applied /\ thrown' = thrown
  BY DEF Reads, bindingState
<1>2. \A e : (Called(e)' <=> Called(e)) /\ (Running(e)' <=> Running(e))
  BY <1>1 DEF Called, Running
<1>3. \A e : (Open(e)' <=> Open(e)) /\ (Engaged(e)' <=> Engaged(e)) /\ (Early(e)' <=> Early(e))
  BY <1>1, <1>2 DEF Open, Engaged, Early
<1>4. \A e, x : RidOf(e, x)' <=> RidOf(e, x)
  BY <1>1, <1>2 DEF RidOf
<1>5. \A T : Pushed(T)' <=> Pushed(T)
  BY <1>1 DEF Pushed
<1>6. NoFailed' <=> NoFailed
  BY <1>1 DEF NoFailed
<1> QED BY <1>1, <1>2, <1>3, <1>4, <1>5, <1>6

LEMMA ReadsKeepBase ==
  ASSUME Base, TypeOK', NEW j \in {0, 1}, Reads(j)
  PROVE  Base'
<1>1. toSim' = toSim /\ handler' = handler /\ unsent' = unsent
  BY ReadsKept
<1> QED BY <1>1 DEF Base, Queued, Placed, Fits, Running

\* What does not depend on what the renderer makes of the message.
LEMMA ReadsKeep ==
  ASSUME Inv, TypeOK', NEW j \in {0, 1}, Reads(j)
  PROVE  /\ Base' /\ Busy' /\ Ending' /\ Applied'
         /\ \A k, l \in Said' :
           toRen'[k].type = "scene_restore_begin" /\ toRen'[l].type = "scene_restore_begin" => k = l
<1>1. /\ Base /\ Busy /\ Ending /\ Begun /\ Applied
  BY DEF Inv, Control
<1>2. /\ \A k \in Said' : k + j \in Said /\ toRen'[k] = toRen[k + j]
      /\ \A k, l \in Said' : (l + j > k + j <=> l > k) /\ (l + j = k + j => l = k)
  BY <1>1, ReadsSaid DEF Base
<1>3. /\ handler' = handler /\ unsent' = unsent
      /\ activeTransaction' = activeTransaction /\ (actionInFlight' <=> actionInFlight)
      /\ restoreResults' = restoreResults /\ applied' = applied
      /\ \A e : /\ (Called(e)' <=> Called(e)) /\ (Running(e)' <=> Running(e))
                /\ (Open(e)' <=> Open(e)) /\ (Engaged(e)' <=> Engaged(e)) /\ (Early(e)' <=> Early(e))
  BY ReadsKept
<1>4. Base'
  BY <1>1, ReadsKeepBase
<1>5. Busy'
  BY <1>1, <1>3 DEF Busy
<1>6. Applied'
  BY <1>1, <1>3 DEF Applied
<1>7. Ending'
  <2>1. ASSUME NEW s \in Syncs, NEW k \in Said', OfSync(toRen'[k], s)
        PROVE  /\ s \notin unsent' /\ ~Called(s)' /\ handler'[s].pc # "initializing"
               /\ ~BeginOf(toRen'[k], s) =>
                    ~Open(s)' /\ \A l \in Said' : l > k => ~OfSync(toRen'[l], s)
               /\ ErrorOf(toRen'[k], s) => \A l \in Said' : OfSync(toRen'[l], s) => l = k
    <3>1. k + j \in Said /\ OfSync(toRen[k + j], s)
      BY <1>2, <2>1
    <3>2. /\ s \notin unsent /\ ~Called(s) /\ handler[s].pc # "initializing"
          /\ ~BeginOf(toRen[k + j], s) =>
               ~Open(s) /\ \A l \in Said : l > k + j => ~OfSync(toRen[l], s)
          /\ ErrorOf(toRen[k + j], s) => \A l \in Said : OfSync(toRen[l], s) => l = k + j
      BY <1>1, <3>1 DEF Ending
    <3> QED BY <1>2, <1>3, <3>2
  <2>2. ASSUME NEW a \in Actions, NEW k \in Said', OfAction(toRen'[k], a)
        PROVE  a \notin unsent' /\ ~Open(a)' /\ \A l \in Said' : OfAction(toRen'[l], a) => l = k
    <3>1. k + j \in Said /\ OfAction(toRen[k + j], a)
      BY <1>2, <2>2
    <3>2. a \notin unsent /\ ~Open(a) /\ \A l \in Said : OfAction(toRen[l], a) => l = k + j
      BY <1>1, <3>1 DEF Ending
    <3> QED BY <1>2, <1>3, <3>2
  <2>3. ASSUME NEW r \in Restores, NEW k \in Said', OfRestore(toRen'[k])
        PROVE  /\ ~Early(r)'
               /\ toRen'[k].type = "scene_restore_end" =>
                    ~Open(r)' /\ \A l \in Said' : l > k => ~OfRestore(toRen'[l])
    <3>1. k + j \in Said /\ OfRestore(toRen[k + j])
      BY <1>2, <2>3
    <3>2. /\ ~Early(r)
          /\ toRen[k + j].type = "scene_restore_end" =>
               ~Open(r) /\ \A l \in Said : l > k + j => ~OfRestore(toRen[l])
      BY <1>1, <3>1 DEF Ending
    <3> QED BY <1>2, <1>3, <3>2
  <2> QED BY <2>1, <2>2, <2>3 DEF Ending
<1>8. \A k, l \in Said' :
           toRen'[k].type = "scene_restore_begin" /\ toRen'[l].type = "scene_restore_begin" => k = l
  <2> SUFFICES ASSUME NEW k \in Said', NEW l \in Said', toRen'[k].type = "scene_restore_begin",
                      toRen'[l].type = "scene_restore_begin"
               PROVE  k = l
    OBVIOUS
  <2>1. /\ k + j \in Said /\ toRen[k + j].type = "scene_restore_begin"
        /\ l + j \in Said /\ toRen[l + j].type = "scene_restore_begin"
    BY <1>2
  <2>2. k + j = l + j
    BY <1>1, <2>1 DEF Begun
  <2> QED BY <1>2, <2>2
<1> QED BY <1>4, <1>5, <1>6, <1>7, <1>8

\* The messages that are left lead to the same scene from where the first leads to.
LEMMA LeadsReads ==
  ASSUME TypeOK, TypeOK', NEW j \in {0, 1}, Reads(j), NEW S, NEW T
  PROVE  /\ j = 0 /\ Leads(S, 0, T) => Leads(S, 0, T)'
         /\ \A n \in Said : j = 1 /\ Leads(S, n, T) => Leads(S, n - 1, T)'
         /\ j = 1 /\ Leads(S, 0, T) =>
              /\ \A R : R = Changed(S, toRen[1]) => Leads(R, 0, T)'
              /\ toRen[1].type = "item_create" => S \intersect toRen[1].items = {}
<1>1. /\ Len(toRen) \in Nat /\ Len(toRen') \in Nat /\ Len(toRen) = Len(toRen') + j
      /\ \A k \in 1 .. Len(toRen') : toRen'[k] = toRen[k + j]
  BY DEF TypeOK, SimTypeOK, Reads
<1> DEFINE N == Len(toRen)
           M == Len(toRen')
           q == toRen'
<1>2. ASSUME j = 1, NEW R, NEW n \in 1 .. N, Leads(R, n, T)
      PROVE  Leads(R, n - 1, T)'
  <2>1. PICK f \in [n .. N -> SUBSET Items] :
          /\ f[n] = R /\ f[N] = T
          /\ \A k \in (n + 1) .. N :
               /\ f[k] = Changed(f[k - 1], toRen[k])
               /\ toRen[k].type = "item_create" => f[k - 1] \intersect toRen[k].items = {}
    BY <1>2 DEF Leads
  <2>2. N \in Nat /\ M \in Nat /\ N = M + 1 /\ \A k \in 1 .. M : q[k] = toRen[k + 1]
    BY <1>1, <1>2
  <2> HIDE DEF N, M, q
  <2> DEFINE g == [k \in (n - 1) .. M |-> f[k + 1]]
  <2>3. \A k \in (n - 1) .. M : k + 1 \in n .. N /\ g[k] = f[k + 1]
    BY <2>2
  <2>4. g \in [(n - 1) .. M -> SUBSET Items]
    BY <2>1, <2>3
  <2> HIDE DEF g
  <2>5. g[n - 1] = R /\ g[M] = T
    <3>1. n - 1 \in (n - 1) .. M /\ (n - 1) + 1 = n /\ M \in (n - 1) .. M /\ M + 1 = N
      BY <2>2
    <3> QED BY <2>1, <2>3, <3>1
  <2>6. ASSUME NEW k \in ((n - 1) + 1) .. M
        PROVE  /\ g[k] = Changed(g[k - 1], q[k])
               /\ q[k].type = "item_create" => g[k - 1] \intersect q[k].items = {}
    <3>1. /\ k \in (n - 1) .. M /\ k - 1 \in (n - 1) .. M /\ k \in 1 .. M
          /\ k + 1 \in (n + 1) .. N /\ (k - 1) + 1 = k /\ (k + 1) - 1 = k
      BY <2>2
    <3>2. g[k] = f[k + 1] /\ g[k - 1] = f[k] /\ q[k] = toRen[k + 1]
      BY <2>2, <2>3, <3>1
    <3> QED BY <2>1, <3>1, <3>2
  <2>7. \E ff \in [(n - 1) .. Len(q) -> SUBSET Items] :
           /\ ff[n - 1] = R /\ ff[Len(q)] = T
           /\ \A k \in ((n - 1) + 1) .. Len(q) :
                /\ ff[k] = Changed(ff[k - 1], q[k])
                /\ q[k].type = "item_create" => ff[k - 1] \intersect q[k].items = {}
    BY <2>4, <2>5, <2>6 DEF M, q
  <2> QED BY <2>7 DEF Leads, q, Changed
<1>3. ASSUME j = 1, Leads(S, 0, T)
      PROVE  /\ Leads(Changed(S, toRen[1]), 1, T)
             /\ toRen[1].type = "item_create" => S \intersect toRen[1].items = {}
  <2>1. PICK f \in [0 .. N -> SUBSET Items] :
          /\ f[0] = S /\ f[N] = T
          /\ \A k \in (0 + 1) .. N :
               /\ f[k] = Changed(f[k - 1], toRen[k])
               /\ toRen[k].type = "item_create" => f[k - 1] \intersect toRen[k].items = {}
    BY <1>3 DEF Leads
  <2>2. N \in Nat /\ N >= 1
    BY <1>1, <1>3
  <2> HIDE DEF N
  <2>3. 1 \in (0 + 1) .. N /\ 1 - 1 = 0
    BY <2>2
  <2>4. f[1] = Changed(S, toRen[1]) /\ (toRen[1].type = "item_create" => S \intersect toRen[1].items = {})
    BY <2>1, <2>3
  <2> DEFINE g == [k \in 1 .. N |-> f[k]]
  <2>5. g \in [1 .. N -> SUBSET Items] /\ \A k \in 1 .. N : g[k] = f[k]
    BY <2>1, <2>2
  <2> HIDE DEF g
  <2>6. g[1] = Changed(S, toRen[1]) /\ g[N] = T
    BY <2>1, <2>2, <2>4, <2>5
  <2>7. \A k \in (1 + 1) .. N : k \in (0 + 1) .. N /\ k \in 1 .. N /\ k - 1 \in 1 .. N
    BY <2>2
  <2>8. \A k \in (1 + 1) .. N :
          /\ g[k] = Changed(g[k - 1], toRen[k])
          /\ toRen[k].type = "item_create" => g[k - 1] \intersect toRen[k].items = {}
    BY <2>1, <2>5, <2>7
  <2> QED BY <2>4, <2>5, <2>6, <2>8 DEF Leads, N
<1>4. ASSUME j = 0, Leads(S, 0, T) PROVE Leads(S, 0, T)'
  <2>1. toRen' = toRen
    <3>1. toRen \in Seq(Messages) /\ toRen' \in Seq(Messages)
      BY DEF TypeOK, SimTypeOK
    <3>2. Len(toRen') = Len(toRen) /\ \A k \in 1 .. Len(toRen) : toRen'[k] = toRen[k]
      BY <1>1, <1>4
    <3> QED BY <3>1, <3>2, SeqEqual
  <2> QED BY <1>4, <2>1 DEF Leads
<1>5. Said = 1 .. N
  BY DEF Said
<1>6. ASSUME j = 1, Leads(S, 0, T), NEW R, R = Changed(S, toRen[1]) PROVE Leads(R, 0, T)'
  <2>2. Leads(R, 1, T)
    BY <1>3, <1>6
  <2>3. 1 \in 1 .. N /\ 1 - 1 = 0
    BY <1>1, <1>6
  <2>4. Leads(R, 1 - 1, T)'
    BY <1>2, <1>6, <2>2, <2>3
  <2> QED BY <2>3, <2>4
<1> QED BY <1>2, <1>3, <1>4, <1>5, <1>6

\* The message changes at most the scene, and the action it answers.
Keeps(m) ==
  /\ activeRequest' = activeRequest /\ (syncRequired' <=> syncRequired)
  /\ transaction' = None <=> transaction = None
  /\ transaction # None => transaction'.kind = transaction.kind /\ transaction'.id = transaction.id
  /\ runAction' = IF OfAction(m, runAction) THEN None ELSE runAction
  /\ NoFailed /\ (transaction # None \/ (~syncRequired /\ Settled)) =>
       \E S : S = Changed(Shown, m) /\ Shown' = S
  /\ \A x \in RestoreIds : Asks("scene-restore", x) =>
       /\ m.type = "scene_restore_begin" => transaction # None
       /\ ~(m.type = "scene_restore_end" /\ Closes("scene-restore", m))
  /\ \A c \in Captures : Asks("scene-capture", c) => ~OfCapture(m, c)
  /\ \A s \in Syncs : Asks("state-sync", s) => ~ErrorOf(m, s)

\* An answer to a restore that the renderer waits for is for its transaction.
LEMMA RestoreEnds ==
  ASSUME Inv, 1 \in Said, Asking("scene-restore"), toRen[1].type = "scene_restore_end"
  PROVE  /\ Asks("scene-restore", toRen[1].id) /\ toRen[1].id \in RestoreIds
         /\ Closes("scene-restore", toRen[1])
<1>1. /\ Ending /\ Guarded /\ Known /\ Answered /\ TypeOK
  BY DEF Inv, Control, Base
<1>2. toRen[1] \in Messages
  BY <1>1 DEF TypeOK, SimTypeOK, Said
<1>3. OfRestore(toRen[1]) /\ toRen[1].id \in RestoreIds
  BY <1>2, MessageFields DEF OfRestore, Restoring
<1>4. ~syncRequired /\ Restores # {} /\ activeRequest # None /\ activeRequest.kind = "scene-restore"
  BY <1>1 DEF Guarded, Asking
<1>5. Asks("scene-restore", toRen[1].id)
  BY <1>1, <1>3, <1>4 DEF Known
<1>6. activeRequest.id = toRen[1].id
  BY <1>5 DEF Asks
<1>7. transaction # None
  <2> SUFFICES ASSUME transaction = None PROVE FALSE
    OBVIOUS
  <2>1. \A r \in Restores : ~Early(r)
    BY <1>1, <1>3 DEF Ending
  <2>2. PICK k \in Said : toRen[k].type = "scene_restore_begin"
    BY <1>1, <2>1 DEF Answered
  <2>3. k > 1
    BY <2>2 DEF Said
  <2>4. ~OfRestore(toRen[k])
    BY <1>1, <1>3, <1>4, <2>3 DEF Ending
  <2> QED BY <2>2, <2>4 DEF OfRestore, Restoring
<1>8. transaction.kind = "scene-restore" /\ transaction.id = toRen[1].id
  BY <1>1, <1>4, <1>6, <1>7 DEF Guarded
<1> QED BY <1>3, <1>5, <1>7, <1>8 DEF Closes

LEMMA KeepsKeep ==
  ASSUME Inv, TypeOK', Reads(1), 1 \in Said, Keeps(toRen[1])
  PROVE  Inv'
<1> DEFINE m == toRen[1]
<1>1. /\ Guarded /\ Known /\ Patient /\ Alone /\ Begun /\ Answered /\ Tracks /\ Ending /\ Base /\ TypeOK
  BY DEF Inv, Control, Base
<1>2. /\ \A k \in Said' : k \in Nat /\ k >= 1 /\ k + 1 \in Said /\ toRen'[k] = toRen[k + 1]
      /\ \A k \in Said : \/ k - 1 \in Said' /\ toRen'[k - 1] = toRen[k]
                         \/ k = 1
      /\ \A k, l \in Said' : (l + 1 > k + 1 <=> l > k)
  BY <1>1, ReadsSaid
<1>3. /\ handler' = handler /\ unsent' = unsent /\ toSim' = toSim /\ thrown' = thrown
      /\ \A e : /\ (Called(e)' <=> Called(e)) /\ (Running(e)' <=> Running(e))
                /\ (Open(e)' <=> Open(e)) /\ (Early(e)' <=> Early(e))
      /\ \A e, x : RidOf(e, x)' <=> RidOf(e, x)
      /\ \A T : Pushed(T)' <=> Pushed(T)
      /\ NoFailed' <=> NoFailed
  BY ReadsKept
<1>4. /\ Base' /\ Busy' /\ Ending' /\ Applied'
      /\ \A k, l \in Said' :
           toRen'[k].type = "scene_restore_begin" /\ toRen'[l].type = "scene_restore_begin" => k = l
  BY ReadsKeep
<1>5. /\ activeRequest' = activeRequest /\ (syncRequired' <=> syncRequired)
      /\ (transaction' = None <=> transaction = None)
      /\ transaction # None => transaction'.kind = transaction.kind /\ transaction'.id = transaction.id
      /\ runAction' = IF OfAction(m, runAction) THEN None ELSE runAction
      /\ NoFailed /\ (transaction # None \/ (~syncRequired /\ Settled)) =>
           \E S : S = Changed(Shown, m) /\ Shown' = S
      /\ \A x \in RestoreIds : Asks("scene-restore", x) =>
           /\ m.type = "scene_restore_begin" => transaction # None
           /\ ~(m.type = "scene_restore_end" /\ Closes("scene-restore", m))
      /\ \A c \in Captures : Asks("scene-capture", c) => ~OfCapture(m, c)
      /\ \A s \in Syncs : Asks("state-sync", s) => ~ErrorOf(m, s)
  BY DEF Keeps
<1>6. /\ \A kind, id : Asks(kind, id)' <=> Asks(kind, id)
      /\ \A kind : Asking(kind)' <=> Asking(kind)
  BY <1>5 DEF Asks, Asking
<1> HIDE DEF m
<1>7. /\ runAction' = runAction \/ runAction' = None
      /\ \A a \in Actions : OfAction(m, a) => runAction' # a
      /\ \A a \in Actions : runAction' = a => runAction = a
  BY <1>5, OneKind DEF Requests
<1>8. Guarded'
  BY <1>1, <1>3, <1>5, <1>6, <1>7 DEF Guarded
<1>9. Known'
  <2> SUFFICES ASSUME ~syncRequired PROVE Known'
    BY <1>5 DEF Known
  <2>1. ASSUME NEW a \in Actions, Open(a)' \/ (\E k \in Said' : OfAction(toRen'[k], a))
        PROVE  runAction' = a
    <3>1. Open(a) \/ (\E k \in Said : k # 1 /\ OfAction(toRen[k], a))
      <4>1. CASE Open(a)'
        BY <1>3, <4>1
      <4>2. ASSUME NEW k \in Said', OfAction(toRen'[k], a)
            PROVE  \E l \in Said : l # 1 /\ OfAction(toRen[l], a)
        <5>1. k + 1 \in Said /\ k + 1 # 1 /\ OfAction(toRen[k + 1], a)
          BY <1>2, <4>2
        <5> QED BY <5>1
      <4> QED BY <2>1, <4>1, <4>2
    <3>2. runAction = a
      BY <1>1, <3>1 DEF Known
    <3>3. ~OfAction(m, a)
      BY <1>1, <3>1 DEF Ending, m
    <3> QED BY <1>5, <3>2, <3>3
  <2>2. ASSUME NEW s \in Syncs, Open(s)' \/ (\E k \in Said' : OfSync(toRen'[k], s))
        PROVE  Asks("state-sync", s)
    <3>1. Open(s) \/ \E k \in Said : OfSync(toRen[k], s)
      BY <1>2, <1>3, <2>2
    <3> QED BY <1>1, <3>1 DEF Known
  <2>3. ASSUME NEW k \in Said', OfRestore(toRen'[k]) PROVE Asks("scene-restore", toRen'[k].id)
    BY <1>1, <1>2, <2>3 DEF Known
  <2>4. ASSUME NEW r \in Restores, NEW x \in RestoreIds, Open(r)', RidOf(r, x)'
        PROVE  Asks("scene-restore", x)
    BY <1>1, <1>3, <2>4 DEF Known
  <2> QED BY <1>6, <2>1, <2>2, <2>3, <2>4 DEF Known
<1>10. Patient'
  BY <1>1, <1>3, <1>5 DEF Patient
<1>11. Alone'
  <2> SUFFICES ASSUME NEW s \in Syncs, Asks("state-sync", s)
               PROVE  /\ \A k, l \in 1 .. Len(toSim) : toSim[k].at = s /\ k < l => toSim[l].at \notin Ops
                      /\ Accepted(s)' => \A d \in Ops \ {s} : ~Open(d)
                      /\ transaction # None =>
                           /\ ~Called(s) /\ handler[s].pc # "initializing"
                           /\ \A l \in Said' : ~OfOther(toRen'[l], s) /\ ~ErrorOf(toRen'[l], s)
                      /\ \A k \in Said' : BeginOf(toRen'[k], s) =>
                           \A l \in Said' : l > k => ~OfOther(toRen'[l], s)
    BY <1>3, <1>5, <1>6 DEF Alone
  <2>1. Accepted(s)' => Accepted(s)
    BY <1>2, <1>3, <1>5 DEF Accepted
  <2>2. transaction # None =>
          \A l \in Said' : ~OfOther(toRen'[l], s) /\ ~ErrorOf(toRen'[l], s)
    BY <1>1, <1>2 DEF Alone
  <2>3. ASSUME NEW k \in Said', BeginOf(toRen'[k], s), NEW l \in Said', l > k
        PROVE  ~OfOther(toRen'[l], s)
    <3>1. k + 1 \in Said /\ l + 1 \in Said /\ l + 1 > k + 1 /\ toRen'[k] = toRen[k + 1] /\ toRen'[l] = toRen[l + 1]
      BY <1>2, <2>3
    <3> QED BY <1>1, <2>3, <3>1 DEF Alone
  <2> QED BY <1>1, <2>1, <2>2, <2>3 DEF Alone
<1>12. Begun'
  BY <1>1, <1>2, <1>3, <1>4, <1>5, <1>6 DEF Begun
<1>13. Answered'
  <2>1. ASSUME NEW a \in Actions, runAction' = a
        PROVE  a \in thrown' \/ Open(a)' \/ \E k \in Said' : OfAction(toRen'[k], a)
    <3>1. a \in thrown \/ Open(a) \/ \E k \in Said : OfAction(toRen[k], a)
      BY <1>1, <1>7, <2>1 DEF Answered
    <3>2. ~OfAction(toRen[1], a)
      BY <1>7, <2>1 DEF m
    <3> QED BY <1>2, <1>3, <3>1, <3>2
  <2>2. ASSUME NEW c \in Captures, Asks("scene-capture", c)
        PROVE  Open(c)' \/ \E k \in Said' : OfCapture(toRen'[k], c)
    <3>1. Open(c) \/ \E k \in Said : OfCapture(toRen[k], c)
      BY <1>1, <2>2 DEF Answered
    <3>2. ~OfCapture(toRen[1], c)
      BY <1>5, <2>2 DEF m
    <3> QED BY <1>2, <1>3, <3>1, <3>2
  <2>3. ASSUME Asking("scene-restore")
        PROVE  /\ (\E r \in Restores : Open(r)') \/ \E k \in Said' : toRen'[k].type = "scene_restore_end"
               /\ transaction' = None =>
                    \/ \E r \in Restores : Early(r)'
                    \/ \E k \in Said' : toRen'[k].type = "scene_restore_begin"
    <3>1. \E x \in RestoreIds : Asks("scene-restore", x)
      BY <1>1, <2>3, Waits
    <3>2. toRen[1].type # "scene_restore_end"
      BY <1>5, <2>3, RestoreEnds DEF m
    <3>3. transaction = None => toRen[1].type # "scene_restore_begin"
      BY <1>5, <3>1 DEF m
    <3>4. /\ (\E r \in Restores : Open(r)) \/ \E k \in Said : toRen[k].type = "scene_restore_end"
          /\ transaction = None =>
               (\E r \in Restores : Early(r)) \/ \E k \in Said : toRen[k].type = "scene_restore_begin"
      BY <1>1, <2>3 DEF Answered
    <3> QED BY <1>2, <1>3, <1>5, <3>2, <3>3, <3>4
  <2> QED BY <1>6, <2>1, <2>2, <2>3 DEF Answered
<1>14. Tracks'
  <2> SUFFICES ASSUME NoFailed PROVE Tracks'
    BY <1>3 DEF Tracks
  <2>1. ASSUME transaction' # None \/ (~syncRequired' /\ Settled')
        PROVE  \E T \in SUBSET Items : Pushed(T)' /\ Leads(Shown, 0, T)'
    <3>1. Settled' => Settled
      BY <1>2, <1>3, <1>6 DEF Settled
    <3>2. transaction # None \/ (~syncRequired /\ Settled)
      BY <1>5, <2>1, <3>1
    <3>3. PICK T \in SUBSET Items : Pushed(T) /\ Leads(Shown, 0, T)
      BY <1>1, <3>2 DEF Tracks
    <3>4. PICK S : S = Changed(Shown, m) /\ Shown' = S
      BY <1>5, <3>2
    <3>5. Leads(S, 0, T)'
      BY <1>1, <3>3, <3>4, LeadsReads DEF m
    <3>6. Leads(Shown, 0, T)'
      BY <3>4, <3>5
    <3> QED BY <1>3, <3>3, <3>6
  <2>2. ASSUME NEW s \in Syncs, NEW k \in Said', Asks("state-sync", s), BeginOf(toRen'[k], s)
        PROVE  \E T \in SUBSET Items : Pushed(T)' /\ Leads({}, k, T)'
    <3>1. k + 1 \in Said /\ BeginOf(toRen[k + 1], s) /\ (k + 1) - 1 = k
      BY <1>2, <2>2
    <3>2. PICK T \in SUBSET Items : Pushed(T) /\ Leads({}, k + 1, T)
      BY <1>1, <2>2, <3>1 DEF Tracks
    <3>3. Leads({}, (k + 1) - 1, T)'
      BY <1>1, <3>1, <3>2, LeadsReads
    <3> QED BY <1>3, <3>1, <3>2, <3>3
  <2>3. ASSUME NEW k \in Said', toRen'[k].type = "scene_restore_end"
        PROVE  /\ toRen'[k].status # "failed"
               /\ toRen'[k].status = "rejected" =>
                    IF k = 1 THEN ~(Asking("scene-restore") /\ transaction # None)
                    ELSE toRen'[k - 1].type = "scene_restore_begin"
    <3>1. k + 1 \in Said /\ toRen[k + 1].type = "scene_restore_end" /\ k + 1 # 1 /\ (k + 1) - 1 = k
          /\ toRen'[k] = toRen[k + 1] /\ k \in Nat /\ k >= 1
      BY <1>2, <2>3
    <3>2. /\ toRen[k + 1].status # "failed"
          /\ toRen[k + 1].status = "rejected" => toRen[(k + 1) - 1].type = "scene_restore_begin"
      BY <1>1, <3>1 DEF Tracks
    <3>3. k # 1 => toRen'[k - 1] = toRen[k]
      BY <1>1, <2>3, <3>1, ReadsBefore
    <3>4. k = 1 /\ toRen[k].type = "scene_restore_begin" => ~(Asking("scene-restore") /\ transaction # None)
      BY <1>1 DEF Begun
    <3> QED BY <3>1, <3>2, <3>3, <3>4
  <2> QED BY <1>5, <1>6, <2>1, <2>2, <2>3 DEF Tracks
<1> QED BY <1>4, <1>8, <1>9, <1>10, <1>11, <1>12, <1>13, <1>14 DEF Inv, Control

\* The binding has marked every restore that it has active, or is done with it.
AllMarked == \A r \in Restores : ~Called(r) /\ handler[r].pc # "validating"

\* The renderer gives up what it waits for.
Fails(j) ==
  /\ activeRequest # None /\ activeRequest' = None /\ transaction' = None /\ scene' = scene
  /\ \/ /\ syncRequired' /\ runAction' = None
        /\ Asking("state-sync") \/ transaction # None \/ AllMarked
     \/ /\ (syncRequired' <=> syncRequired) /\ runAction' = runAction /\ transaction = None
        /\ j = 1 => toRen[1].type \in {"scene_capture_result", "error"}
        /\ \/ Asking("scene-capture")
           \/ \E s \in Syncs : Asks("state-sync", s) /\ j = 1 /\ ErrorOf(toRen[1], s)

LEMMA FailsKeep ==
  ASSUME Inv, TypeOK', NEW j \in {0, 1}, Reads(j), Fails(j)
  PROVE  Inv'
<1>1. /\ Guarded /\ Known /\ Patient /\ Begun /\ Answered /\ Tracks /\ Ending /\ Base /\ TypeOK
  BY DEF Inv, Control, Base
<1>2. /\ \A k \in Said' : k \in Nat /\ k >= 1 /\ k + j \in Said /\ toRen'[k] = toRen[k + j]
      /\ \A k \in Said : \/ k - j \in Said' /\ toRen'[k - j] = toRen[k]
                         \/ k = 1 /\ j = 1
      /\ j = 1 => 1 \in Said
  BY <1>1, ReadsSaid
<1>3. /\ handler' = handler /\ unsent' = unsent /\ toSim' = toSim /\ thrown' = thrown
      /\ \A e : /\ (Called(e)' <=> Called(e)) /\ (Running(e)' <=> Running(e))
                /\ (Open(e)' <=> Open(e)) /\ (Early(e)' <=> Early(e))
      /\ \A e, x : RidOf(e, x)' <=> RidOf(e, x)
      /\ \A T : Pushed(T)' <=> Pushed(T)
      /\ NoFailed' <=> NoFailed
  BY ReadsKept
<1>4. /\ Base' /\ Busy' /\ Ending' /\ Applied'
      /\ \A k, l \in Said' :
           toRen'[k].type = "scene_restore_begin" /\ toRen'[l].type = "scene_restore_begin" => k = l
  BY ReadsKeep
<1>5. /\ activeRequest # None /\ activeRequest' = None /\ transaction' = None /\ scene' = scene
      /\ \/ /\ syncRequired' /\ runAction' = None
            /\ Asking("state-sync") \/ transaction # None \/ AllMarked
         \/ /\ (syncRequired' <=> syncRequired) /\ runAction' = runAction /\ transaction = None
            /\ j = 1 => toRen[1].type \in {"scene_capture_result", "error"}
            /\ \/ Asking("scene-capture")
               \/ \E s \in Syncs : Asks("state-sync", s) /\ j = 1 /\ ErrorOf(toRen[1], s)
  BY DEF Fails
<1>6. /\ \A kind : ~Asking(kind)'
      /\ \A s \in Syncs : ~Asks("state-sync", s)'
      /\ \A x \in RestoreIds : ~Asks("scene-restore", x)'
      /\ \A c \in Captures : ~Asks("scene-capture", c)'
  BY <1>5, NoneAssumption DEF Asks, Asking, Controls
<1>7. ASSUME ~syncRequired'
      PROVE  /\ ~syncRequired /\ runAction' = runAction /\ transaction = None
             /\ ~Asking("scene-restore")
             /\ \A x \in RestoreIds : ~Asks("scene-restore", x)
             /\ j = 1 => toRen[1].type \in {"scene_capture_result", "error"}
             /\ \/ Asking("scene-capture")
                \/ \E s \in Syncs : Asks("state-sync", s) /\ j = 1 /\ ErrorOf(toRen[1], s)
  <2>1. /\ ~syncRequired /\ runAction' = runAction /\ transaction = None
        /\ j = 1 => toRen[1].type \in {"scene_capture_result", "error"}
        /\ \/ Asking("scene-capture")
           \/ \E s \in Syncs : Asks("state-sync", s) /\ j = 1 /\ ErrorOf(toRen[1], s)
    BY <1>5, <1>7
  <2>2. Asking("scene-capture") \/ Asking("state-sync")
    BY <1>1, <2>1, Waits
  <2>3. ~Asking("scene-restore")
    BY <2>2 DEF Asking
  <2>4. \A x \in RestoreIds : ~Asks("scene-restore", x)
    BY <1>1, <2>3, Waits
  <2> QED BY <2>1, <2>3, <2>4
<1>8. Guarded'
  <2>1. syncRequired' => runAction' = None
    BY <1>1, <1>5 DEF Guarded
  <2> QED BY <1>1, <1>3, <1>5, <1>6, <2>1 DEF Guarded
<1>9. Known'
  <2> SUFFICES ASSUME ~syncRequired' PROVE Known'
    BY DEF Known
  <2>1. ASSUME NEW a \in Actions, Open(a)' \/ (\E k \in Said' : OfAction(toRen'[k], a))
        PROVE  runAction' = a
    <3>1. Open(a) \/ \E k \in Said : OfAction(toRen[k], a)
      BY <1>2, <1>3, <2>1
    <3> QED BY <1>1, <1>7, <3>1 DEF Known
  <2>2. ASSUME NEW s \in Syncs, Open(s)' \/ (\E k \in Said' : OfSync(toRen'[k], s))
        PROVE  FALSE
    <3>1. Open(s) \/ \E k \in Said : OfSync(toRen[k], s)
      BY <1>2, <1>3, <2>2
    <3>2. Asks("state-sync", s)
      BY <1>1, <1>7, <3>1 DEF Known
    <3>3. ~Asking("scene-capture")
      BY <1>1, <3>2, Waits DEF Asking
    <3>4. j = 1 /\ ErrorOf(toRen[1], s)
      BY <1>1, <1>7, <3>2, <3>3, Waits
    <3>5. OfSync(toRen[1], s) /\ ~BeginOf(toRen[1], s)
      BY <3>4 DEF ErrorOf, OfSync, SyncWords, BeginOf
    <3>6. ~Open(s) /\ \A l \in Said : OfSync(toRen[l], s) => l = 1
      BY <1>1, <1>2, <3>4, <3>5 DEF Ending
    <3>7. PICK k \in Said' : OfSync(toRen'[k], s)
      BY <1>3, <2>2, <3>6
    <3>8. k + 1 \in Said /\ OfSync(toRen[k + 1], s) /\ k + 1 # 1
      BY <1>2, <3>4, <3>7
    <3> QED BY <3>6, <3>8
  <2>3. \A k \in Said' : ~OfRestore(toRen'[k])
    <3> SUFFICES ASSUME NEW k \in Said', OfRestore(toRen'[k]) PROVE FALSE
      OBVIOUS
    <3>1. k + j \in Said /\ OfRestore(toRen[k + j])
      BY <1>2
    <3>2. toRen[k + j] \in Messages
      BY <1>1, <3>1 DEF TypeOK, SimTypeOK, Said
    <3>3. toRen[k + j].id \in RestoreIds
      BY <3>1, <3>2, MessageFields DEF OfRestore
    <3> QED BY <1>1, <1>7, <3>1, <3>3 DEF Known
  <2>4. ASSUME NEW r \in Restores, NEW x \in RestoreIds, Open(r)', RidOf(r, x)' PROVE FALSE
    BY <1>1, <1>3, <1>7, <2>4 DEF Known
  <2> QED BY <2>1, <2>2, <2>3, <2>4 DEF Known
<1>10. Patient'
  <2> SUFFICES ASSUME NEW r \in Restores, Called(r) \/ handler[r].pc = "validating" PROVE FALSE
    BY <1>3 DEF Patient
  <2>1. ~syncRequired /\ Asking("scene-restore") /\ transaction = None
    BY <1>1, WaitedFor DEF Patient
  <2>2. ~Asking("state-sync") /\ ~Asking("scene-capture")
    BY <2>1 DEF Asking
  <2>3. \A s \in Syncs : ~Asks("state-sync", s)
    BY <1>1, <2>2, Waits
  <2> QED BY <1>5, <2>1, <2>2, <2>3 DEF AllMarked
<1>11. Alone' /\ Begun'
  BY <1>4, <1>5, <1>6 DEF Alone, Begun
<1>12. Answered'
  <2> SUFFICES ASSUME NEW a \in Actions, runAction' = a
               PROVE  a \in thrown' \/ Open(a)' \/ \E k \in Said' : OfAction(toRen'[k], a)
    BY <1>6 DEF Answered
  <2>1. runAction = a /\ (j = 1 => toRen[1].type \in {"scene_capture_result", "error"})
    BY <1>5, OneKind DEF Requests
  <2>2. a \in thrown \/ Open(a) \/ \E k \in Said : OfAction(toRen[k], a)
    BY <1>1, <2>1 DEF Answered
  <2>3. j = 1 => ~OfAction(toRen[1], a)
    BY <2>1 DEF OfAction
  <2> QED BY <1>2, <1>3, <2>2, <2>3
<1>13. Tracks'
  <2> SUFFICES ASSUME NoFailed PROVE Tracks'
    BY <1>3 DEF Tracks
  <2>1. ASSUME ~syncRequired'
        PROVE  \E T \in SUBSET Items : Pushed(T)' /\ Leads(Shown, 0, T)'
    <3>1. Settled
      <4> SUFFICES ASSUME NEW s \in Syncs, Asks("state-sync", s) PROVE \E k \in Said : ErrorOf(toRen[k], s)
        BY DEF Settled
      <4>1. ~Asking("scene-capture")
        BY <1>1, Waits DEF Asking
      <4>2. j = 1 /\ ErrorOf(toRen[1], s)
        BY <1>1, <1>7, <2>1, <4>1, Waits
      <4> QED BY <1>2, <4>2
    <3>2. PICK T \in SUBSET Items : Pushed(T) /\ Leads(Shown, 0, T)
      BY <1>1, <1>7, <2>1, <3>1 DEF Tracks
    <3>3. PICK S : S = Shown /\ Shown' = S
      BY <1>5, <1>7, <2>1 DEF Shown
    <3>4. j = 1 => Changed(S, toRen[1]) = S
      BY <1>7, <2>1 DEF Changed
    <3>5. Leads(S, 0, T)'
      BY <1>1, <3>2, <3>3, <3>4, LeadsReads
    <3>6. Leads(Shown, 0, T)'
      BY <3>3, <3>5
    <3> QED BY <1>3, <3>2, <3>6
  <2>2. ASSUME NEW k \in Said', toRen'[k].type = "scene_restore_end"
        PROVE  /\ toRen'[k].status # "failed"
               /\ toRen'[k].status = "rejected" => k = 1 \/ toRen'[k - 1].type = "scene_restore_begin"
    <3>1. k + j \in Said /\ toRen[k + j].type = "scene_restore_end"
          /\ toRen'[k] = toRen[k + j] /\ k \in Nat /\ k >= 1
      BY <1>2, <2>2
    <3>2. /\ toRen[k + j].status # "failed"
          /\ toRen[k + j].status = "rejected" => k + j = 1 \/ toRen[(k + j) - 1].type = "scene_restore_begin"
      BY <1>1, <3>1 DEF Tracks
    <3>3. k # 1 => toRen'[k - 1] = toRen[(k + j) - 1] /\ k + j # 1
      BY <1>1, <2>2, <3>1, ReadsBefore
    <3> QED BY <3>1, <3>2, <3>3
  <2> QED BY <1>5, <1>6, <2>1, <2>2 DEF Tracks
<1> QED BY <1>4, <1>8, <1>9, <1>10, <1>11, <1>12, <1>13 DEF Inv, Control

\* The sync the renderer waits for begins: nothing else is under way.
LEMMA SyncBegins ==
  ASSUME Inv, TypeOK', Reads(1), 1 \in Said, NEW s \in Syncs,
         BeginOf(toRen[1], s), Asks("state-sync", s), transaction = None,
         transaction' = [kind |-> "state-sync", id |-> s, staging |-> Empty],
         UNCHANGED <<scene, activeRequest, syncRequired, runAction, rejected>>
  PROVE  Inv'
<1>1. /\ Guarded /\ Known /\ Patient /\ Alone /\ Begun /\ Answered /\ Tracks /\ Ending /\ Base /\ TypeOK
  BY DEF Inv, Control, Base
<1>2. /\ \A k \in Said' : k \in Nat /\ k >= 1 /\ k + 1 \in Said /\ toRen'[k] = toRen[k + 1] /\ k + 1 > 1
      /\ \A k \in Said : \/ k - 1 \in Said' /\ toRen'[k - 1] = toRen[k]
                         \/ k = 1
      /\ \A k \in Said : k > 1 \/ k = 1
      /\ \A k, l \in Said' : (l + 1 > k + 1 <=> l > k)
  <2>1. \A k \in Said : k > 1 \/ k = 1
    BY DEF Said
  <2> QED BY <1>1, <2>1, ReadsSaid
<1>3. /\ handler' = handler /\ unsent' = unsent /\ toSim' = toSim /\ thrown' = thrown
      /\ \A e : /\ (Called(e)' <=> Called(e)) /\ (Running(e)' <=> Running(e))
                /\ (Open(e)' <=> Open(e)) /\ (Early(e)' <=> Early(e))
      /\ \A e, x : RidOf(e, x)' <=> RidOf(e, x)
      /\ \A T : Pushed(T)' <=> Pushed(T)
      /\ NoFailed' <=> NoFailed
  BY ReadsKept
<1>4. /\ Base' /\ Busy' /\ Ending' /\ Applied'
      /\ \A k, l \in Said' :
           toRen'[k].type = "scene_restore_begin" /\ toRen'[l].type = "scene_restore_begin" => k = l
  BY ReadsKeep
<1>5. /\ transaction'.kind = "state-sync" /\ transaction'.id = s /\ transaction'.staging = Empty
      /\ transaction' # None
  <2>1. [kind |-> "state-sync", id |-> s, staging |-> Empty] \in Transactions
    BY DEF Transactions, ControlKinds, Scenes, Empty
  <2> QED BY <2>1, NoneAssumption
<1>6. /\ \A kind, id : Asks(kind, id)' <=> Asks(kind, id)
      /\ \A kind : Asking(kind)' <=> Asking(kind)
  BY DEF Asks, Asking
<1>7. /\ activeRequest # None /\ activeRequest.kind = "state-sync" /\ activeRequest.id = s
      /\ Asking("state-sync") /\ ~Asking("scene-restore") /\ ~Asking("scene-capture")
      /\ \A x \in RestoreIds : ~Asks("scene-restore", x)
      /\ \A c \in Captures : ~Asks("scene-capture", c)
      /\ \A t \in Syncs : Asks("state-sync", t) => t = s
  <2>1. activeRequest.kind = "state-sync" /\ activeRequest.id = s
    BY DEF Asks
  <2>2. Asking("state-sync")
    BY <1>1, Waits
  <2>3. ~Asking("scene-restore") /\ ~Asking("scene-capture")
    BY <2>1 DEF Asking
  <2> QED BY <1>1, <2>1, <2>2, <2>3, Waits DEF Asking
<1>8. /\ Accepted(s) /\ \A d \in Ops \ {s} : ~Open(d)
      /\ \A l \in Said : l > 1 => ~OfOther(toRen[l], s)
  <2>1. Accepted(s)
    BY DEF Accepted
  <2> QED BY <1>1, <2>1 DEF Alone
<1>9. OfSync(toRen[1], s) /\ s \notin unsent /\ ~Called(s) /\ handler[s].pc # "initializing"
  <2>1. OfSync(toRen[1], s)
    BY DEF OfSync, BeginOf, SyncWords
  <2> QED BY <1>1, <2>1 DEF Ending
<1>10. \A l \in Said : l > 1 => ~ErrorOf(toRen[l], s)
  <2> SUFFICES ASSUME NEW l \in Said, l > 1, ErrorOf(toRen[l], s) PROVE FALSE
    OBVIOUS
  <2>1. OfSync(toRen[l], s)
    BY DEF OfSync, ErrorOf, SyncWords
  <2>2. 1 = l
    BY <1>1, <1>9, <2>1 DEF Ending
  <2> QED BY <2>2
<1>11. runAction = None \/ runAction \in thrown
  <2> SUFFICES ASSUME runAction # None, runAction \notin thrown PROVE FALSE
    OBVIOUS
  <2>1. PICK a \in Actions : runAction = a
    BY <1>1 DEF TypeOK
  <2>2. a \in Ops \ {s}
    BY OneKind DEF Ops
  <2>3. PICK k \in Said : OfAction(toRen[k], a)
    BY <1>1, <1>8, <2>1, <2>2 DEF Answered
  <2>4. k # 1
    BY <2>3 DEF OfAction, BeginOf
  <2>5. OfOther(toRen[k], s)
    BY <2>3 DEF OfOther
  <2> QED BY <1>2, <1>8, <2>4, <2>5
<1>12. Guarded'
  BY <1>1, <1>3, <1>5, <1>6, <1>7, <1>11 DEF Guarded
<1>13. Known'
  <2> SUFFICES ASSUME ~syncRequired PROVE Known'
    BY DEF Known
  <2>1. \A a \in Actions : Open(a)' \/ (\E k \in Said' : OfAction(toRen'[k], a)) => runAction' = a
    BY <1>1, <1>2, <1>3 DEF Known
  <2>2. \A t \in Syncs : Open(t)' \/ (\E k \in Said' : OfSync(toRen'[k], t)) => Asks("state-sync", t)
    BY <1>1, <1>2, <1>3 DEF Known
  <2>3. \A k \in Said' : OfRestore(toRen'[k]) => Asks("scene-restore", toRen'[k].id)
    BY <1>1, <1>2, <1>3 DEF Known
  <2>4. \A r \in Restores, x \in RestoreIds : Open(r)' /\ RidOf(r, x)' => Asks("scene-restore", x)
    BY <1>1, <1>3 DEF Known
  <2> QED BY <1>6, <2>1, <2>2, <2>3, <2>4 DEF Known
<1>14. Patient'
  BY <1>1, <1>3, <1>7, WaitedFor DEF Patient
<1>15. Alone'
  <2> SUFFICES /\ \A k, l \in 1 .. Len(toSim) : toSim[k].at = s /\ k < l => toSim[l].at \notin Ops
               /\ \A d \in Ops \ {s} : ~Open(d)
               /\ ~Called(s) /\ handler[s].pc # "initializing"
               /\ \A l \in Said' : ~OfOther(toRen'[l], s) /\ ~ErrorOf(toRen'[l], s)
    BY <1>3, <1>6, <1>7 DEF Alone
  <2>1. \A l \in Said' : ~OfOther(toRen'[l], s) /\ ~ErrorOf(toRen'[l], s)
    BY <1>2, <1>8, <1>10
  <2> QED BY <1>1, <1>8, <1>9, <2>1 DEF Alone
<1>16. Begun' /\ Answered'
  <2>1. \A a \in Actions : runAction' = a => a \in thrown'
    BY <1>3, <1>11, OneKind DEF Requests
  <2> QED BY <1>4, <1>6, <1>7, <2>1 DEF Begun, Answered
<1>17. Tracks'
  <2> SUFFICES ASSUME NoFailed PROVE Tracks'
    BY <1>3 DEF Tracks
  <2>1. ASSUME NEW k \in Said, BeginOf(toRen[k], s)
        PROVE  \E T \in SUBSET Items : Pushed(T)' /\ Leads({}, k - 1, T)'
    <3>1. PICK T \in SUBSET Items : Pushed(T) /\ Leads({}, k, T)
      BY <1>1, <2>1 DEF Tracks
    <3>2. Leads({}, k - 1, T)'
      BY <1>1, <3>1, LeadsReads
    <3> QED BY <1>3, <3>1, <3>2
  <2>2. \E T \in SUBSET Items : Pushed(T)' /\ Leads(Shown, 0, T)'
    <3>1. Shown' = {}
      BY <1>5 DEF Shown, Empty
    <3> QED BY <2>1, <3>1
  <2>3. ASSUME NEW k \in Said', BeginOf(toRen'[k], s)
        PROVE  \E T \in SUBSET Items : Pushed(T)' /\ Leads({}, k, T)'
    <3>1. k + 1 \in Said /\ BeginOf(toRen[k + 1], s) /\ (k + 1) - 1 = k
      BY <1>2, <2>3
    <3> QED BY <2>1, <3>1
  <2>4. ASSUME NEW k \in Said', toRen'[k].type = "scene_restore_end"
        PROVE  FALSE
    <3>1. k + 1 \in Said /\ toRen[k + 1].type = "scene_restore_end" /\ k + 1 > 1
      BY <1>2, <2>4
    <3>2. OfOther(toRen[k + 1], s)
      BY <3>1 DEF OfOther, OfRestore, Restoring
    <3> QED BY <1>8, <3>1, <3>2
  <2> QED BY <1>6, <1>7, <2>2, <2>3, <2>4 DEF Tracks
<1> QED BY <1>4, <1>12, <1>13, <1>14, <1>15, <1>16, <1>17 DEF Inv, Control

\* The transaction the renderer has open ends; it waits for nothing more.
Ends ==
  /\ transaction # None /\ transaction' = None /\ activeRequest' = None
  /\ ~syncRequired' /\ runAction' = runAction

\* After the last word of a transaction there are no others.
LEMMA EndsKeep ==
  ASSUME Inv, TypeOK', Reads(1), 1 \in Said, Ends,
         \A d \in Ops : ~Open(d),
         \A k \in Said : k > 1 => /\ \A a \in Actions : ~OfAction(toRen[k], a)
                                  /\ \A s \in Syncs : ~OfSync(toRen[k], s)
                                  /\ ~OfRestore(toRen[k]),
         NoFailed => Shown' = Shown,
         toRen[1].type \notin ItemWords
  PROVE  Inv'
<1>1. /\ Guarded /\ Known /\ Patient /\ Begun /\ Answered /\ Tracks /\ Ending /\ Base /\ TypeOK
  BY DEF Inv, Control, Base
<1>2. \A k \in Said' : k + 1 \in Said /\ toRen'[k] = toRen[k + 1] /\ k + 1 > 1
  <2>1. \A k \in Said' : k + 1 > 1
    BY DEF Said
  <2> QED BY <1>1, <2>1, ReadsSaid
<1>3. /\ handler' = handler /\ unsent' = unsent /\ toSim' = toSim /\ thrown' = thrown
      /\ \A e : (Called(e)' <=> Called(e)) /\ (Open(e)' <=> Open(e))
      /\ \A T : Pushed(T)' <=> Pushed(T)
      /\ NoFailed' <=> NoFailed
  BY ReadsKept
<1>4. /\ Base' /\ Busy' /\ Ending' /\ Applied'
      /\ \A k, l \in Said' :
           toRen'[k].type = "scene_restore_begin" /\ toRen'[l].type = "scene_restore_begin" => k = l
  BY ReadsKeep
<1>5. /\ transaction # None /\ transaction' = None /\ activeRequest' = None
      /\ ~syncRequired' /\ runAction' = runAction /\ (runAction = None \/ runAction \in thrown)
  BY <1>1 DEF Ends, Guarded
<1>6. /\ \A kind : ~Asking(kind)'
      /\ \A s \in Syncs : ~Asks("state-sync", s)'
      /\ \A x \in RestoreIds : ~Asks("scene-restore", x)'
      /\ \A c \in Captures : ~Asks("scene-capture", c)'
  BY <1>5, NoneAssumption DEF Asks, Asking, Controls
<1>7. \A k \in Said' : /\ \A a \in Actions : ~OfAction(toRen'[k], a)
                       /\ \A s \in Syncs : ~OfSync(toRen'[k], s)
                       /\ ~OfRestore(toRen'[k])
  BY <1>2
<1>8. /\ \A a \in Actions : ~Open(a)' /\ a # None
      /\ \A s \in Syncs : ~Open(s)'
      /\ \A r \in Restores : ~Open(r)'
  BY <1>3, OneKind DEF Ops, Requests
<1>9. Guarded'
  BY <1>3, <1>5, <1>6, <1>8 DEF Guarded
<1>10. Known'
  BY <1>7, <1>8 DEF Known
<1>11. Patient'
  BY <1>5 DEF Patient
<1>12. Alone' /\ Begun' /\ Answered'
  BY <1>3, <1>4, <1>5, <1>6, <1>8 DEF Alone, Begun, Answered
<1>13. Tracks'
  <2> SUFFICES ASSUME NoFailed PROVE \E T \in SUBSET Items : Pushed(T)' /\ Leads(Shown, 0, T)'
    BY <1>3, <1>6, <1>7 DEF Tracks, OfRestore, Restoring
  <2>1. PICK T \in SUBSET Items : Pushed(T) /\ Leads(Shown, 0, T)
    BY <1>1, <1>5 DEF Tracks
  <2>2. PICK S : S = Shown /\ Shown' = S
    OBVIOUS
  <2>3. Changed(S, toRen[1]) = S
    BY DEF Changed, ItemWords
  <2>4. Leads(S, 0, T)'
    BY <1>1, <2>1, <2>2, <2>3, LeadsReads
  <2>5. Leads(Shown, 0, T)'
    BY <2>2, <2>4
  <2> QED BY <1>3, <2>1, <2>5
<1> QED BY <1>4, <1>9, <1>10, <1>11, <1>12, <1>13 DEF Inv, Control

\* Nothing follows the sync the renderer takes over, and nothing is at work.
LEMMA SyncEnds ==
  ASSUME Inv, TypeOK', Reads(1), 1 \in Said, toRen[1].type = "state_sync_end",
         Closes("state-sync", toRen[1]), scene' = transaction.staging, Ends
  PROVE  Inv'
<1>1. /\ Guarded /\ Alone /\ Ending /\ Base /\ TypeOK
  BY DEF Inv, Control, Base
<1>2. toRen[1] \in Messages
  BY <1>1 DEF TypeOK, SimTypeOK, Said
<1>3. PICK s \in Syncs : s = toRen[1].id
  BY <1>2, MessageFields
<1>4. OfSync(toRen[1], s) /\ ~BeginOf(toRen[1], s)
  BY <1>3 DEF OfSync, SyncWords, BeginOf
<1>5. transaction # None /\ Asks("state-sync", s)
  <2>1. /\ transaction # None /\ activeRequest # None
        /\ activeRequest.kind = "state-sync" /\ activeRequest.id = s
    BY <1>1, <1>3 DEF Closes, Guarded
  <2>2. Asking("state-sync")
    BY <2>1 DEF Asking
  <2> QED BY <1>1, <2>1, <2>2, Waits
<1>6. Accepted(s)
  BY <1>5 DEF Accepted
<1>7. ~Open(s) /\ \A l \in Said : l > 1 => ~OfSync(toRen[l], s)
  BY <1>1, <1>4 DEF Ending
<1>8. (\A d \in Ops \ {s} : ~Open(d)) /\ \A l \in Said : ~OfOther(toRen[l], s)
  BY <1>1, <1>5, <1>6 DEF Alone
<1>9. \A d \in Ops : ~Open(d)
  BY <1>7, <1>8
<1>10. \A k \in Said : k > 1 => /\ \A a \in Actions : ~OfAction(toRen[k], a)
                                /\ \A t \in Syncs : ~OfSync(toRen[k], t)
                                /\ ~OfRestore(toRen[k])
  <2> SUFFICES ASSUME NEW k \in Said, k > 1
               PROVE  /\ \A a \in Actions : ~OfAction(toRen[k], a)
                      /\ \A t \in Syncs : ~OfSync(toRen[k], t)
                      /\ ~OfRestore(toRen[k])
    OBVIOUS
  <2>1. ~OfOther(toRen[k], s) /\ ~OfSync(toRen[k], s)
    BY <1>7, <1>8
  <2>2. \A t \in Syncs : t = s \/ t \in Syncs \ {s}
    OBVIOUS
  <2> QED BY <2>1, <2>2 DEF OfOther
<1>11. Shown' = Shown
  BY <1>5 DEF Shown, Ends
<1> QED BY <1>9, <1>10, <1>11, EndsKeep DEF ItemWords

LEMMA RestoreIsOver ==
  ASSUME Inv, TypeOK', Reads(1), 1 \in Said, toRen[1].type = "scene_restore_end",
         Closes("scene-restore", toRen[1]),
         scene' = (IF toRen[1].status = "ok" THEN transaction.staging ELSE scene),
         transaction' = None, activeRequest' = None,
         syncRequired' = syncRequired, runAction' = runAction
  PROVE  Inv'
<1>1. /\ Guarded /\ Known /\ Ending /\ Base /\ TypeOK /\ Tracks
  BY DEF Inv, Control, Base
<1>2. toRen[1] \in Messages
  BY <1>1 DEF TypeOK, SimTypeOK, Said
<1>3. /\ transaction # None /\ runAction = None /\ activeRequest # None /\ activeRequest.kind = "scene-restore"
      /\ Asking("scene-restore") /\ ~syncRequired /\ Restores # {}
  BY <1>1 DEF Closes, Guarded, Asking
<1>4. \A s \in Syncs : ~Asks("state-sync", s)
  BY <1>1, <1>3, Waits DEF Asking
<1>5. /\ \A a \in Actions : ~Open(a) /\ \A k \in Said : ~OfAction(toRen[k], a)
      /\ \A s \in Syncs : ~Open(s) /\ \A k \in Said : ~OfSync(toRen[k], s)
  BY <1>1, <1>3, <1>4, OneKind DEF Known, Requests
<1>6. OfRestore(toRen[1])
  BY DEF OfRestore, Restoring
<1>7. /\ \A r \in Restores : ~Open(r)
      /\ \A k \in Said : k > 1 => ~OfRestore(toRen[k])
  BY <1>1, <1>3, <1>6 DEF Ending
<1>8. \A d \in Ops : ~Open(d)
  BY <1>5, <1>7 DEF Ops
<1>9. NoFailed => Shown' = Shown
  <2> SUFFICES ASSUME NoFailed PROVE Shown' = Shown
    OBVIOUS
  <2>1. toRen[1].status \in {"ok", "rejected"}
    BY <1>1, <1>2, MessageFields DEF Tracks, Statuses
  <2>2. toRen[1].status = "rejected" => transaction.staging.items = scene.items
    BY <1>1, <1>3 DEF Tracks
  <2> QED BY <1>3, <2>1, <2>2 DEF Shown
<1> QED BY <1>3, <1>5, <1>7, <1>8, <1>9, EndsKeep DEF Ends, ItemWords

LEMMA RestoreBegins ==
  ASSUME Inv, TypeOK', Reads(1), 1 \in Said, NEW x \in RestoreIds,
         toRen[1].type = "scene_restore_begin", Asks("scene-restore", x), transaction = None,
         transaction' = [kind |-> "scene-restore", id |-> x, staging |-> scene],
         UNCHANGED <<scene, activeRequest, syncRequired, runAction, rejected>>
  PROVE  Inv'
<1>1. /\ Guarded /\ Known /\ Patient /\ Begun /\ Answered /\ Tracks /\ Ending /\ Base /\ TypeOK
  BY DEF Inv, Control, Base
<1>2. /\ \A k \in Said' : k \in Nat /\ k >= 1 /\ k + 1 \in Said /\ toRen'[k] = toRen[k + 1] /\ k + 1 # 1
      /\ \A k \in Said : \/ k - 1 \in Said' /\ toRen'[k - 1] = toRen[k]
                         \/ k = 1
  <2>1. \A k \in Said' : k + 1 # 1
    BY DEF Said
  <2> QED BY <1>1, <2>1, ReadsSaid
<1>3. /\ handler' = handler /\ unsent' = unsent /\ toSim' = toSim /\ thrown' = thrown
      /\ \A e : (Called(e)' <=> Called(e)) /\ (Open(e)' <=> Open(e)) /\ (Early(e)' <=> Early(e))
      /\ \A e, y : RidOf(e, y)' <=> RidOf(e, y)
      /\ \A T : Pushed(T)' <=> Pushed(T)
      /\ NoFailed' <=> NoFailed
  BY ReadsKept
<1>4. /\ Base' /\ Busy' /\ Ending' /\ Applied'
      /\ \A k, l \in Said' :
           toRen'[k].type = "scene_restore_begin" /\ toRen'[l].type = "scene_restore_begin" => k = l
  BY ReadsKeep
<1>5. /\ transaction'.kind = "scene-restore" /\ transaction'.id = x /\ transaction'.staging = scene
      /\ transaction' # None
  <2>1. [kind |-> "scene-restore", id |-> x, staging |-> scene] \in Transactions
    BY <1>1 DEF Transactions, ControlKinds, TypeOK
  <2> QED BY <2>1, NoneAssumption
<1>6. /\ \A kind, id : Asks(kind, id)' <=> Asks(kind, id)
      /\ \A kind : Asking(kind)' <=> Asking(kind)
  BY DEF Asks, Asking
<1>7. /\ activeRequest # None /\ activeRequest.kind = "scene-restore" /\ activeRequest.id = x
      /\ Asking("scene-restore") /\ ~syncRequired /\ runAction = None
      /\ \A s \in Syncs : ~Asks("state-sync", s)
      /\ \A c \in Captures : ~Asks("scene-capture", c)
  <2>1. activeRequest.kind = "scene-restore" /\ activeRequest.id = x
    BY DEF Asks
  <2>2. Asking("scene-restore")
    BY <1>1, Waits
  <2>3. ~Asking("state-sync") /\ ~Asking("scene-capture")
    BY <2>1 DEF Asking
  <2> QED BY <1>1, <2>1, <2>2, <2>3, Waits DEF Asking, Guarded
<1>8. OfRestore(toRen[1])
  BY DEF OfRestore, Restoring
<1>9. \A r \in Restores : ~Early(r)
  BY <1>1, <1>8 DEF Ending
<1>10. Guarded'
  BY <1>1, <1>3, <1>5, <1>6, <1>7 DEF Guarded
<1>11. Known'
  <2>1. \A a \in Actions : Open(a)' \/ (\E k \in Said' : OfAction(toRen'[k], a)) => runAction' = a
    BY <1>1, <1>2, <1>3, <1>7 DEF Known
  <2>2. \A t \in Syncs : Open(t)' \/ (\E k \in Said' : OfSync(toRen'[k], t)) => Asks("state-sync", t)
    BY <1>1, <1>2, <1>3, <1>7 DEF Known
  <2>3. \A k \in Said' : OfRestore(toRen'[k]) => Asks("scene-restore", toRen'[k].id)
    BY <1>1, <1>2, <1>3, <1>7 DEF Known
  <2>4. \A r \in Restores, y \in RestoreIds : Open(r)' /\ RidOf(r, y)' => Asks("scene-restore", y)
    BY <1>1, <1>3, <1>7 DEF Known
  <2> QED BY <1>6, <2>1, <2>2, <2>3, <2>4 DEF Known
<1>12. Patient' /\ Alone'
  BY <1>3, <1>6, <1>7, <1>9 DEF Patient, Alone, Early
<1>13. \A k \in Said' : toRen'[k].type # "scene_restore_begin"
  <2> SUFFICES ASSUME NEW k \in Said', toRen'[k].type = "scene_restore_begin" PROVE FALSE
    OBVIOUS
  <2>1. k + 1 \in Said /\ toRen[k + 1].type = "scene_restore_begin" /\ k + 1 # 1
    BY <1>2
  <2> QED BY <1>1, <2>1 DEF Begun
<1>14. Begun'
  BY <1>3, <1>4, <1>9, <1>13 DEF Begun
<1>15. Answered'
  <2>1. \A a \in Actions : runAction' # a
    BY <1>7, OneKind DEF Requests
  <2>2. (\E r \in Restores : Open(r)) \/ \E k \in Said : toRen[k].type = "scene_restore_end"
    BY <1>1, <1>7 DEF Answered
  <2>3. (\E r \in Restores : Open(r)') \/ \E k \in Said' : toRen'[k].type = "scene_restore_end"
    BY <1>2, <1>3, <2>2
  <2> QED BY <1>5, <1>6, <1>7, <2>1, <2>3 DEF Answered
<1>16. Tracks'
  <2> SUFFICES ASSUME NoFailed PROVE Tracks'
    BY <1>3 DEF Tracks
  <2>1. \E T \in SUBSET Items : Pushed(T)' /\ Leads(Shown, 0, T)'
    <3>1. Settled
      BY <1>7 DEF Settled
    <3>2. PICK T \in SUBSET Items : Pushed(T) /\ Leads(Shown, 0, T)
      BY <1>1, <1>7, <3>1 DEF Tracks
    <3>3. PICK S : S = Shown /\ Shown' = S
      BY <1>5 DEF Shown
    <3>4. Changed(S, toRen[1]) = S
      BY DEF Changed
    <3>5. Leads(S, 0, T)'
      BY <1>1, <3>2, <3>3, <3>4, LeadsReads
    <3>6. Leads(Shown, 0, T)'
      BY <3>3, <3>5
    <3> QED BY <1>3, <3>2, <3>6
  <2>2. ASSUME NEW k \in Said', toRen'[k].type = "scene_restore_end"
        PROVE  /\ toRen'[k].status # "failed"
               /\ toRen'[k].status = "rejected" => k = 1 \/ toRen'[k - 1].type = "scene_restore_begin"
    <3>1. k + 1 \in Said /\ toRen[k + 1].type = "scene_restore_end" /\ k + 1 # 1 /\ (k + 1) - 1 = k
          /\ toRen'[k] = toRen[k + 1] /\ k \in Nat /\ k >= 1
      BY <1>2, <2>2
    <3>2. /\ toRen[k + 1].status # "failed"
          /\ toRen[k + 1].status = "rejected" => toRen[(k + 1) - 1].type = "scene_restore_begin"
      BY <1>1, <3>1 DEF Tracks
    <3>3. k # 1 => toRen'[k - 1] = toRen[k]
      BY <1>1, <2>2, <3>1, ReadsBefore
    <3> QED BY <3>1, <3>2, <3>3
  <2> QED BY <1>5, <1>6, <1>7, <2>1, <2>2 DEF Tracks
<1> QED BY <1>4, <1>10, <1>11, <1>12, <1>14, <1>15, <1>16 DEF Inv, Control

-----------------------------------------------------------------------------
(* What the renderer makes of a message.                                   *)

LEMMA Mutates ==
  ASSUME NEW s \in Scenes, NEW m \in Messages
  PROVE  Mutate(s, m) \in Scenes /\ Mutate(s, m).items = Changed(s.items, m)
<1>1. /\ m.type \in ItemWords => m.items \in SUBSET Items
      /\ m.type \in {"param_create", "param_update", "param_sync"} => m.value \in Values
  BY MessageFields
<1>2. s.items \in SUBSET Items /\ s.param \in Values \union {None}
  BY DEF Scenes
<1>3. CASE m.type = "item_create"
  <2>1. Mutate(s, m) = [s EXCEPT !.items = @ \union m.items]
    BY <1>3 DEF Mutate
  <2>2. m.items \in SUBSET Items /\ Changed(s.items, m) = s.items \union m.items
    BY <1>1, <1>3 DEF ItemWords, Changed
  <2> QED BY <1>2, <2>1, <2>2 DEF Scenes
<1>4. CASE m.type = "item_delete"
  <2>1. Mutate(s, m) = [s EXCEPT !.items = @ \ m.items]
    BY <1>4 DEF Mutate
  <2>2. m.items \in SUBSET Items /\ Changed(s.items, m) = s.items \ m.items
    BY <1>1, <1>4 DEF ItemWords, Changed
  <2> QED BY <1>2, <2>1, <2>2 DEF Scenes
<1>5. CASE m.type \notin ItemWords
  <2>1. Changed(s.items, m) = s.items
    BY <1>5 DEF ItemWords, Changed
  <2>2. \/ Mutate(s, m) = s
        \/ Mutate(s, m) = [s EXCEPT !.param = m.value] /\ m.value \in Values
    BY <1>1, <1>5 DEF Mutate, ItemWords
  <2> QED BY <1>2, <2>1, <2>2 DEF Scenes
<1> QED BY <1>3, <1>4, <1>5 DEF ItemWords

Others == {"action_result", "param_create", "param_update", "param_sync", "item_create", "item_delete"}

\* The renderer does not act on m: it is refused, or not what it waits for.
Ignored(m) ==
  /\ Ignore
  /\ \/ Refused(m)
     \/ m.type = "state_sync_begin" /\ ~(transaction = None /\ Awaits("state-sync", m.id))
     \/ m.type = "scene_restore_begin" /\ ~(transaction = None /\ Awaits("scene-restore", m.id))
     \/ m.type = "state_sync_end"
     \/ m.type = "scene_restore_end" /\ ~Closes("scene-restore", m)
     \/ m.type = "scene_capture_result" /\ ~Awaits("scene-capture", m.id)
     \/ m.type = "error" /\ ~(activeRequest # None /\ m.id = activeRequest.id)

Handled(m) ==
  \/ Ignored(m)
  \/ /\ m.type = "state_sync_begin" /\ transaction = None /\ Awaits("state-sync", m.id)
     /\ transaction' = [kind |-> "state-sync", id |-> m.id, staging |-> Empty]
     /\ UNCHANGED <<scene, activeRequest, syncRequired, runAction, rejected>>
  \/ m.type = "state_sync_end" /\ Closes("state-sync", m) /\ EndStateSync(m)
  \/ /\ m.type = "scene_restore_begin" /\ transaction = None /\ Awaits("scene-restore", m.id)
     /\ transaction' = [kind |-> "scene-restore", id |-> m.id, staging |-> scene]
     /\ UNCHANGED <<scene, activeRequest, syncRequired, runAction, rejected>>
  \/ m.type = "scene_restore_end" /\ Closes("scene-restore", m) /\ EndSceneRestore(m)
  \/ /\ \/ m.type = "scene_capture_result" /\ Awaits("scene-capture", m.id)
        \/ m.type = "error" /\ activeRequest # None /\ m.id = activeRequest.id
     /\ FailActiveRequest(FALSE)
  \/ m.type \in Others /\ transaction # None /\ ApplyTransactionMessage(m)
  \/ m.type \in Others /\ transaction = None /\ ~syncRequired /\ ApplyCommittedMessage(m)

LEMMA Handling ==
  ASSUME TypeOK, HandleIncoming
  PROVE  /\ 1 \in Said /\ toRen[1] \in Messages /\ Reads(1) /\ SimTypeOK'
         /\ unsent' = unsent /\ overtaken' = overtaken
         /\ Handled(toRen[1])
<1> DEFINE m == toRen[1]
<1>1. toRen \in Seq(Messages) /\ toRen # <<>> /\ toRen' = Tail(toRen)
  BY DEF TypeOK, SimTypeOK, HandleIncoming, Incoming
<1>2. /\ Len(toRen) \in Nat /\ Len(toRen) >= 1 /\ Head(toRen) = m
      /\ toRen' \in Seq(Messages) /\ Len(toRen) = Len(toRen') + 1
      /\ \A k \in 1 .. Len(toRen') : toRen'[k] = toRen[k + 1]
  BY <1>1
<1>3. 1 \in Said /\ m \in Messages
  BY <1>1, <1>2 DEF Said
<1>4. UNCHANGED <<toSim, handler, bindingState, modelState, syncedItems, applied, thrown, unsent, overtaken>>
  BY DEF HandleIncoming, Incoming
<1>5. Reads(1)
  BY <1>2, <1>4 DEF Reads
<1>6. SimTypeOK'
  BY <1>2, <1>4 DEF TypeOK, SimTypeOK, bindingState, modelState
<1>7. IF Refused(m) THEN Ignore ELSE
     CASE m.type = "state_sync_begin"    -> Begin("state-sync", m, Empty)
       [] m.type = "state_sync_end"      -> EndStateSync(m)
       [] m.type = "scene_restore_begin" -> Begin("scene-restore", m, scene)
       [] m.type = "scene_restore_end"   -> EndSceneRestore(m)
       [] m.type = "scene_capture_result" ->
            IF Awaits("scene-capture", m.id) THEN FailActiveRequest(FALSE) ELSE Ignore
       [] m.type = "error" ->
            IF activeRequest # None /\ m.id = activeRequest.id
            THEN FailActiveRequest(FALSE) ELSE Ignore
       [] OTHER -> IF transaction # None THEN ApplyTransactionMessage(m)
                   ELSE ApplyCommittedMessage(m)
  BY <1>2 DEF HandleIncoming
<1> HIDE DEF m
<1>8. Handled(m)
  <2>1. CASE Refused(m)
    BY <1>7, <2>1 DEF Handled, Ignored
  <2> SUFFICES ASSUME ~Refused(m) PROVE Handled(m)
    BY <2>1
  <2>2. CASE m.type = "state_sync_begin"
    <3>1. Begin("state-sync", m, Empty)
      BY <1>7, <2>2
    <3> QED BY <2>2, <3>1 DEF Begin, Handled, Ignored
  <2>3. CASE m.type = "state_sync_end"
    <3>1. EndStateSync(m)
      BY <1>7, <2>3
    <3>2. Closes("state-sync", m) \/ Ignore
      BY <3>1 DEF EndStateSync
    <3> QED BY <2>3, <3>1, <3>2 DEF Handled, Ignored
  <2>4. CASE m.type = "scene_restore_begin"
    <3>1. Begin("scene-restore", m, scene)
      BY <1>7, <2>4
    <3> QED BY <2>4, <3>1 DEF Begin, Handled, Ignored
  <2>5. CASE m.type = "scene_restore_end"
    <3>1. EndSceneRestore(m)
      BY <1>7, <2>5
    <3>2. Closes("scene-restore", m) \/ Ignore
      BY <3>1 DEF EndSceneRestore
    <3> QED BY <2>5, <3>1, <3>2 DEF Handled, Ignored
  <2>6. CASE m.type = "scene_capture_result"
    <3>1. IF Awaits("scene-capture", m.id) THEN FailActiveRequest(FALSE) ELSE Ignore
      BY <1>7, <2>6
    <3> QED BY <2>6, <3>1 DEF Handled, Ignored
  <2>7. CASE m.type = "error"
    <3>1. IF activeRequest # None /\ m.id = activeRequest.id THEN FailActiveRequest(FALSE) ELSE Ignore
      BY <1>7, <2>7
    <3> QED BY <2>7, <3>1 DEF Handled, Ignored
  <2>8. CASE m.type \in Others
    <3>1. IF transaction # None THEN ApplyTransactionMessage(m) ELSE ApplyCommittedMessage(m)
      BY <1>7, <2>8 DEF Others
    <3>2. transaction # None \/ ~syncRequired
      BY <2>8 DEF Refused, Others
    <3> QED BY <2>8, <3>1, <3>2 DEF Handled
  <2>9. m.type \in {"state_sync_begin", "state_sync_end", "action_result",
                    "scene_capture_result", "error", "scene_restore_begin",
                    "scene_restore_end", "param_create", "param_update", "param_sync",
                    "item_create", "item_delete"}
    BY <1>3, MessageFields DEF m
  <2> QED BY <2>2, <2>3, <2>4, <2>5, <2>6, <2>7, <2>8, <2>9 DEF Others
<1> QED BY <1>3, <1>4, <1>5, <1>6, <1>8 DEF m

\* The renderer's part of the step stays within its types.
LEMMA HandlingTypes ==
  ASSUME TypeOK, SimTypeOK', unsent' = unsent, overtaken' = overtaken, NEW m \in Messages, Handled(m)
  PROVE  TypeOK'
<1>1. /\ scene \in Scenes /\ transaction \in Transactions \union {None}
      /\ activeRequest \in Controls \union {None} /\ unsent \subseteq Requests
      /\ syncRequired \in BOOLEAN /\ rejected \in BOOLEAN /\ runAction \in Actions \union {None}
      /\ overtaken' \in BOOLEAN
  BY DEF TypeOK
<1>2. transaction # None => transaction.staging \in Scenes /\ transaction \in Transactions
  BY <1>1 DEF Transactions
<1>3. ASSUME scene' \in Scenes, transaction' \in Transactions \union {None},
             activeRequest' \in Controls \union {None},
             syncRequired' \in BOOLEAN, rejected' \in BOOLEAN, runAction' \in Actions \union {None}
      PROVE  TypeOK'
  BY <1>1, <1>3 DEF TypeOK
<1>4. CASE Ignored(m)
  BY <1>1, <1>3, <1>4 DEF Ignored, Ignore
<1>5. CASE /\ m.type = "state_sync_begin" /\ transaction = None /\ Awaits("state-sync", m.id)
           /\ transaction' = [kind |-> "state-sync", id |-> m.id, staging |-> Empty]
           /\ UNCHANGED <<scene, activeRequest, syncRequired, runAction, rejected>>
  <2>1. m.id \in Syncs
    BY <1>5, MessageFields
  <2>2. [kind |-> "state-sync", id |-> m.id, staging |-> Empty] \in Transactions
    BY <2>1 DEF Transactions, ControlKinds, Empty, Scenes
  <2> QED BY <1>1, <1>3, <1>5, <2>2
<1>6. CASE m.type = "state_sync_end" /\ Closes("state-sync", m) /\ EndStateSync(m)
  BY <1>1, <1>2, <1>3, <1>6 DEF EndStateSync, Closes
<1>7. CASE /\ m.type = "scene_restore_begin" /\ transaction = None /\ Awaits("scene-restore", m.id)
           /\ transaction' = [kind |-> "scene-restore", id |-> m.id, staging |-> scene]
           /\ UNCHANGED <<scene, activeRequest, syncRequired, runAction, rejected>>
  <2>1. m.id \in RestoreIds
    BY <1>7, MessageFields DEF Restoring
  <2>2. [kind |-> "scene-restore", id |-> m.id, staging |-> scene] \in Transactions
    BY <1>1, <2>1 DEF Transactions, ControlKinds
  <2> QED BY <1>1, <1>3, <1>7, <2>2
<1>8. CASE m.type = "scene_restore_end" /\ Closes("scene-restore", m) /\ EndSceneRestore(m)
  BY <1>1, <1>2, <1>3, <1>8 DEF EndSceneRestore, Closes
<1>9. CASE FailActiveRequest(FALSE)
  BY <1>1, <1>3, <1>9 DEF FailActiveRequest
<1>10. CASE m.type \in Others /\ transaction # None /\ ApplyTransactionMessage(m)
  <2>1. CASE Allowed(transaction.staging, m)
    <3>1. /\ transaction' = [transaction EXCEPT !.staging = Mutate(transaction.staging, m)]
          /\ UNCHANGED <<scene, activeRequest, syncRequired, runAction, rejected>>
      BY <1>10, <2>1 DEF ApplyTransactionMessage
    <3>2. Mutate(transaction.staging, m) \in Scenes
      BY <1>2, <1>10, Mutates
    <3>3. transaction' \in Transactions
      BY <1>2, <1>10, <3>1, <3>2 DEF Transactions
    <3> QED BY <1>1, <1>3, <3>1, <3>3
  <2>2. CASE ~Allowed(transaction.staging, m)
    BY <1>1, <1>3, <1>10, <2>2 DEF ApplyTransactionMessage, FailActiveRequest
  <2> QED BY <2>1, <2>2
<1>11. CASE m.type \in Others /\ transaction = None /\ ~syncRequired /\ ApplyCommittedMessage(m)
  <2>1. Mutate(scene, m) \in Scenes
    BY <1>1, Mutates
  <2>2. scene' \in Scenes /\ rejected' \in BOOLEAN
    BY <1>1, <1>11, <2>1 DEF ApplyCommittedMessage
  <2> QED BY <1>1, <1>3, <1>11, <2>2 DEF ApplyCommittedMessage
<1> QED BY <1>4, <1>5, <1>6, <1>7, <1>8, <1>9, <1>10, <1>11 DEF Handled

LEMMA IgnoredKeeps ==
  ASSUME Inv, 1 \in Said, Ignored(toRen[1])
  PROVE  Keeps(toRen[1])
<1> DEFINE m == toRen[1]
<1>1. Guarded /\ Known /\ TypeOK
  BY DEF Inv, Control, Base
<1>2. m \in Messages
  BY <1>1 DEF TypeOK, SimTypeOK, Said
<1>3. /\ activeRequest' = activeRequest /\ (syncRequired' <=> syncRequired)
      /\ transaction' = transaction /\ runAction' = runAction /\ Shown' = Shown
  BY DEF Ignored, Ignore, Shown
<1>4. OfRestore(m) /\ ~syncRequired => Asks("scene-restore", m.id)
  BY <1>1 DEF Known
<1> HIDE DEF m
<1>5. \/ Refused(m)
      \/ m.type = "state_sync_begin" /\ ~(transaction = None /\ Awaits("state-sync", m.id))
      \/ m.type = "scene_restore_begin" /\ ~(transaction = None /\ Awaits("scene-restore", m.id))
      \/ m.type = "state_sync_end"
      \/ m.type = "scene_restore_end" /\ ~Closes("scene-restore", m)
      \/ m.type = "scene_capture_result" /\ ~Awaits("scene-capture", m.id)
      \/ m.type = "error" /\ ~(activeRequest # None /\ m.id = activeRequest.id)
  BY DEF Ignored, m
<1>6. Refused(m) => syncRequired /\ transaction = None /\ runAction = None /\ m.type # "error"
  BY <1>1 DEF Refused, Guarded
<1>7. ~Refused(m) => m.type \notin ItemWords /\ m.type # "action_result"
  BY <1>5 DEF ItemWords
<1>8. runAction' = IF OfAction(m, runAction) THEN None ELSE runAction
  BY <1>3, <1>6, <1>7 DEF OfAction
<1>9. transaction # None \/ (~syncRequired /\ Settled) => Changed(Shown, m) = Shown
  BY <1>6, <1>7 DEF Changed, ItemWords
<1>10. ASSUME NEW x \in RestoreIds, Asks("scene-restore", x)
       PROVE  /\ m.type = "scene_restore_begin" => transaction # None
              /\ ~(m.type = "scene_restore_end" /\ Closes("scene-restore", m))
  <2>1. ~syncRequired /\ ~Refused(m)
    BY <1>1, <1>10, Waits DEF Guarded, Asking, Refused
  <2>2. m.type = "scene_restore_begin" => Awaits("scene-restore", m.id)
    BY <1>4, <2>1 DEF OfRestore, Restoring, Asks, Awaits
  <2> QED BY <1>5, <2>1, <2>2
<1>11. ASSUME NEW c \in Captures, Asks("scene-capture", c), OfCapture(m, c) PROVE FALSE
  <2>1. ~syncRequired /\ ~Refused(m) /\ activeRequest # None
    BY <1>1, <1>11, Waits DEF Guarded, Asking, Refused
  <2>2. activeRequest = [kind |-> "scene-capture", id |-> c] /\ activeRequest.id = c /\ m.id = c
    BY <1>11 DEF Asks, OfCapture
  <2>3. m.type \in {"scene_capture_result", "error"}
    BY <1>11 DEF OfCapture
  <2> QED BY <1>5, <2>1, <2>2, <2>3 DEF Awaits
<1>12. ASSUME NEW s \in Syncs, Asks("state-sync", s), ErrorOf(m, s) PROVE FALSE
  <2>1. activeRequest # None /\ activeRequest.id = s
    BY <1>1, <1>12, Waits DEF Asking, Asks
  <2>2. m.id = s /\ m.type = "error"
    BY <1>12 DEF ErrorOf
  <2> QED BY <1>5, <1>6, <2>1, <2>2
<1> QED BY <1>3, <1>8, <1>9, <1>10, <1>11, <1>12 DEF Keeps, m

\* A message of the open transaction that its staging scene accepts.
LEMMA StagedKeeps ==
  ASSUME Inv, TypeOK', 1 \in Said, toRen[1].type \in Others, transaction # None,
         Allowed(transaction.staging, toRen[1]), ApplyTransactionMessage(toRen[1])
  PROVE  Keeps(toRen[1])
<1> DEFINE m == toRen[1]
<1>1. Guarded /\ Alone /\ TypeOK /\ transaction \in Transactions
  BY DEF Inv, Control, Base, TypeOK
<1>2. m \in Messages
  BY <1>1 DEF TypeOK, SimTypeOK, Said
<1>3. /\ transaction' = [transaction EXCEPT !.staging = Mutate(transaction.staging, m)]
      /\ UNCHANGED <<scene, activeRequest, syncRequired, runAction, rejected>>
  BY DEF ApplyTransactionMessage
<1>4. transaction.staging \in Scenes
  BY <1>1 DEF Transactions
<1> HIDE DEF m
<1>5. /\ transaction'.kind = transaction.kind /\ transaction'.id = transaction.id
      /\ transaction'.staging = Mutate(transaction.staging, m)
      /\ transaction' \in Transactions
  <2>1. Mutate(transaction.staging, m) \in Scenes
    BY <1>2, <1>4, Mutates
  <2> QED BY <1>1, <1>3, <2>1 DEF Transactions
<1>6. transaction' # None
  BY <1>5, NoneAssumption
<1>7. Shown' = Changed(Shown, m)
  BY <1>2, <1>4, <1>5, <1>6, Mutates DEF Shown
<1>8. PICK S : S = Changed(Shown, m) /\ Shown' = S
  BY <1>7
<1>9. ~OfAction(m, runAction)
  <2>1. CASE Asking("state-sync")
    <3>1. PICK s \in Syncs : Asks("state-sync", s)
      BY <1>1, <2>1, Waits
    <3>2. ~OfOther(m, s)
      BY <1>1, <3>1 DEF Alone, m
    <3>3. m.type = "action_result" => m.id \in Actions
      BY <1>2, MessageFields
    <3> QED BY <3>2, <3>3 DEF OfOther, OfAction
  <2>2. CASE ~Asking("state-sync")
    <3>1. runAction = None
      BY <1>1, <2>2 DEF Guarded, Asking
    <3>2. m.type = "action_result" => m.id \in Actions
      BY <1>2, MessageFields
    <3> QED BY <3>1, <3>2, OneKind DEF OfAction, Requests
  <2> QED BY <2>1, <2>2
<1>10. m.type \in Others
  BY DEF m
<1> QED BY <1>3, <1>5, <1>6, <1>8, <1>9, <1>10 DEF Keeps, Others, OfCapture, ErrorOf, m

\* A message for the committed scene: none that creates an item is refused.
LEMMA CommittedKeeps ==
  ASSUME Inv, TypeOK', Reads(1), 1 \in Said, toRen[1].type \in Others, transaction = None, ~syncRequired,
         ApplyCommittedMessage(toRen[1])
  PROVE  Keeps(toRen[1])
<1> DEFINE m == toRen[1]
<1>1. Guarded /\ TypeOK /\ Tracks /\ scene \in Scenes
  BY DEF Inv, Control, Base, TypeOK
<1>2. m \in Messages
  BY <1>1 DEF TypeOK, SimTypeOK, Said
<1>3. /\ IF Allowed(scene, m)
         THEN scene' = Mutate(scene, m) /\ UNCHANGED rejected
         ELSE rejected' = TRUE /\ UNCHANGED scene
      /\ runAction' = IF OfAction(m, runAction) THEN None ELSE runAction
      /\ UNCHANGED <<transaction, activeRequest, syncRequired>>
  BY DEF ApplyCommittedMessage, OfAction
<1>4. Shown = scene.items /\ Shown' = scene'.items
  BY <1>3 DEF Shown
<1>5. ASSUME NoFailed, Settled PROVE \E S : S = Changed(Shown, m) /\ Shown' = S
  <2>1. PICK T \in SUBSET Items : Leads(Shown, 0, T)
    BY <1>1, <1>5 DEF Tracks
  <2>2. m.type = "item_create" => scene.items \intersect m.items = {}
    BY <1>1, <1>4, <2>1, LeadsReads
  <2> HIDE DEF m
  <2>3. CASE Allowed(scene, m)
    BY <1>1, <1>2, <1>3, <1>4, <2>3, Mutates
  <2>4. CASE ~Allowed(scene, m)
    <3>1. m.type \notin ItemWords
      BY <2>2, <2>4 DEF Allowed, ItemWords
    <3> QED BY <1>3, <1>4, <2>4, <3>1 DEF Changed, ItemWords
  <2> QED BY <2>3, <2>4
<1>6. m.type \in Others
  OBVIOUS
<1> HIDE DEF m
<1> QED BY <1>3, <1>5, <1>6 DEF Keeps, Others, OfCapture, ErrorOf, m

\* The renderer gives up the request it waits for: it is answered, ...
LEMMA GivenUp ==
  ASSUME Guarded, Alone, TypeOK, 1 \in Said, NEW m \in Messages, m = toRen[1],
         \/ m.type = "scene_capture_result" /\ Awaits("scene-capture", m.id)
         \/ m.type = "error" /\ activeRequest # None /\ m.id = activeRequest.id,
         FailActiveRequest(FALSE)
  PROVE  Fails(1) /\ rejected' = rejected
<1>1. /\ activeRequest' = None /\ transaction' = None /\ scene' = scene
      /\ (syncRequired' <=> syncRequired) /\ runAction' = runAction /\ rejected' = rejected
  BY DEF FailActiveRequest
<1>2. \/ Asking("scene-capture")
      \/ \E s \in Syncs : Asks("state-sync", s) /\ ErrorOf(m, s)
  <2>1. CASE m.type = "scene_capture_result" /\ Awaits("scene-capture", m.id)
    <3>1. m.id \in Captures /\ Asks("scene-capture", m.id)
      BY <2>1, MessageFields DEF Asks, Awaits
    <3> QED BY <3>1, Waits
  <2>2. CASE m.type = "error" /\ activeRequest # None /\ m.id = activeRequest.id
    <3>1. m.id \in Syncs \union Captures \union {None}
      BY <2>2, MessageFields
    <3>2. m.id \notin RestoreIds
      BY <3>1, OneKind DEF Requests
    <3>3. ~Asking("scene-restore")
      BY <2>2, <3>2, Waits
    <3>4. Asking("state-sync") => m.id \in Syncs /\ Asks("state-sync", m.id) /\ ErrorOf(m, m.id)
      BY <2>2, Waits DEF ErrorOf
    <3> QED BY <2>2, <3>3, <3>4, Waits
  <2> QED BY <2>1, <2>2
<1>3. activeRequest # None
  BY <1>2, Waits DEF Asking
<1>4. transaction = None
  <2>1. CASE Asking("scene-capture")
    BY <2>1 DEF Guarded, Asking
  <2>2. CASE \E s \in Syncs : Asks("state-sync", s) /\ ErrorOf(m, s)
    BY <2>2 DEF Alone
  <2> QED BY <1>2, <2>1, <2>2
<1> QED BY <1>1, <1>2, <1>3, <1>4 DEF Fails

\* ... or its staging scene refuses a message, ...
LEMMA StagingRefused ==
  ASSUME Guarded, NEW m, m.type \in Others, transaction # None, ApplyTransactionMessage(m),
         ~Allowed(transaction.staging, m)
  PROVE  Fails(1) /\ rejected' = rejected
<1>1. FailActiveRequest(TRUE)
  BY DEF ApplyTransactionMessage
<1>2. /\ activeRequest # None /\ activeRequest.kind # "scene-capture"
      /\ activeRequest.kind = "state-sync" \/ runAction = None
  BY DEF Guarded
<1>3. /\ activeRequest' = None /\ transaction' = None /\ scene' = scene
      /\ syncRequired' /\ runAction' = None /\ rejected' = rejected
  BY <1>1, <1>2 DEF FailActiveRequest
<1> QED BY <1>2, <1>3 DEF Fails


\* ... or its timer expires.
LEMMA TimeoutFails ==
  ASSUME Inv, TransactionTimeout, ~overtaken'
  PROVE  Fails(0) /\ rejected' = rejected
<1>1. Guarded /\ TypeOK
  BY DEF Inv, Control, Base
<1>2. activeRequest # None /\ FailActiveRequest(TRUE)
  BY DEF TransactionTimeout
<1>3. activeRequest' = None /\ transaction' = None /\ scene' = scene /\ rejected' = rejected
  BY <1>2 DEF FailActiveRequest
<1>4. CASE Asking("state-sync")
  <2>1. syncRequired' /\ runAction' = None
    BY <1>2, <1>4 DEF FailActiveRequest, Asking
  <2> QED BY <1>2, <1>3, <1>4, <2>1 DEF Fails
<1>5. CASE Asking("scene-capture")
  <2>1. /\ (syncRequired' <=> syncRequired) /\ runAction' = runAction /\ transaction = None
    BY <1>1, <1>2, <1>5 DEF FailActiveRequest, Asking, Guarded
  <2> QED BY <1>2, <1>3, <1>5, <2>1 DEF Fails
<1>6. CASE Asking("scene-restore")
  <2>1. syncRequired' /\ runAction' = None
    BY <1>1, <1>2, <1>6 DEF FailActiveRequest, Asking, Guarded
  <2>2. ~Unmarked
    BY <1>6 DEF TransactionTimeout, Asking
  <2>3. DOMAIN toSim = 1 .. Len(toSim)
    BY <1>1 DEF TypeOK, SimTypeOK
  <2>4. AllMarked
    BY <2>2, <2>3 DEF Unmarked, AllMarked, Called
  <2> QED BY <1>2, <1>3, <2>1, <2>4 DEF Fails
<1> QED BY <1>1, <1>2, <1>4, <1>5, <1>6, Waits

LEMMA HandlingKeepsInv ==
  ASSUME Inv, HandleIncoming
  PROVE  Inv'
<1> DEFINE m == toRen[1]
<1>1. Guarded /\ Alone /\ TypeOK
  BY DEF Inv, Control, Base
<1>2. /\ 1 \in Said /\ m \in Messages /\ Reads(1) /\ SimTypeOK'
      /\ unsent' = unsent /\ overtaken' = overtaken /\ Handled(m)
  BY <1>1, Handling
<1>3. TypeOK'
  BY <1>1, <1>2, HandlingTypes
<1>4. CASE Ignored(m)
  BY <1>2, <1>3, <1>4, IgnoredKeeps, KeepsKeep
<1>5. CASE /\ m.type = "state_sync_begin" /\ transaction = None /\ Awaits("state-sync", m.id)
           /\ transaction' = [kind |-> "state-sync", id |-> m.id, staging |-> Empty]
           /\ UNCHANGED <<scene, activeRequest, syncRequired, runAction, rejected>>
  <2>1. PICK s \in Syncs : s = m.id
    BY <1>2, <1>5, MessageFields
  <2>2. BeginOf(m, s) /\ Asks("state-sync", s)
    BY <1>5, <2>1 DEF BeginOf, Asks, Awaits
  <2> QED BY <1>2, <1>3, <1>5, <2>1, <2>2, SyncBegins
<1>6. CASE m.type = "state_sync_end" /\ Closes("state-sync", m) /\ EndStateSync(m)
  <2>1. /\ scene' = transaction.staging /\ ~syncRequired' /\ transaction # None
        /\ transaction' = None /\ activeRequest' = None /\ runAction' = runAction
    BY <1>6 DEF EndStateSync, Closes
  <2>2. Ends
    BY <2>1 DEF Ends
  <2> QED BY <1>2, <1>3, <1>6, <2>1, <2>2, SyncEnds
<1>7. CASE /\ m.type = "scene_restore_begin" /\ transaction = None /\ Awaits("scene-restore", m.id)
           /\ transaction' = [kind |-> "scene-restore", id |-> m.id, staging |-> scene]
           /\ UNCHANGED <<scene, activeRequest, syncRequired, runAction, rejected>>
  <2>1. PICK x \in RestoreIds : x = m.id
    BY <1>2, <1>7, MessageFields DEF Restoring
  <2>2. Asks("scene-restore", x)
    BY <1>7, <2>1 DEF Asks, Awaits
  <2> QED BY <1>2, <1>3, <1>7, <2>1, <2>2, RestoreBegins
<1>8. CASE m.type = "scene_restore_end" /\ Closes("scene-restore", m) /\ EndSceneRestore(m)
  <2>1. /\ scene' = (IF m.status = "ok" THEN transaction.staging ELSE scene)
        /\ transaction' = None /\ activeRequest' = None
        /\ syncRequired' = syncRequired /\ runAction' = runAction
    BY <1>8 DEF EndSceneRestore
  <2> QED BY <1>2, <1>3, <1>8, <2>1, RestoreIsOver
<1>9. CASE /\ \/ m.type = "scene_capture_result" /\ Awaits("scene-capture", m.id)
              \/ m.type = "error" /\ activeRequest # None /\ m.id = activeRequest.id
           /\ FailActiveRequest(FALSE)
  BY <1>1, <1>2, <1>3, <1>9, GivenUp, FailsKeep
<1>10. CASE m.type \in Others /\ transaction # None /\ ApplyTransactionMessage(m)
  <2>1. CASE Allowed(transaction.staging, m)
    BY <1>2, <1>3, <1>10, <2>1, StagedKeeps, KeepsKeep
  <2>2. CASE ~Allowed(transaction.staging, m)
    BY <1>1, <1>2, <1>3, <1>10, <2>2, StagingRefused, FailsKeep
  <2> QED BY <2>1, <2>2
<1>11. CASE m.type \in Others /\ transaction = None /\ ~syncRequired /\ ApplyCommittedMessage(m)
  BY <1>2, <1>3, <1>11, CommittedKeeps, KeepsKeep
<1> QED BY <1>2, <1>4, <1>5, <1>6, <1>7, <1>8, <1>9, <1>10, <1>11 DEF Handled

\* A timer expires: nothing is read.
LEMMA TimeoutIs ==
  ASSUME TypeOK, TransactionTimeout
  PROVE  Reads(0) /\ TypeOK'
<1>1. UNCHANGED <<simVars, unsent>> /\ FailActiveRequest(TRUE)
  BY DEF TransactionTimeout
<1>2. Reads(0)
  <2>1. Len(toRen) \in Nat /\ toRen' = toRen
    BY <1>1 DEF TypeOK, SimTypeOK, simVars
  <2>2. Len(toRen) = Len(toRen') + 0 /\ \A k \in 1 .. Len(toRen') : k + 0 = k
    BY <2>1
  <2> QED BY <1>1, <2>1, <2>2 DEF Reads, simVars
<1>3. SimTypeOK'
  BY <1>1 DEF TypeOK, SimTypeOK, simVars, bindingState, modelState
<1>4. overtaken' \in BOOLEAN
  BY DEF TransactionTimeout, TypeOK
<1> QED BY <1>1, <1>2, <1>3, <1>4 DEF TypeOK, FailActiveRequest

LEMMA TimeoutKeepsInv ==
  ASSUME Inv, TransactionTimeout, ~overtaken'
  PROVE  Inv'
<1>1. Reads(0) /\ TypeOK'
  BY TimeoutIs DEF Inv, Control, Base
<1> QED BY <1>1, TimeoutFails, FailsKeep

LEMMA StutterKeepsInv ==
  ASSUME Inv, UNCHANGED vars
  PROVE  Inv'
<1>1. UNCHANGED <<simVars, renVars>> /\ TypeOK
  BY DEF vars, Inv, Control, Base
<1>2. toRen' = toRen /\ Said' = Said /\ Reads(0) /\ TypeOK'
  <2>1. toRen' = toRen /\ Len(toRen) \in Nat
    BY <1>1 DEF simVars, TypeOK, SimTypeOK
  <2>2. Len(toRen) = Len(toRen') + 0 /\ \A k \in 1 .. Len(toRen') : k + 0 = k
    BY <2>1
  <2>3. Reads(0)
    BY <1>1, <2>1, <2>2 DEF Reads, simVars, renVars
  <2>4. SimTypeOK'
    BY <1>1 DEF TypeOK, SimTypeOK, simVars, bindingState, modelState
  <2> QED BY <1>1, <2>1, <2>3, <2>4 DEF Said, TypeOK, renVars
<1>3. /\ handler' = handler /\ unsent' = unsent /\ toSim' = toSim /\ thrown' = thrown
      /\ \A e : /\ (Called(e)' <=> Called(e)) /\ (Running(e)' <=> Running(e))
                /\ (Open(e)' <=> Open(e)) /\ (Early(e)' <=> Early(e))
      /\ \A e, x : RidOf(e, x)' <=> RidOf(e, x)
      /\ \A T : Pushed(T)' <=> Pushed(T)
      /\ NoFailed' <=> NoFailed
  BY <1>2, ReadsKept
<1>4. /\ scene' = scene /\ transaction' = transaction /\ activeRequest' = activeRequest
      /\ (syncRequired' <=> syncRequired) /\ runAction' = runAction
      /\ \A kind, id : Asks(kind, id)' <=> Asks(kind, id)
      /\ \A kind : Asking(kind)' <=> Asking(kind)
      /\ Shown' = Shown
  BY <1>1, RenvarsKept
<1>5. /\ Guarded /\ Known /\ Patient /\ Alone /\ Begun /\ Answered /\ Tracks
  BY DEF Inv, Control
<1>6. Base' /\ Busy' /\ Ending' /\ Applied'
  BY <1>2, ReadsKeep
<1>7. Guarded' /\ Patient'
  BY <1>3, <1>4, <1>5 DEF Guarded, Patient
<1>8. Known'
  BY <1>2, <1>3, <1>4, <1>5 DEF Known
<1>9. Alone'
  <2>1. \A s \in Syncs : Accepted(s)' <=> Accepted(s)
    BY <1>2, <1>3, <1>4 DEF Accepted
  <2> QED BY <1>2, <1>3, <1>4, <1>5, <2>1 DEF Alone
<1>10. Begun' /\ Answered'
  BY <1>2, <1>3, <1>4, <1>5 DEF Begun, Answered
<1>11. Tracks'
  <2>1. \A S, n, T : Leads(S, n, T)' <=> Leads(S, n, T)
    BY <1>2 DEF Leads
  <2>2. Settled' <=> Settled
    BY <1>2, <1>3, <1>4 DEF Settled
  <2>3. \A T : Leads(Shown, 0, T)' <=> Leads(Shown, 0, T)
    BY <1>2, <1>4 DEF Leads
  <2> QED BY <1>2, <1>3, <1>4, <1>5, <2>1, <2>2, <2>3 DEF Tracks
<1> QED BY <1>6, <1>7, <1>8, <1>9, <1>10, <1>11 DEF Inv, Control

-----------------------------------------------------------------------------
(* What the committed scene is spared. It also receives messages while the *)
(* renderer waits for a sync: those said before the sync was accepted.     *)

\* The sync the renderer waits for was refused, has begun, or has said
\* nothing yet and has nobody beside it.
Heard ==
  \A s \in Syncs : Asks("state-sync", s) /\ ~Called(s) /\ transaction = None =>
    \/ \E k \in Said : ErrorOf(toRen[k], s) \/ BeginOf(toRen[k], s)
    \/ handler[s].pc \in {"initializing", "done"} /\ \A d \in Ops \ {s} : ~Open(d)

\* Each of the first n messages of q is allowed, from the items S on.
Fit(q, S, n) ==
  \E f \in [0 .. n -> SUBSET Items] :
    /\ f[0] = S
    /\ \A k \in 1 .. n :
         /\ f[k] = Changed(f[k - 1], q[k])
         /\ q[k].type = "item_create" => f[k - 1] \intersect q[k].items = {}

Beginning(k) == \E s \in Syncs : Asks("state-sync", s) /\ BeginOf(toRen[k], s)

\* What was said before the sync began is allowed in the committed scene;
\* it leads nowhere, as the baseline is that of the sync by now.
Behind ==
  NoFailed /\ transaction = None /\ ~syncRequired /\ ~Settled =>
    \E n \in 0 .. Len(toRen) :
      /\ Fit(toRen, scene.items, n)
      /\ \A k \in 1 .. n : ~Beginning(k)
      /\ \A k \in Said : k > n /\ toRen[k].type \in ItemWords =>
           \E l \in Said : n < l /\ l < k /\ Beginning(l)

Creates(k) == toRen[k].type = "param_create"

\* After its i-th message toRen defines the parameter before s ends.
Defines(i, s) ==
  /\ \A k \in Said : EndOf(toRen[k], s) => \E j \in Said : i < j /\ j < k /\ Creates(j)
  /\ handler[s].pc \in PushPcs => \E j \in Said : i < j /\ Creates(j)

\* A scene that is committed has the parameter.
Valued ==
  /\ ~syncRequired => scene.param # None
  /\ transaction # None /\ transaction.kind = "scene-restore" => transaction.staging.param # None
  /\ \A s \in Syncs : Asks("state-sync", s) =>
       /\ transaction # None /\ transaction.staging.param = None => Defines(0, s)
       /\ \A k \in Said : BeginOf(toRen[k], s) => Defines(k, s)

\* Only a sync defines the parameter, between its begin and its end.
Opened(k) ==
  \E s \in Syncs : /\ Asks("state-sync", s)
                   /\ transaction # None \/ \E l \in Said : l < k /\ BeginOf(toRen[l], s)

Bracketed ==
  \A k \in Said : Creates(k) =>
    /\ ~syncRequired => Opened(k)
    /\ \A s \in Syncs, l \in Said : Asks("state-sync", s) /\ EndOf(toRen[l], s) => k < l

Spared == Heard /\ Behind /\ Valued /\ Bracketed /\ (NoFailed => ~rejected)

-----------------------------------------------------------------------------
(* What the syncs say, and when.                                           *)

\* w has the words of a sync that come with where its handler goes.
Speech(w) ==
  /\ \A k \in 1 .. Len(w) : w[k].type = "param_create" =>
       /\ k = 1 /\ Len(w) = 1
       /\ \E s \in Syncs : handler[s].pc = "replaying" /\ handler'[s].pc = "pushing"
  /\ \A s \in Syncs :
       /\ handler'[s].pc \in PushPcs => \/ handler[s].pc \in PushPcs
                                        \/ Len(w) = 1 /\ w[1].type = "param_create"
       /\ handler[s].pc = "idle" /\ handler'[s].pc # "idle" =>
            \/ handler'[s].pc = "initializing" /\ Len(w) = 0
            \/ Len(w) = 1 /\ (BeginOf(w[1], s) \/ ErrorOf(w[1], s))
       /\ handler[s].pc = "initializing" => \/ handler'[s].pc \in {"initializing", "done"}
                                            \/ Len(w) = 1 /\ BeginOf(w[1], s)
       /\ handler[s].pc = "done" => handler'[s].pc = "done"
       /\ \A k \in 1 .. Len(w) : EndOf(w[k], s) => handler[s].pc \in PushPcs

Plain(w) == \A k \in 1 .. Len(w) : w[k].type # "param_create"

LEMMA Cancelled ==
  ASSUME NEW q \in Seq(Messages), NEW w \in Seq(Messages), NEW M, NEW v \in Seq(M), q \o w = q \o v
  PROVE  w = v
<1>1. /\ Len(q) \in Nat /\ Len(w) \in Nat /\ Len(v) \in Nat
      /\ Len(q \o w) = Len(q) + Len(w) /\ Len(q \o v) = Len(q) + Len(v)
  OBVIOUS
<1>2. Len(w) = Len(v)
  BY <1>1
<1>3. \A k \in 1 .. Len(w) : w[k] = v[k]
  <2> TAKE k \in 1 .. Len(w)
  <2>1. (q \o w)[Len(q) + k] = w[k] /\ (q \o v)[Len(q) + k] = v[k]
    BY <1>2
  <2> QED BY <2>1
<1>4. w \in Seq(Messages \union M) /\ v \in Seq(Messages \union M)
  <2>1. \A k \in 1 .. Len(w) : w[k] \in Messages \union M
    OBVIOUS
  <2>2. \A k \in 1 .. Len(v) : v[k] \in Messages \union M
    OBVIOUS
  <2> QED BY <2>1, <2>2
<1> QED BY ONLY <1>2, <1>3, <1>4, SeqEqual

\* A step that moves no sync but within its push, and defines no parameter.
LEMMA Elsewhere ==
  ASSUME Base, NEW d, NEW w, Step(d, w), Plain(w),
         \A s \in Syncs : \/ handler'[s].pc = handler[s].pc
                          \/ handler[s].pc \in PushPcs /\ handler'[s].pc \in PushPcs
  PROVE  Speech(w)
<1>1. \A s \in Syncs, k \in 1 .. Len(w) : EndOf(w[k], s) => FALSE
  <2> SUFFICES ASSUME NEW s \in Syncs, NEW k \in 1 .. Len(w), EndOf(w[k], s) PROVE FALSE
    OBVIOUS
  <2>1. s = d /\ Running(d) /\ handler'[d].pc = "done"
    BY DEF Step, Words, Word, EndOf, OfSync, SyncWords
  <2> QED BY <2>1 DEF Running, PushPcs
<1> QED BY <1>1 DEF Speech, Plain, PushPcs

\* What is said is at most two words, neither of which defines a parameter.
LEMMA SaysLittle ==
  ASSUME toRen \in Seq(Messages), NEW w \in Seq(Messages), toRen' = toRen \o w,
         \/ toRen' = toRen
         \/ \E m : toRen' = toRen \o <<m>> /\ m.type # "param_create"
         \/ \E m, n : toRen' = toRen \o <<m, n>> /\ m.type # "param_create" /\ n.type # "param_create"
  PROVE  Plain(w)
<1>1. CASE toRen' = toRen
  <2>1. toRen \o w = toRen \o <<>> /\ <<>> \in Seq({})
    BY <1>1
  <2>2. w = <<>>
    BY <2>1, Cancelled
  <2> QED BY <2>2 DEF Plain
<1>2. CASE \E m : toRen' = toRen \o <<m>> /\ m.type # "param_create"
  <2>1. PICK m : toRen' = toRen \o <<m>> /\ m.type # "param_create"
    BY <1>2
  <2>2. <<m>> \in Seq({m})
    OBVIOUS
  <2>3. w = <<m>>
    BY <2>1, <2>2, Cancelled
  <2> QED BY <2>1, <2>3 DEF Plain
<1>3. CASE \E m, n : toRen' = toRen \o <<m, n>> /\ m.type # "param_create" /\ n.type # "param_create"
  <2>1. PICK m, n : toRen' = toRen \o <<m, n>> /\ m.type # "param_create" /\ n.type # "param_create"
    BY <1>3
  <2>2. <<m, n>> \in Seq({m, n})
    OBVIOUS
  <2>3. w = <<m, n>>
    BY <2>1, <2>2, Cancelled
  <2> QED BY <2>1, <2>3 DEF Plain
<1> QED BY <1>1, <1>2, <1>3

LEMMA ItemsAsWords ==
  ASSUME NEW S, NEW type
  PROVE  AboutItems(type, S) = <<>> \/ \E m : AboutItems(type, S) = <<m>> /\ m.type = type
<1>1. [type |-> type, items |-> S].type = type
  OBVIOUS
<1> QED BY <1>1 DEF AboutItems

LEMMA Typed ==
  ASSUME Base
  PROVE  toRen \in Seq(Messages) /\ handler \in [Requests -> Handlers] /\ Placed /\ Syncs \subseteq Requests
BY Types DEF Base, Requests

LEMMA Joined ==
  ASSUME NEW m, NEW n
  PROVE  <<m>> \o <<n>> = <<m, n>> /\ <<>> \o <<m>> = <<m>> /\ <<m>> \o <<>> = <<m>> /\ <<>> \o <<>> = <<>>
<1>1. <<m>> \in Seq({m, n}) /\ <<n>> \in Seq({m, n}) /\ <<m, n>> \in Seq({m, n}) /\ <<>> \in Seq({m, n})
  OBVIOUS
<1>2. <<m>> \o <<n>> = <<m, n>>
  <2>1. /\ <<m>> \o <<n>> \in Seq({m, n}) /\ Len(<<m>> \o <<n>>) = 2
        /\ (<<m>> \o <<n>>)[1] = m /\ (<<m>> \o <<n>>)[2] = n
    BY <1>1
  <2>2. Len(<<m, n>>) = 2 /\ <<m, n>>[1] = m /\ <<m, n>>[2] = n
    OBVIOUS
  <2>3. \A k \in 1 .. 2 : k = 1 \/ k = 2
    OBVIOUS
  <2> QED BY <1>1, <2>1, <2>2, <2>3, SeqEqual
<1>3. <<>> \o <<m>> = <<m>> /\ <<m>> \o <<>> = <<m>> /\ <<>> \o <<>> = <<>>
  BY <1>1
<1> QED BY <1>2, <1>3

\* Words that are about items define no parameter.
LEMMA ItemsArePlain ==
  ASSUME toRen \in Seq(Messages), NEW w \in Seq(Messages), toRen' = toRen \o w, NEW S, NEW U,
         \/ toRen' = toRen \o ItemDelete(S)
         \/ toRen' = toRen \o (ItemDelete(S) \o ItemCreate(U))
         \/ \E m : toRen' = toRen \o (<<m>> \o ItemDelete(S)) /\ m.type # "param_create"
  PROVE  Plain(w)
<1>1. /\ ItemDelete(S) = <<>> \/ \E m : ItemDelete(S) = <<m>> /\ m.type = "item_delete"
      /\ ItemCreate(U) = <<>> \/ \E m : ItemCreate(U) = <<m>> /\ m.type = "item_create"
  BY ItemsAsWords DEF ItemDelete, ItemCreate
<1>2. toRen \o <<>> = toRen
  OBVIOUS
<1>3. \A m : m.type \in {"item_delete", "item_create"} => m.type # "param_create"
  OBVIOUS
<1>4. CASE toRen' = toRen \o ItemDelete(S)
  <2>1. CASE ItemDelete(S) = <<>>
    BY <1>2, <1>4, <2>1, SaysLittle
  <2>2. CASE \E m : ItemDelete(S) = <<m>> /\ m.type = "item_delete"
    BY <1>3, <1>4, <2>2, SaysLittle
  <2> QED BY <1>1, <2>1, <2>2
<1>5. CASE toRen' = toRen \o (ItemDelete(S) \o ItemCreate(U))
  <2>1. CASE ItemDelete(S) = <<>>
    <3>1. CASE ItemCreate(U) = <<>>
      <4>1. <<>> \o <<>> = <<>>
        BY Joined
      <4> QED BY <1>2, <1>5, <2>1, <3>1, <4>1, SaysLittle
    <3>2. CASE \E m : ItemCreate(U) = <<m>> /\ m.type = "item_create"
      <4>1. PICK m : ItemCreate(U) = <<m>> /\ m.type = "item_create"
        BY <3>2
      <4>2. <<>> \o <<m>> = <<m>>
        BY Joined
      <4> QED BY <1>3, <1>5, <2>1, <4>1, <4>2, SaysLittle
    <3> QED BY <1>1, <3>1, <3>2
  <2>2. CASE \E m : ItemDelete(S) = <<m>> /\ m.type = "item_delete"
    <3>1. PICK m : ItemDelete(S) = <<m>> /\ m.type = "item_delete"
      BY <2>2
    <3>2. CASE ItemCreate(U) = <<>>
      <4>1. <<m>> \o <<>> = <<m>>
        BY Joined
      <4> QED BY <1>3, <1>5, <3>1, <3>2, <4>1, SaysLittle
    <3>3. CASE \E n : ItemCreate(U) = <<n>> /\ n.type = "item_create"
      <4>1. PICK n : ItemCreate(U) = <<n>> /\ n.type = "item_create"
        BY <3>3
      <4>2. <<m>> \o <<n>> = <<m, n>>
        BY Joined
      <4> QED BY <1>3, <1>5, <3>1, <4>1, <4>2, SaysLittle
    <3> QED BY <1>1, <3>2, <3>3
  <2> QED BY <1>1, <2>1, <2>2
<1>6. CASE \E m : toRen' = toRen \o (<<m>> \o ItemDelete(S)) /\ m.type # "param_create"
  <2>1. PICK m : toRen' = toRen \o (<<m>> \o ItemDelete(S)) /\ m.type # "param_create"
    BY <1>6
  <2>2. CASE ItemDelete(S) = <<>>
    <3>1. <<m>> \o <<>> = <<m>>
      BY Joined
    <3> QED BY <2>1, <2>2, <3>1, SaysLittle
  <2>3. CASE \E n : ItemDelete(S) = <<n>> /\ n.type = "item_delete"
    <3>1. PICK n : ItemDelete(S) = <<n>> /\ n.type = "item_delete"
      BY <2>3
    <3>2. <<m>> \o <<n>> = <<m, n>>
      BY Joined
    <3> QED BY <1>3, <2>1, <3>1, <3>2, SaysLittle
  <2> QED BY <1>1, <2>2, <2>3
<1> QED BY <1>4, <1>5, <1>6

\* A push is of items, whoever pushes.
LEMMA PushesSpeak ==
  ASSUME Base, NEW d, NEW w, Step(d, w), NEW e \in Requests, PushItems(e) \/ SetBaseline(e)
  PROVE  Speech(w)
<1>1. /\ toRen \in Seq(Messages) /\ w \in Seq(Messages) /\ toRen' = toRen \o w
      /\ handler \in [Requests -> Handlers] /\ Syncs \subseteq Requests
  BY Typed DEF Step, Turn
<1>2. Plain(w)
  <2>1. CASE PushItems(e)
    BY <1>1, <2>1, ItemsArePlain DEF PushItems, Emit
  <2>2. CASE SetBaseline(e)
    BY <1>1, <2>2, SaysLittle DEF SetBaseline
  <2> QED BY <2>1, <2>2
<1>3. /\ \A s \in Syncs : s # e => handler'[s] = handler[s]
      /\ handler[e].pc \in PushPcs /\ handler'[e].pc \in PushPcs
  <2>1. \A s \in Syncs : s # e => handler'[s] = handler[s]
    BY <1>1 DEF PushItems, SetBaseline
  <2>2. handler[e].pc \in PushPcs
    BY DEF PushItems, SetBaseline, PushPcs
  <2>3. handler'[e].pc \in {"pushed", "pushedAll"}
    <3>1. handler[e] \in Handlers
      BY <1>1
    <3> QED BY <1>1, <3>1 DEF PushItems, SetBaseline, Handlers
  <2> QED BY <2>1, <2>2, <2>3 DEF PushPcs
<1> QED BY <1>2, <1>3, Elsewhere

\* Actions of the handlers of other requests.
LEMMA OthersSpeak ==
  ASSUME Base, NEW d, NEW w, Step(d, w), NEW e \in Requests,
         \/ ApplyParameter(e) \/ ParameterThrows(e) \/ RunHook(e) \/ FinishAction(e) \/ ActionThrows(e)
         \/ ValidateRestore(e) \/ SaveRollback(e) \/ SaveThrows(e) \/ ApplyRestore(e)
         \/ ReconcileRestore(e) \/ FinishRestore(e) \/ RestoreThrows(e) \/ RollBack(e)
         \/ AnswerCapture(e)
  PROVE  Speech(w)
<1>1. /\ toRen \in Seq(Messages) /\ w \in Seq(Messages) /\ toRen' = toRen \o w
      /\ handler \in [Requests -> Handlers] /\ Syncs \subseteq Requests /\ Placed
  BY Typed DEF Step, Turn
<1>2. e \notin Syncs
  <2>1. \/ e \in Actions \/ e \in Restores
        \/ handler[e].pc \in {"applying", "stepping", "resetting", "hooking", "validating", "saving",
                              "restoring", "reconciling", "rollingBack", "capturing"}
    BY DEF ApplyParameter, ParameterThrows, RunHook, FinishAction, ActionThrows, ValidateRestore,
           SaveRollback, SaveThrows, ApplyRestore, ReconcileRestore, FinishRestore, RestoreThrows,
           RollBack, AnswerCapture
  <2>2. e \in Actions \union Restores \union ParamChanges \union Captures
    BY <1>1, <2>1, KindOf
  <2> QED BY <2>2, OneKind
<1>3. \A s \in Syncs : handler'[s] = handler[s]
  BY <1>1, <1>2
  DEF ApplyParameter, ParameterThrows, RunHook, FinishAction, ActionThrows, ValidateRestore,
      SaveRollback, SaveThrows, ApplyRestore, ReconcileRestore, FinishRestore, RestoreThrows,
      RollBack, AnswerCapture, AnswerAction, EndRestore, RejectRestore, Suspend, Return
<1>4. /\ \A id, x, st : /\ Error(id).type # "param_create" /\ ActionResult(id).type # "param_create"
                        /\ RestoreBegin(x).type # "param_create" /\ RestoreEnd(x, st).type # "param_create"
      /\ \A v : /\ ParamMessage("param_sync", v).type # "param_create"
                /\ ParamMessage("param_update", v).type # "param_create"
      /\ \A id : Note("scene_capture_result", id).type # "param_create" /\ Note("error", id).type # "param_create"
  BY DEF Error, ActionResult, RestoreBegin, RestoreEnd, Note, ParamMessage
<1>5. toRen \o <<>> = toRen /\ \A m, n : <<m>> \o <<n>> = <<m, n>> /\ <<>> \o <<m>> = <<m>>
  BY <1>1, Joined
<1>6. Plain(w)
  <2>1. CASE ReconcileRestore(e)
    BY <1>1, <1>4, <2>1, ItemsArePlain DEF ReconcileRestore, Emit
  <2>2. CASE ApplyParameter(e) \/ ParameterThrows(e) \/ RunHook(e) \/ ApplyRestore(e) \/ AnswerCapture(e)
    <3>1. \/ toRen' = toRen
          \/ \E m : toRen' = toRen \o <<m>> /\ m.type # "param_create"
      BY <1>4, <1>5, <2>2
      DEF ApplyParameter, ParameterThrows, RunHook, ApplyRestore, AnswerCapture, Emit
    <3> QED BY <1>1, <3>1, SaysLittle
  <2>3. CASE FinishAction(e) \/ ActionThrows(e) \/ SaveRollback(e)
    <3>1. \E m : toRen' = toRen \o <<m>> /\ m.type # "param_create"
      BY <1>4, <2>3 DEF FinishAction, ActionThrows, AnswerAction, SaveRollback, Emit
    <3> QED BY <1>1, <3>1, SaysLittle
  <2>4. CASE ValidateRestore(e)
    <3>1. \/ toRen' = toRen
          \/ toRen' = toRen \o <<RestoreBegin(handler[e].rid)>>
          \/ toRen' = toRen \o <<RestoreBegin(handler[e].rid), RestoreEnd(handler[e].rid, "rejected")>>
      BY <2>4 DEF ValidateRestore, RejectRestore, Emit
    <3> QED BY <1>1, <1>4, <3>1, SaysLittle
  <2>5. CASE SaveThrows(e)
    <3>1. toRen' = toRen \o (<<RestoreBegin(handler[e].rid)>> \o <<RestoreEnd(handler[e].rid, "failed")>>)
      BY <2>5 DEF SaveThrows, EndRestore, Emit
    <3>2. toRen' = toRen \o <<RestoreBegin(handler[e].rid), RestoreEnd(handler[e].rid, "failed")>>
      BY <1>5, <3>1
    <3> QED BY <1>1, <1>4, <3>2, SaysLittle
  <2>6. CASE FinishRestore(e) \/ RestoreThrows(e) \/ RollBack(e)
    <3>1. \/ toRen' = toRen
          \/ \E st : toRen' = toRen \o (<<>> \o <<RestoreEnd(handler[e].rid, st)>>)
      BY <2>6 DEF FinishRestore, RestoreThrows, RollBack, EndRestore, Emit
    <3>2. toRen' = toRen \/ \E st : toRen' = toRen \o <<RestoreEnd(handler[e].rid, st)>>
      BY <1>5, <3>1
    <3> QED BY <1>1, <1>4, <3>2, SaysLittle
  <2> QED BY <2>1, <2>2, <2>3, <2>4, <2>5, <2>6
<1> QED BY <1>3, <1>6, Elsewhere

\* The handler of a sync at its own awaits.
LEMMA SyncSpeaks ==
  ASSUME Base, NEW d, NEW w, Step(d, w), NEW e \in Requests,
         Initialize(e) \/ ReplayDefinition(e) \/ FinishSync(e) \/ SyncThrows(e)
  PROVE  Speech(w)
<1>1. /\ toRen \in Seq(Messages) /\ w \in Seq(Messages) /\ toRen' = toRen \o w
      /\ handler \in [Requests -> Handlers] /\ Syncs \subseteq Requests /\ Placed
  BY Typed DEF Step, Turn
<1>2. \A m : toRen' = toRen \o <<m>> => w = <<m>>
  <2> SUFFICES ASSUME NEW m, toRen' = toRen \o <<m>> PROVE w = <<m>>
    OBVIOUS
  <2>1. <<m>> \in Seq({m})
    OBVIOUS
  <2> QED BY <1>1, <2>1, Cancelled
<1>3. \A s \in Syncs : s # e => handler'[s] = handler[s]
  BY <1>1 DEF Initialize, ReplayDefinition, FinishSync, SyncThrows, Suspend, Return
<1>4. \A m : Len(<<m>>) = 1 /\ <<m>>[1] = m
  OBVIOUS
<1>5. CASE Initialize(e)
  <2>1. w = <<Note("state_sync_begin", e)>> /\ handler[e].pc = "initializing"
    BY <1>2, <1>5 DEF Initialize, Emit
  <2>2. handler'[e].pc = "replaying"
    BY <1>1, <1>5, Suspended DEF Initialize, SyncPcs
  <2>3. Len(w) = 1 /\ w[1].type = "state_sync_begin" /\ w[1].id = e
    BY <1>4, <2>1 DEF Note
  <2> QED BY <1>3, <2>1, <2>2, <2>3 DEF Speech, BeginOf, EndOf, PushPcs
<1>6. CASE ReplayDefinition(e)
  <2>1. w = <<ParamMessage("param_create", param)>> /\ handler[e].pc = "replaying"
    BY <1>2, <1>6 DEF ReplayDefinition, Emit
  <2>2. Len(w) = 1 /\ w[1].type = "param_create"
    BY <1>4, <2>1 DEF ParamMessage
  <2>3. e \in Syncs /\ handler'[e].pc = "pushing"
    <3>1. e \in Syncs
      BY <1>1, <2>1, KindOf
    <3>2. handler'[e].pc = "pushing"
      BY <1>1, <1>6, Suspended DEF ReplayDefinition, SyncPcs, PushPcs
    <3> QED BY <3>1, <3>2
  <2> QED BY <1>3, <2>1, <2>2, <2>3 DEF Speech, EndOf
<1>7. CASE FinishSync(e)
  <2>1. w = <<Note("state_sync_end", e)>> /\ handler[e].pc = "pushedAll"
    BY <1>2, <1>7 DEF FinishSync, Emit
  <2>2. Len(w) = 1 /\ w[1].type = "state_sync_end" /\ w[1].id = e
    BY <1>4, <2>1 DEF Note
  <2>3. handler'[e].pc = "done"
    BY <1>1, <1>7, Returned DEF FinishSync
  <2> QED BY <1>3, <2>1, <2>2, <2>3 DEF Speech, EndOf, PushPcs
<1>8. CASE SyncThrows(e)
  <2>1. w = <<Error(None)>> /\ handler[e].pc \in {"initializing", "pushing", "pushedAll"}
    BY <1>2, <1>8 DEF SyncThrows, Emit
  <2>2. Len(w) = 1 /\ w[1].type = "error"
    BY <1>4, <2>1 DEF Error, Note
  <2>3. handler'[e].pc = "done"
    BY <1>1, <1>8, Returned DEF SyncThrows
  <2> QED BY <1>3, <2>1, <2>2, <2>3 DEF Speech, EndOf, PushPcs
<1> QED BY <1>5, <1>6, <1>7, <1>8

\* A message is dispatched.
LEMMA DispatchSpeaks ==
  ASSUME Base, NEW d, NEW w, Step(d, w), NEW e \in Requests, NEW m,
         \/ OnStateSync(e, m) \/ OnParamChange(e, m) \/ OnActionInvoke(e, m)
         \/ OnSceneRestore(e, m) \/ OnSceneCapture(e, m)
  PROVE  Speech(w)
<1>1. /\ toRen \in Seq(Messages) /\ w \in Seq(Messages) /\ toRen' = toRen \o w
      /\ handler \in [Requests -> Handlers] /\ Syncs \subseteq Requests /\ Placed
  BY Typed DEF Step, Turn
<1>2. handler[e].pc = "idle"
  <2>1. Dispatch(e, m)
    BY DEF OnStateSync, OnParamChange, OnActionInvoke, OnSceneRestore, OnSceneCapture
  <2> QED BY <2>1, Arrived
<1>3. /\ \A id : Error(id).type # "param_create" /\ ActionResult(id).type # "param_create"
      /\ \A x, st : RestoreBegin(x).type # "param_create" /\ RestoreEnd(x, st).type # "param_create"
  BY DEF Error, ActionResult, RestoreBegin, RestoreEnd, Note
<1>4. \A s \in Syncs : s # e => handler'[s] = handler[s]
  BY <1>1
  DEF OnStateSync, OnParamChange, OnActionInvoke, OnSceneRestore, OnSceneCapture, RejectRestore,
      Suspend, Return
<1>5. CASE OnStateSync(e, m)
  <2>1. CASE isBusy
    <3>1. toRen' = toRen \o <<Error(e)>> /\ Return(e)
      BY <1>5, <2>1 DEF OnStateSync, Emit
    <3>2. w = <<Error(e)>>
      <4>1. <<Error(e)>> \in Seq({Error(e)})
        OBVIOUS
      <4> QED BY <1>1, <3>1, <4>1, Cancelled
    <3>3. Len(w) = 1 /\ w[1].type = "error" /\ w[1].id = e
      BY <3>2 DEF Error, Note
    <3>4. handler'[e].pc = "done"
      BY <1>1, <3>1, Returned
    <3> QED BY <1>2, <1>4, <3>3, <3>4 DEF Speech, EndOf, ErrorOf, PushPcs
  <2>2. CASE ~isBusy /\ initialized
    <3>1. toRen' = toRen \o <<Note("state_sync_begin", e)>> /\ Suspend(e, "replaying")
      BY <1>5, <2>2 DEF OnStateSync, Emit
    <3>2. w = <<Note("state_sync_begin", e)>>
      <4>1. <<Note("state_sync_begin", e)>> \in Seq({Note("state_sync_begin", e)})
        OBVIOUS
      <4> QED BY <1>1, <3>1, <4>1, Cancelled
    <3>3. Len(w) = 1 /\ w[1].type = "state_sync_begin" /\ w[1].id = e
      BY <3>2 DEF Note
    <3>4. handler'[e].pc = "replaying"
      BY <1>1, <3>1, Suspended DEF SyncPcs
    <3> QED BY <1>2, <1>4, <3>3, <3>4 DEF Speech, EndOf, BeginOf, PushPcs
  <2>3. CASE ~isBusy /\ ~initialized
    <3>1. toRen' = toRen /\ Suspend(e, "initializing")
      BY <1>5, <2>3 DEF OnStateSync
    <3>2. w = <<>>
      <4>1. <<>> \in Seq({}) /\ toRen \o <<>> = toRen
        BY <1>1
      <4> QED BY <1>1, <3>1, <4>1, Cancelled
    <3>3. handler'[e].pc = "initializing"
      BY <1>1, <3>1, Suspended DEF SyncPcs
    <3> QED BY <1>2, <1>4, <3>2, <3>3 DEF Speech, PushPcs
  <2> QED BY <2>1, <2>2, <2>3
<1>6. CASE \/ OnParamChange(e, m) \/ OnActionInvoke(e, m)
           \/ OnSceneRestore(e, m) \/ OnSceneCapture(e, m)
  <2>1. e \notin Syncs
    BY <1>6, OneKind DEF OnParamChange, OnActionInvoke, OnSceneRestore, OnSceneCapture
  <2>2. Plain(w)
    <3>1. CASE OnParamChange(e, m) \/ OnSceneCapture(e, m)
      <4>1. toRen' = toRen \/ \E id : toRen' = toRen \o <<Error(id)>>
        BY <3>1 DEF OnParamChange, OnSceneCapture, Emit
      <4> QED BY <1>1, <1>3, <4>1, SaysLittle
    <3>2. CASE OnActionInvoke(e, m)
      <4>1. \/ toRen' = toRen
            \/ \E id : toRen' = toRen \o <<Error(id)>>
            \/ toRen' = toRen \o <<ActionResult(e)>>
            \/ toRen' = toRen \o ItemDelete(syncedItems)
        BY <3>2 DEF OnActionInvoke, Emit
      <4> QED BY <1>1, <1>3, <4>1, SaysLittle, ItemsArePlain
    <3>3. CASE OnSceneRestore(e, m)
      <4>1. \/ toRen' = toRen
            \/ \E x, st : toRen' = toRen \o <<RestoreBegin(x), RestoreEnd(x, st)>>
        BY <3>3 DEF OnSceneRestore, RejectRestore, Emit
      <4> QED BY <1>1, <1>3, <4>1, SaysLittle
    <3> QED BY <1>6, <3>1, <3>2, <3>3
  <2> QED BY <1>4, <2>1, <2>2, Elsewhere
<1> QED BY <1>5, <1>6

LEMMA Speaks ==
  ASSUME Base, NEW d, NEW w, Step(d, w), Dispatched \/ Resumed
  PROVE  Speech(w)
<1>1. CASE Dispatched
  <2> DEFINE c == Head(toSim)
  <2>1. PICK e \in Requests :
          OnStateSync(e, c) \/ OnParamChange(e, c) \/ OnActionInvoke(e, c)
            \/ OnSceneRestore(e, c) \/ OnSceneCapture(e, c)
    BY <1>1 DEF Dispatched, DispatchMessage
  <2> HIDE DEF c
  <2> QED BY <2>1, DispatchSpeaks
<1>2. CASE Resumed
  <2>1. PICK e \in Requests : Resume(e)
    BY <1>2 DEF Resumed
  <2> QED BY <2>1, PushesSpeak, OthersSpeak, SyncSpeaks DEF Resume
<1> QED BY <1>1, <1>2

LEMMA SameSync == \A s, t : Asks("state-sync", s) /\ Asks("state-sync", t) => s = t
<1> SUFFICES ASSUME NEW s, NEW t, Asks("state-sync", s), Asks("state-sync", t) PROVE s = t
  OBVIOUS
<1>1. activeRequest.id = s /\ activeRequest.id = t
  BY DEF Asks
<1> QED BY <1>1

-----------------------------------------------------------------------------
(* A step of the simulator spares the committed scene.                     *)

Steps(d, w) == Inv /\ Inv' /\ Step(d, w) /\ Speech(w)

LEMMA StepsFacts ==
  ASSUME NEW d, NEW w, Steps(d, w)
  PROVE  /\ Base /\ TypeOK' /\ Ending /\ Ending' /\ Known /\ Alone /\ Alone' /\ Queued
         /\ UNCHANGED renVars /\ d \in Requests /\ Open(d) /\ ~Called(d)'
         /\ (handler[d].pc = "idle" => Called(d)) /\ handler'[d].pc # "idle"
         /\ (Open(d)' <=> handler'[d].pc # "done")
         /\ \A e \in Requests : e # d => /\ handler'[e] = handler[e] /\ (Called(e)' <=> Called(e))
                                         /\ (Open(e)' <=> Open(e))
         /\ (NoFailed' => NoFailed)
<1>1. Control /\ Control' /\ Base /\ TypeOK' /\ Step(d, w) /\ Applied /\ Queued
  BY DEF Steps, Inv, Control, Base
<1>2. Ending /\ Ending' /\ Known /\ Alone /\ Alone'
  BY <1>1 DEF Control
<1>3. UNCHANGED renVars /\ handler'[d].pc # "idle"
  BY <1>1 DEF Step, Turn
<1>4. NoFailed' => NoFailed
  BY <1>1, FailedStays
<1>5. /\ d \in Requests /\ Open(d) /\ ~Called(d)'
      /\ (handler[d].pc = "idle" => Called(d)) /\ (Open(d)' <=> handler'[d].pc # "done")
      /\ \A e \in Requests : e # d => /\ handler'[e] = handler[e] /\ (Called(e)' <=> Called(e))
                                      /\ (Open(e)' <=> Open(e))
  BY <1>1, TurnFacts
<1> QED BY <1>1, <1>2, <1>3, <1>4, <1>5

LEMMA StepsSaid ==
  ASSUME NEW d, NEW w, Steps(d, w)
  PROVE  /\ Len(toRen) \in Nat /\ Len(w) \in Nat /\ Len(toRen') = Len(toRen) + Len(w)
         /\ \A k \in Said : k \in Said' /\ toRen'[k] = toRen[k] /\ k \in Nat /\ k >= 1 /\ k <= Len(toRen)
         /\ \A k \in Said' : /\ k \in Nat
                             /\ \/ k \in Said /\ toRen'[k] = toRen[k]
                                \/ k - Len(toRen) \in 1 .. Len(w) /\ toRen'[k] = w[k - Len(toRen)] /\ k > Len(toRen)
         /\ Len(w) = 1 => Len(toRen) + 1 \in Said' /\ toRen'[Len(toRen) + 1] = w[1]
         /\ \A k \in 1 .. Len(w), s \in Syncs :
              OfSync(w[k], s) => s = d /\ (BeginOf(w[k], s) => handler'[d].pc = "replaying")
<1>1. Base /\ Step(d, w) /\ TypeOK'
  BY DEF Steps, Inv, Control, Base
<1>2. /\ Len(toRen) \in Nat /\ Len(w) \in Nat /\ Len(toRen') = Len(toRen) + Len(w)
      /\ \A k \in Said : k \in Said' /\ toRen'[k] = toRen[k]
  BY <1>1, TurnSaid
<1>3. \A k \in Said' : /\ k \in Nat
                       /\ \/ k \in Said /\ toRen'[k] = toRen[k]
                          \/ k - Len(toRen) \in 1 .. Len(w) /\ toRen'[k] = w[k - Len(toRen)] /\ k > Len(toRen)
  BY <1>1, TurnSaid
<1>4. \A k \in Said : k \in Nat /\ k >= 1 /\ k <= Len(toRen)
  BY <1>2 DEF Said
<1>5. \A k \in 1 .. Len(w) : Len(toRen) + k \in Said' /\ toRen'[Len(toRen) + k] = w[k]
  BY <1>1, TurnSaid
<1>6. Len(w) = 1 => Len(toRen) + 1 \in Said' /\ toRen'[Len(toRen) + 1] = w[1]
  <2> SUFFICES ASSUME Len(w) = 1 PROVE Len(toRen) + 1 \in Said' /\ toRen'[Len(toRen) + 1] = w[1]
    OBVIOUS
  <2>1. 1 \in 1 .. Len(w)
    OBVIOUS
  <2> QED BY <1>5, <2>1
<1>7. \A k \in 1 .. Len(w), s \in Syncs :
        OfSync(w[k], s) => s = d /\ (BeginOf(w[k], s) => handler'[d].pc = "replaying")
  BY <1>1, WordFacts
<1> QED BY <1>2, <1>3, <1>4, <1>6, <1>7

LEMMA StepsSpeech ==
  ASSUME NEW d, NEW w, Steps(d, w)
  PROVE  /\ Pushes(d, w)
         /\ \A k \in 1 .. Len(w) : w[k].type = "param_create" =>
              /\ k = 1 /\ Len(w) = 1 /\ d \in Syncs
              /\ handler[d].pc = "replaying" /\ handler'[d].pc = "pushing"
         /\ \A s \in Syncs :
              /\ handler'[s].pc \in PushPcs => \/ handler[s].pc \in PushPcs
                                               \/ Len(w) = 1 /\ w[1].type = "param_create"
              /\ handler[s].pc = "idle" /\ handler'[s].pc # "idle" =>
                   \/ handler'[s].pc = "initializing" /\ Len(w) = 0
                   \/ Len(w) = 1 /\ (BeginOf(w[1], s) \/ ErrorOf(w[1], s))
              /\ handler[s].pc = "initializing" => \/ handler'[s].pc \in {"initializing", "done"}
                                                   \/ Len(w) = 1 /\ BeginOf(w[1], s)
              /\ handler[s].pc = "done" => handler'[s].pc = "done"
              /\ \A k \in 1 .. Len(w) : EndOf(w[k], s) => handler[s].pc \in PushPcs
<1>1. Speech(w) /\ Pushes(d, w)
  BY DEF Steps, Step
<1>2. ASSUME NEW k \in 1 .. Len(w), w[k].type = "param_create"
      PROVE  /\ k = 1 /\ Len(w) = 1 /\ d \in Syncs
             /\ handler[d].pc = "replaying" /\ handler'[d].pc = "pushing"
  <2>1. PICK s \in Syncs : handler[s].pc = "replaying" /\ handler'[s].pc = "pushing"
    BY <1>1, <1>2 DEF Speech
  <2>2. s = d
    BY <2>1, StepsFacts DEF Requests
  <2> QED BY <1>1, <1>2, <2>1, <2>2 DEF Speech
<1>3. \A s \in Syncs :
        /\ handler'[s].pc \in PushPcs => \/ handler[s].pc \in PushPcs
                                         \/ Len(w) = 1 /\ w[1].type = "param_create"
        /\ handler[s].pc = "idle" /\ handler'[s].pc # "idle" =>
             \/ handler'[s].pc = "initializing" /\ Len(w) = 0
             \/ Len(w) = 1 /\ (BeginOf(w[1], s) \/ ErrorOf(w[1], s))
        /\ handler[s].pc = "initializing" => \/ handler'[s].pc \in {"initializing", "done"}
                                             \/ Len(w) = 1 /\ BeginOf(w[1], s)
        /\ handler[s].pc = "done" => handler'[s].pc = "done"
        /\ \A k \in 1 .. Len(w) : EndOf(w[k], s) => handler[s].pc \in PushPcs
  BY <1>1, Zenon DEF Speech
<1> QED BY <1>1, <1>2, <1>3

LEMMA HeardSteps ==
  ASSUME NEW d, NEW w, Steps(d, w), Heard
  PROVE  Heard'
<1>0. UNCHANGED renVars /\ \A s \in Syncs : s \in Requests
  BY StepsFacts DEF Requests
<1>1. transaction' = transaction /\ \A s : Asks("state-sync", s)' <=> Asks("state-sync", s)
  BY <1>0, RenvarsKept
<1> SUFFICES ASSUME NEW s \in Syncs, Asks("state-sync", s), Asks("state-sync", s)', ~Called(s)', transaction = None
             PROVE  \/ \E k \in Said' : ErrorOf(toRen'[k], s) \/ BeginOf(toRen'[k], s)
                    \/ /\ handler'[s].pc \in {"initializing", "done"}
                       /\ \A e \in Ops \ {s} : ~Open(e)'
  BY <1>1 DEF Heard
<1>2. \A e \in Ops \ {s} : e \in Requests
  BY DEF Ops, Requests
<1>3. CASE Called(s)
  <2>1. s = d
    BY <1>0, <1>3, StepsFacts
  <2>2. handler[s].pc = "idle" /\ handler'[s].pc # "idle"
    <3>1. handler[s].pc = "idle"
      BY <1>3, StepsFacts DEF Called, Queued
    <3> QED BY <2>1, <3>1, StepsFacts
  <2>3. CASE handler'[s].pc = "initializing" /\ Len(w) = 0
    <3>1. Running(s)'
      BY <2>3 DEF Running
    <3> QED BY <2>3, <3>1, StepsFacts DEF Alone, Accepted
  <2>4. CASE Len(w) = 1 /\ (BeginOf(w[1], s) \/ ErrorOf(w[1], s))
    BY <2>4, StepsSaid
  <2> QED BY <2>2, <2>3, <2>4, StepsSpeech
<1>4. CASE ~Called(s)
  <2>1. CASE \E k \in Said : ErrorOf(toRen[k], s) \/ BeginOf(toRen[k], s)
    <3>1. PICK k \in Said : ErrorOf(toRen[k], s) \/ BeginOf(toRen[k], s)
      BY <2>1
    <3>2. k \in Said' /\ toRen'[k] = toRen[k]
      BY StepsSaid
    <3> QED BY <3>1, <3>2
  <2>2. CASE handler[s].pc \in {"initializing", "done"} /\ \A e \in Ops \ {s} : ~Open(e)
    <3>1. d \notin Ops \ {s}
      BY <2>2, StepsFacts
    <3>2. \A e \in Ops \ {s} : ~Open(e)'
      BY <1>2, <2>2, <3>1, StepsFacts
    <3>3. \/ handler'[s].pc \in {"initializing", "done"}
          \/ Len(w) = 1 /\ BeginOf(w[1], s)
      BY <2>2, StepsSpeech
    <3>4. Len(w) = 1 /\ BeginOf(w[1], s) => \E k \in Said' : BeginOf(toRen'[k], s)
      BY StepsSaid
    <3> QED BY <3>2, <3>3, <3>4
  <2> QED BY <1>4, <2>1, <2>2 DEF Heard
<1> QED BY <1>3, <1>4

\* Who defines the parameter is the sync the renderer waits for, and it has begun.
LEMMA BracketedSteps ==
  ASSUME NEW d, NEW w, Steps(d, w), Heard, Bracketed
  PROVE  Bracketed'
<1>0. UNCHANGED renVars /\ \A s \in Syncs : s \in Requests /\ s \in Ops
  BY StepsFacts DEF Requests, Ops
<1>1. /\ transaction' = transaction /\ (syncRequired' <=> syncRequired)
      /\ \A s : Asks("state-sync", s)' <=> Asks("state-sync", s)
  BY <1>0, RenvarsKept
<1> DEFINE q == toRen'
           D == Said'
<1>a. /\ \A k \in Said : k \in D /\ q[k] = toRen[k] /\ k \in Nat /\ k >= 1 /\ k <= Len(toRen)
      /\ \A k \in D : /\ k \in Nat
                      /\ \/ k \in Said /\ q[k] = toRen[k]
                         \/ k - Len(toRen) \in 1 .. Len(w) /\ q[k] = w[k - Len(toRen)] /\ k > Len(toRen)
      /\ Len(toRen) \in Nat
  BY StepsSaid
<1> SUFFICES ASSUME NEW k \in D, q[k].type = "param_create"
             PROVE  /\ ~syncRequired' => Opened(k)'
                    /\ \A s \in Syncs, l \in D : Asks("state-sync", s)' /\ EndOf(q[l], s) => k < l
  BY DEF Bracketed, Creates
<1>2. ASSUME NEW s \in Syncs, Asks("state-sync", s), transaction # None \/ \E l \in D : l < k /\ BeginOf(q[l], s)
      PROVE  Opened(k)'
  BY <1>1, <1>2 DEF Opened
<1> HIDE DEF q, D
<1> SUFFICES /\ ~syncRequired => Opened(k)'
             /\ \A s \in Syncs, l \in D : Asks("state-sync", s) /\ EndOf(q[l], s) => k < l
  BY <1>1
<1>3. CASE k \in Said /\ q[k] = toRen[k]
  <2>1. Creates(k)
    BY <1>3 DEF Creates
  <2>2. ASSUME ~syncRequired PROVE Opened(k)'
    <3>1. Opened(k)
      BY <1>3, <2>1, <2>2 DEF Bracketed
    <3>2. PICK s \in Syncs : Asks("state-sync", s) /\ (transaction # None \/ \E l \in Said : l < k /\ BeginOf(toRen[l], s))
      BY <3>1 DEF Opened
    <3> QED BY <1>a, <1>2, <3>2
  <2>3. ASSUME NEW s \in Syncs, NEW l \in D, Asks("state-sync", s), EndOf(q[l], s) PROVE k < l
    <3>1. CASE l \in Said /\ q[l] = toRen[l]
      BY <1>3, <2>1, <2>3, <3>1 DEF Bracketed
    <3>2. CASE l > Len(toRen)
      <4>1. k \in Nat /\ k <= Len(toRen) /\ Len(toRen) \in Nat /\ l \in Nat
        BY <1>3, <1>a
      <4> QED BY <3>2, <4>1
    <3> QED BY <3>1, <3>2, <1>a
  <2> QED BY <2>2, <2>3
<1>4. CASE k - Len(toRen) \in 1 .. Len(w) /\ q[k] = w[k - Len(toRen)] /\ k > Len(toRen)
  <2>1. /\ k - Len(toRen) = 1 /\ Len(w) = 1 /\ d \in Syncs
        /\ handler[d].pc = "replaying" /\ handler'[d].pc = "pushing"
    BY <1>4, StepsSpeech
  <2>2. d \in Ops /\ Open(d) /\ ~Called(d)
    <3>1. ~Called(d)
      BY <2>1, StepsFacts DEF Called, Queued
    <3> QED BY <1>0, <2>1, <3>1, StepsFacts
  <2>3. ASSUME ~syncRequired PROVE Opened(k)'
    <3>1. Asks("state-sync", d)
      BY <2>1, <2>2, <2>3, StepsFacts DEF Known
    <3>2. ASSUME transaction = None PROVE \E l \in D : l < k /\ BeginOf(q[l], d)
      <4>1. PICK l \in Said : ErrorOf(toRen[l], d) \/ BeginOf(toRen[l], d)
        BY <2>1, <2>2, <3>1, <3>2 DEF Heard
      <4>2. ~ErrorOf(toRen[l], d)
        BY <2>1, <2>2, StepsFacts DEF Ending, ErrorOf, BeginOf, OfSync, SyncWords
      <4>3. l \in D /\ q[l] = toRen[l] /\ l < k
        <5>1. l \in Nat /\ l <= Len(toRen) /\ l \in D /\ q[l] = toRen[l]
          BY <1>a
        <5>2. Len(toRen) \in Nat /\ k \in Nat /\ k > Len(toRen)
          BY <1>a, <1>4
        <5> QED BY <5>1, <5>2
      <4> QED BY <4>1, <4>2, <4>3
    <3> QED BY <1>2, <2>1, <3>1, <3>2
  <2>4. ASSUME NEW s \in Syncs, NEW l \in D, Asks("state-sync", s), EndOf(q[l], s) PROVE FALSE
    <3>1. CASE l \in Said /\ q[l] = toRen[l]
      <4>1. ~Open(s) /\ Accepted(s)
        BY <2>4, <3>1, StepsFacts DEF Ending, EndOf, BeginOf, OfSync, SyncWords, Accepted
      <4>2. d \in Ops \ {s}
        BY <2>2, <4>1
      <4> QED BY <2>2, <2>4, <4>1, <4>2, StepsFacts DEF Alone
    <3>2. CASE l - Len(toRen) \in 1 .. Len(w) /\ q[l] = w[l - Len(toRen)]
      <4>1. l - Len(toRen) = 1
        BY <2>1, <3>2
      <4>2. q[l] = q[k]
        BY <1>4, <2>1, <3>2, <4>1
      <4> QED BY <2>4, <4>2 DEF EndOf
    <3> QED BY <3>1, <3>2, <1>a
  <2> QED BY <2>1, <2>3, <2>4
<1> QED BY <1>3, <1>4, <1>a

LEMMA DefinesSteps ==
  ASSUME NEW d, NEW w, Steps(d, w), NEW s \in Syncs, NEW i \in Nat, i <= Len(toRen), Defines(i, s)
  PROVE  Defines(i, s)'
<1> DEFINE q == toRen'
           D == Said'
<1>1. /\ \A k \in Said : k \in D /\ q[k] = toRen[k] /\ k \in Nat /\ k <= Len(toRen)
      /\ \A k \in D : /\ k \in Nat
                      /\ \/ k \in Said /\ q[k] = toRen[k]
                         \/ k - Len(toRen) \in 1 .. Len(w) /\ q[k] = w[k - Len(toRen)] /\ k > Len(toRen)
      /\ Len(toRen) \in Nat
      /\ Len(w) = 1 => Len(toRen) + 1 \in D /\ q[Len(toRen) + 1] = w[1]
  BY StepsSaid
<1>2. \A j \in Said : Creates(j) => j \in D /\ q[j].type = "param_create"
  BY <1>1 DEF Creates
<1> SUFFICES /\ \A k \in D : EndOf(q[k], s) => \E j \in D : i < j /\ j < k /\ q[j].type = "param_create"
             /\ handler'[s].pc \in PushPcs => \E j \in D : i < j /\ q[j].type = "param_create"
  BY DEF Defines, Creates
<1> HIDE DEF q, D
<1>3. ASSUME NEW k \in D, EndOf(q[k], s)
      PROVE  \E j \in D : i < j /\ j < k /\ q[j].type = "param_create"
  <2>1. CASE k \in Said /\ q[k] = toRen[k]
    <3>1. PICK j \in Said : i < j /\ j < k /\ Creates(j)
      BY <1>3, <2>1 DEF Defines
    <3> QED BY <1>2, <3>1
  <2>2. CASE k - Len(toRen) \in 1 .. Len(w) /\ q[k] = w[k - Len(toRen)] /\ k > Len(toRen)
    <3>1. handler[s].pc \in PushPcs
      BY <1>3, <2>2, StepsSpeech
    <3>2. PICK j \in Said : i < j /\ Creates(j)
      BY <3>1 DEF Defines
    <3>3. j < k
      <4>1. j \in Nat /\ j <= Len(toRen) /\ Len(toRen) \in Nat /\ k \in Nat
        BY <1>1
      <4> QED BY <2>2, <4>1
    <3> QED BY <1>2, <3>2, <3>3
  <2> QED BY <1>1, <2>1, <2>2
<1>4. ASSUME handler'[s].pc \in PushPcs
      PROVE  \E j \in D : i < j /\ q[j].type = "param_create"
  <2>1. CASE handler[s].pc \in PushPcs
    <3>1. PICK j \in Said : i < j /\ Creates(j)
      BY <2>1 DEF Defines
    <3> QED BY <1>2, <3>1
  <2>2. CASE Len(w) = 1 /\ w[1].type = "param_create"
    <3>1. i < Len(toRen) + 1
      BY <1>1
    <3> QED BY <1>1, <2>2, <3>1
  <2> QED BY <1>4, <2>1, <2>2, StepsSpeech
<1> QED BY <1>3, <1>4

LEMMA ValuedSteps ==
  ASSUME NEW d, NEW w, Steps(d, w), Valued
  PROVE  Valued'
<1>0. UNCHANGED renVars /\ Ending'
  BY StepsFacts
<1>1. /\ transaction' = transaction /\ (syncRequired' <=> syncRequired) /\ scene' = scene
      /\ \A s : Asks("state-sync", s)' <=> Asks("state-sync", s)
  BY <1>0, RenvarsKept
<1>2. /\ ~syncRequired => scene.param # None
      /\ transaction # None /\ transaction.kind = "scene-restore" => transaction.staging.param # None
  BY DEF Valued
<1>3. ASSUME NEW s \in Syncs, Asks("state-sync", s)
      PROVE  /\ transaction # None /\ transaction.staging.param = None => Defines(0, s)'
             /\ \A k \in Said' : BeginOf(toRen'[k], s) => Defines(k, s)'
  <2>1. transaction # None /\ transaction.staging.param = None => Defines(0, s)
    BY <1>3 DEF Valued
  <2>2. ASSUME Defines(0, s) PROVE Defines(0, s)'
    <3>1. 0 \in Nat /\ 0 <= Len(toRen)
      BY StepsSaid
    <3> QED BY <2>2, <3>1, DefinesSteps
  <2>3. ASSUME NEW k \in Said', BeginOf(toRen'[k], s) PROVE Defines(k, s)'
    <3>1. CASE k \in Said /\ toRen'[k] = toRen[k]
      <4>1. Defines(k, s) /\ k \in Nat /\ k <= Len(toRen)
        BY <1>3, <2>3, <3>1, StepsSaid DEF Valued
      <4> QED BY <4>1, DefinesSteps
    <3>2. CASE k - Len(toRen) \in 1 .. Len(w) /\ toRen'[k] = w[k - Len(toRen)] /\ k > Len(toRen)
      <4>1. OfSync(w[k - Len(toRen)], s) /\ BeginOf(w[k - Len(toRen)], s)
        BY <2>3, <3>2 DEF OfSync, BeginOf, SyncWords
      <4>2. s = d /\ handler'[d].pc = "replaying"
        BY <3>2, <4>1, StepsSaid
      <4>3. \A l \in Said' : ~EndOf(toRen'[l], s)
        <5> SUFFICES ASSUME NEW l \in Said', EndOf(toRen'[l], s) PROVE FALSE
          OBVIOUS
        <5>1. ~Open(s)'
          BY <1>0 DEF Ending, EndOf, BeginOf, OfSync, SyncWords
        <5>2. Open(s)'
          BY <4>2, StepsFacts
        <5> QED BY <5>1, <5>2
      <4> QED BY <4>2, <4>3 DEF Defines, PushPcs
    <3> QED BY <3>1, <3>2, StepsSaid
  <2> QED BY <2>1, <2>2, <2>3
<1> QED BY <1>1, <1>2, <1>3 DEF Valued

LEMMA FitSteps ==
  ASSUME NEW d, NEW w, Steps(d, w), NEW S, NEW n \in 0 .. Len(toRen), Fit(toRen, S, n)
  PROVE  n \in 0 .. Len(toRen') /\ Fit(toRen', S, n)
<1>1. /\ Len(toRen) \in Nat /\ Len(w) \in Nat /\ Len(toRen') = Len(toRen) + Len(w)
      /\ \A k \in Said : toRen'[k] = toRen[k]
  BY StepsSaid
<1>2. \A k \in 1 .. n : toRen'[k] = toRen[k]
  BY <1>1 DEF Said
<1>3. n \in 0 .. Len(toRen')
  BY <1>1
<1>4. PICK f \in [0 .. n -> SUBSET Items] :
        /\ f[0] = S
        /\ \A k \in 1 .. n :
             /\ f[k] = Changed(f[k - 1], toRen[k])
             /\ toRen[k].type = "item_create" => f[k - 1] \intersect toRen[k].items = {}
  BY DEF Fit
<1>5. \A k \in 1 .. n :
        /\ f[k] = Changed(f[k - 1], toRen'[k])
        /\ toRen'[k].type = "item_create" => f[k - 1] \intersect toRen'[k].items = {}
  BY <1>2, <1>4
<1> QED BY <1>3, <1>4, <1>5 DEF Fit

\* Nobody but the sync that has not begun could push before it does.
LEMMA BehindSteps ==
  ASSUME NEW d, NEW w, Steps(d, w), Heard, Behind
  PROVE  Behind'
<1>0. UNCHANGED renVars /\ (NoFailed' => NoFailed) /\ \A s \in Syncs : s \in Requests
  BY StepsFacts DEF Requests
<1>1. /\ transaction' = transaction /\ (syncRequired' <=> syncRequired) /\ scene' = scene /\ Shown' = Shown
      /\ \A s : Asks("state-sync", s)' <=> Asks("state-sync", s)
  BY <1>0, RenvarsKept
<1> SUFFICES ASSUME NoFailed, transaction = None, ~syncRequired, ~Settled'
             PROVE  \E n \in 0 .. Len(toRen') :
                      /\ Fit(toRen', scene.items, n)
                      /\ \A k \in 1 .. n : ~Beginning(k)'
                      /\ \A k \in Said' : k > n /\ toRen'[k].type \in ItemWords =>
                           \E l \in Said' : n < l /\ l < k /\ Beginning(l)'
  BY <1>0, <1>1 DEF Behind
<1>2. PICK s \in Syncs : /\ Asks("state-sync", s) /\ ~Called(s)'
                         /\ \A k \in Said' : ~ErrorOf(toRen'[k], s)
  BY <1>1 DEF Settled
<1>3. \A k \in Said : /\ k \in Said' /\ toRen'[k] = toRen[k] /\ k \in Nat /\ k >= 1 /\ k <= Len(toRen)
                      /\ (Beginning(k)' <=> Beginning(k))
  <2>1. \A k \in Said : k \in Said' /\ toRen'[k] = toRen[k] /\ k \in Nat /\ k >= 1 /\ k <= Len(toRen)
    BY StepsSaid
  <2> QED BY <1>1, <2>1 DEF Beginning
<1>4. \A k \in Said' : \/ k \in Said /\ toRen'[k] = toRen[k]
                       \/ k - Len(toRen) \in 1 .. Len(w) /\ toRen'[k] = w[k - Len(toRen)] /\ k > Len(toRen)
  BY StepsSaid
<1>5. \A k \in Said : ~ErrorOf(toRen[k], s)
  BY <1>2, <1>3
<1>6. Len(toRen) \in Nat
  BY StepsSaid
<1>7. CASE Called(s)
  <2>1. s = d /\ handler[s].pc = "idle"
    BY <1>0, <1>2, <1>7, StepsFacts DEF Called, Queued
  <2>2. Settled
    BY <1>1, <1>2, <1>7, SameSync DEF Settled
  <2>3. PICK T \in SUBSET Items : Leads(scene.items, 0, T)
    BY <2>2 DEF Steps, Inv, Tracks, Shown
  <2> DEFINE n == Len(toRen)
  <2>4. n \in 0 .. Len(toRen) /\ Fit(toRen, scene.items, n)
    BY <1>6, <2>3 DEF Leads, Fit
  <2>5. \A k \in 1 .. n : k \in Said
    BY DEF Said
  <2>6. \A k \in Said : ~Beginning(k)
    BY <1>2, <1>7, StepsFacts, SameSync DEF Beginning, Ending, OfSync, BeginOf, SyncWords
  <2>7. \A k \in 1 .. Len(w) : w[k].type \notin ItemWords
    <3>1. \/ Len(w) = 0
          \/ Len(w) = 1 /\ (BeginOf(w[1], s) \/ ErrorOf(w[1], s))
      BY <2>1, StepsFacts, StepsSpeech
    <3> QED BY <3>1 DEF BeginOf, ErrorOf, ItemWords
  <2>8. ASSUME NEW k \in Said', k > n, toRen'[k].type \in ItemWords PROVE FALSE
    BY <1>3, <1>4, <1>6, <2>7, <2>8
  <2> HIDE DEF n
  <2>9. n \in 0 .. Len(toRen') /\ Fit(toRen', scene.items, n)
    BY <2>4, FitSteps
  <2> QED BY <1>3, <2>5, <2>6, <2>8, <2>9
<1>8. CASE ~Called(s)
  <2>1. ~Settled
    BY <1>2, <1>5, <1>8 DEF Settled
  <2>2. PICK n \in 0 .. Len(toRen) :
          /\ Fit(toRen, scene.items, n)
          /\ \A k \in 1 .. n : ~Beginning(k)
          /\ \A k \in Said : k > n /\ toRen[k].type \in ItemWords =>
               \E l \in Said : n < l /\ l < k /\ Beginning(l)
    BY <2>1 DEF Behind
  <2>3. n \in 0 .. Len(toRen') /\ Fit(toRen', scene.items, n)
    BY <2>2, FitSteps
  <2>4. \A k \in 1 .. n : ~Beginning(k)'
    <3>1. \A k \in 1 .. n : k \in Said
      BY <1>6 DEF Said
    <3> QED BY <1>3, <2>2, <3>1
  <2>5. ASSUME NEW k \in Said', k > n, toRen'[k].type \in ItemWords
        PROVE  \E l \in Said' : n < l /\ l < k /\ Beginning(l)'
    <3>1. CASE k \in Said /\ toRen'[k] = toRen[k]
      <4>1. PICK l \in Said : n < l /\ l < k /\ Beginning(l)
        BY <2>2, <2>5, <3>1
      <4> QED BY <1>3, <4>1
    <3>2. CASE k - Len(toRen) \in 1 .. Len(w) /\ toRen'[k] = w[k - Len(toRen)] /\ k > Len(toRen)
      <4>1. CASE \E l \in Said : BeginOf(toRen[l], s)
        <5>1. PICK l \in Said : BeginOf(toRen[l], s)
          BY <4>1
        <5>2. Beginning(l)
          BY <1>2, <5>1 DEF Beginning
        <5>3. l > n
          <6>1. l \in 1 .. n \/ l > n
            BY <1>3
          <6> QED BY <2>2, <5>2, <6>1
        <5>4. l < k
          <6>1. l \in Nat /\ l <= Len(toRen)
            BY <1>3
          <6>2. k \in Nat
            BY StepsSaid
          <6> QED BY <1>6, <3>2, <6>1, <6>2
        <5> QED BY <1>3, <5>2, <5>3, <5>4
      <4>2. CASE ~\E l \in Said : BeginOf(toRen[l], s)
        <5>1. handler[s].pc \in {"initializing", "done"} /\ \A e \in Ops \ {s} : ~Open(e)
          BY <1>2, <1>5, <1>8, <4>2 DEF Heard
        <5>2. d \in Ops
          <6>1. CASE d \in Ops
            BY <6>1
          <6>2. CASE NoItems(w) \/ w = <<>>
            <7>1. w[k - Len(toRen)].type \notin ItemWords
              BY <3>2, <6>2 DEF NoItems
            <7> QED BY <2>5, <3>2, <7>1
          <6> QED BY <6>1, <6>2, StepsSpeech DEF Pushes
        <5>3. d = s
          BY <5>1, <5>2, StepsFacts
        <5>4. handler[d].pc = "initializing"
          <6>1. handler[d].pc # "done"
            BY <1>8, <5>3, StepsFacts DEF Open, Running
          <6> QED BY <5>1, <5>3, <6>1
        <5>5. Len(w) = 1 /\ BeginOf(w[1], s) => FALSE
          <6> SUFFICES ASSUME Len(w) = 1, BeginOf(w[1], s) PROVE FALSE
            OBVIOUS
          <6>1. k - Len(toRen) = 1
            BY <3>2
          <6> QED BY <2>5, <3>2, <6>1 DEF BeginOf, ItemWords
        <5>6. handler'[d].pc \in {"initializing", "done"}
          BY <5>3, <5>4, <5>5, StepsSpeech
        <5>7. handler'[d].pc = "done"
          BY <5>4, <5>6 DEF Steps, Step, Path
        <5>8. ~NoItems(w)
          BY <2>5, <3>2 DEF NoItems
        <5>9. ~Engaged(d)'
          BY <5>7 DEF Engaged, Running
        <5> QED BY <5>4, <5>7, <5>8, <5>9, StepsSpeech DEF Pushes
      <4> QED BY <4>1, <4>2
    <3> QED BY <1>4, <3>1, <3>2
  <2> QED BY <2>3, <2>4, <2>5
<1> QED BY <1>7, <1>8

LEMMA SparedSteps ==
  ASSUME Inv, Inv', Spared, Dispatched \/ Resumed
  PROVE  Spared'
<1>1. Control /\ Base
  BY DEF Inv, Control
<1>2. PICK d, w : Step(d, w)
  BY <1>1, SimulatorSteps
<1>3. Steps(d, w)
  BY <1>1, <1>2, Speaks DEF Steps
<1>4. UNCHANGED renVars /\ (NoFailed' => NoFailed)
  BY <1>3, StepsFacts
<1>5. NoFailed' => ~rejected'
  BY <1>4 DEF Spared, renVars
<1> QED BY <1>3, <1>5, HeardSteps, BehindSteps, ValuedSteps, BracketedSteps DEF Spared

-----------------------------------------------------------------------------
(* The renderer's steps.                                                   *)

\* The renderer waits for no sync.
LEMMA AsksNone ==
  ASSUME \A s \in Syncs : ~Asks("state-sync", s)'
  PROVE  Heard' /\ Settled' /\ Behind'
<1>1. Heard'
  BY DEF Heard
<1>2. Settled'
  BY DEF Settled
<1> QED BY <1>1, <1>2 DEF Behind

LEMMA SendsSpare ==
  ASSUME Inv, Inv', Spared, SendSomething
  PROVE  Spared'
<1>1. Guarded /\ Ending' /\ TypeOK
  BY DEF Inv, Control, Base
<1>2. PICK d \in unsent : RequestStateSync(d) \/ IssueSceneRestore(d) \/ IssueSceneCapture(d)
                            \/ SetParameter(d) \/ InvokeAction(d)
  BY DEF SendSomething
<1>3. /\ activeRequest = None /\ transaction = None /\ transaction' = None
      /\ toRen' = toRen /\ handler' = handler /\ restoreResults' = restoreResults
      /\ (syncRequired' <=> syncRequired) /\ rejected' = rejected
  <2>1. Free /\ \E m : Send(d, m)
    <3>1. CASE RequestStateSync(d)
      BY <3>1 DEF RequestStateSync
    <3>2. CASE IssueSceneRestore(d)
      BY <3>2 DEF IssueSceneRestore
    <3>3. CASE IssueSceneCapture(d)
      BY <3>3 DEF IssueSceneCapture
    <3>4. CASE SetParameter(d)
      BY <3>4 DEF SetParameter
    <3>5. CASE InvokeAction(d)
      BY <3>5 DEF InvokeAction
    <3> QED BY <1>2, <3>1, <3>2, <3>3, <3>4, <3>5
  <2>2. transaction' = transaction /\ (syncRequired' <=> syncRequired) /\ rejected' = rejected
    BY <1>2 DEF RequestStateSync, IssueSceneRestore, IssueSceneCapture, SetParameter, InvokeAction
  <2> QED BY <2>1, <2>2 DEF Free, Send, bindingState
<1>4. scene' = scene \/ \E v \in Values : scene' = [scene EXCEPT !.param = v]
  BY <1>2 DEF RequestStateSync, IssueSceneRestore, IssueSceneCapture, SetParameter, InvokeAction
<1>5. ASSUME NEW s \in Syncs, Asks("state-sync", s)' PROVE Called(s)'
  <2>1. CASE RequestStateSync(d)
    <3>1. toSim \in Seq(Calls) /\ d \in Syncs
      BY <1>1, <2>1 DEF TypeOK, SimTypeOK, RequestStateSync
    <3>2. toSim' = Append(toSim, [at |-> d]) /\ activeRequest' = [kind |-> "state-sync", id |-> d]
      BY <2>1 DEF RequestStateSync, Send
    <3>3. s = d
      <4>1. activeRequest'.id = s /\ activeRequest'.id = d
        BY <1>5, <3>2 DEF Asks
      <4> QED BY <4>1
    <3>4. [at |-> d] \in Calls
      BY <3>1 DEF Calls
    <3>5. Len(toSim) + 1 \in 1 .. Len(toSim') /\ toSim'[Len(toSim) + 1] = [at |-> d]
      BY <3>1, <3>2, <3>4
    <3>6. [at |-> d].at = d
      OBVIOUS
    <3> QED BY <3>3, <3>5, <3>6 DEF Called
  <2>2. CASE IssueSceneRestore(d) \/ IssueSceneCapture(d) \/ SetParameter(d) \/ InvokeAction(d)
    <3>1. \/ activeRequest' = None
          \/ \E x : activeRequest' = [kind |-> "scene-restore", id |-> x]
          \/ activeRequest' = [kind |-> "scene-capture", id |-> d]
      BY <1>3, <2>2 DEF IssueSceneRestore, IssueSceneCapture, SetParameter, InvokeAction
    <3>2. activeRequest' = [kind |-> "state-sync", id |-> s]
      BY <1>5 DEF Asks
    <3>3. s \in Syncs /\ [kind |-> "state-sync", id |-> s] # None
      BY NoneAssumption DEF Controls
    <3>4. activeRequest'.kind = "state-sync"
      BY <3>2
    <3> QED BY <3>1, <3>2, <3>3, <3>4
  <2> QED BY <1>2, <2>1, <2>2
<1>6. \A s \in Syncs : ~Asks("state-sync", s)
  BY <1>3, NoneAssumption DEF Asks, Controls
<1>7. \A s \in Syncs, k \in Said : Asks("state-sync", s)' =>
        ~BeginOf(toRen'[k], s) /\ ~EndOf(toRen'[k], s)
  <2>1. Said' = Said
    BY <1>3 DEF Said
  <2> QED BY <1>1, <1>5, <2>1 DEF Ending, OfSync, BeginOf, EndOf, SyncWords
<1>8. Heard'
  BY <1>5 DEF Heard
<1>9. Behind'
  BY <1>5 DEF Behind, Settled
<1>10. Said' = Said /\ \A k : Creates(k)' <=> Creates(k)
  BY <1>3 DEF Said, Creates
<1>11. Valued'
  <2>1. ~syncRequired => scene.param # None
    BY DEF Spared, Valued
  <2>2. scene'.param = scene.param \/ scene'.param \in Values
    BY <1>1, <1>4 DEF TypeOK, Scenes
  <2>3. ~syncRequired' => scene'.param # None
    BY <1>3, <2>1, <2>2, OneKind
  <2> QED BY <1>3, <1>7, <1>10, <2>3 DEF Valued
<1>12. Bracketed'
  <2>1. \A k \in Said : Creates(k) => syncRequired
    BY <1>6 DEF Spared, Bracketed, Opened
  <2> QED BY <1>3, <1>7, <1>10, <2>1 DEF Bracketed
<1>13. NoFailed' => ~rejected'
  BY <1>3 DEF Spared, NoFailed
<1> QED BY <1>8, <1>9, <1>11, <1>12, <1>13 DEF Spared

LEMMA InitSpares ==
  ASSUME Init
  PROVE  Spared
<1>1. toRen = <<>> /\ activeRequest = None /\ transaction = None /\ syncRequired /\ ~rejected
  BY DEF Init, SimInit
<1>2. \A s \in Syncs : ~Asks("state-sync", s)
  BY <1>1, NoneAssumption DEF Asks, Controls
<1>3. \A k \in Said : FALSE
  BY <1>1 DEF Said
<1>4. Heard /\ Behind
  BY <1>1, <1>2 DEF Heard, Behind
<1>5. Valued /\ Bracketed
  BY <1>1, <1>2, <1>3 DEF Valued, Bracketed
<1> QED BY <1>1, <1>4, <1>5 DEF Spared

\* What is given up leaves no definition behind.
LEMMA FailsSpare ==
  ASSUME Inv, TypeOK', Spared, NEW j \in {0, 1}, Reads(j), Fails(j), rejected' = rejected
  PROVE  Spared'
<1>1. Ending /\ TypeOK
  BY DEF Inv, Control, Base
<1>2. /\ activeRequest' = None /\ transaction' = None /\ scene' = scene
      /\ (~syncRequired' => ~syncRequired)
  BY DEF Fails
<1>3. \A s \in Syncs : ~Asks("state-sync", s)'
  BY <1>2, NoneAssumption DEF Asks, Controls
<1>4. \A k \in Said' : k + j \in Said /\ toRen'[k] = toRen[k + j]
  BY <1>1, ReadsSaid
<1>5. ASSUME ~syncRequired', NEW k \in Said', Creates(k)' PROVE FALSE
  <2>1. Creates(k + j) /\ k + j \in Said
    BY <1>4, <1>5 DEF Creates
  <2>2. Opened(k + j)
    BY <1>2, <1>5, <2>1 DEF Spared, Bracketed
  <2>3. PICK s \in Syncs : /\ Asks("state-sync", s)
                           /\ transaction # None \/ \E l \in Said : l < k + j /\ BeginOf(toRen[l], s)
    BY <2>2 DEF Opened
  <2>4. transaction = None /\ ~Asking("scene-capture")
    <3>1. activeRequest.kind = "state-sync"
      BY <2>3 DEF Asks
    <3> QED BY <1>5, <3>1 DEF Fails, Asking
  <2>5. PICK t \in Syncs : Asks("state-sync", t) /\ j = 1 /\ ErrorOf(toRen[1], t)
    BY <1>5, <2>4 DEF Fails
  <2>6. t = s
    BY <2>3, <2>5, SameSync
  <2>7. PICK l \in Said : BeginOf(toRen[l], s)
    BY <2>3, <2>4
  <2>8. 1 \in Said
    BY <1>1, <2>5, ReadsSaid
  <2>9. l = 1
    BY <1>1, <2>5, <2>6, <2>7, <2>8 DEF Ending, OfSync, ErrorOf, BeginOf, SyncWords
  <2> QED BY <2>5, <2>7, <2>9 DEF ErrorOf, BeginOf
<1>6. Heard' /\ Behind'
  BY <1>3, AsksNone
<1>7. Valued'
  BY <1>2, <1>3 DEF Spared, Valued
<1>8. Bracketed'
  BY <1>3, <1>5 DEF Bracketed
<1>9. NoFailed' => ~rejected'
  BY ReadsKept DEF Spared
<1> QED BY <1>6, <1>7, <1>8, <1>9 DEF Spared

\* What remains when one message has been read.
LEMMA ReadsOne ==
  ASSUME Inv, TypeOK', Reads(1)
  PROVE  /\ \A k \in Said' : k \in Nat /\ k >= 1 /\ k + 1 \in Said /\ toRen'[k] = toRen[k + 1]
                             /\ (Creates(k)' <=> Creates(k + 1))
         /\ \A k \in Said : k \in Nat /\ k >= 1 /\ (k # 1 => k - 1 \in Said' /\ toRen'[k - 1] = toRen[k]
                                                             /\ (k - 1) + 1 = k /\ (Creates(k - 1)' <=> Creates(k)))
         /\ handler' = handler /\ (\A e : (Called(e)' <=> Called(e)) /\ (Open(e)' <=> Open(e)))
         /\ (NoFailed' <=> NoFailed)
         /\ Ending /\ Guarded /\ Tracks /\ TypeOK
         /\ \A s \in Syncs : ~Asks("state-sync", s) \/ activeRequest # None
<1>1. Ending /\ Guarded /\ Tracks /\ TypeOK
  BY DEF Inv, Control, Base
<1>2. \A k \in Said' : k \in Nat /\ k >= 1 /\ k + 1 \in Said /\ toRen'[k] = toRen[k + 1]
  BY <1>1, ReadsSaid
<1>3. \A k \in Said : k \in Nat /\ k >= 1 /\ (k # 1 => k - 1 \in Said' /\ toRen'[k - 1] = toRen[k] /\ (k - 1) + 1 = k)
  <2>1. \A k \in Said : k \in Nat /\ k >= 1
    BY DEF Said
  <2> QED BY <1>1, <2>1, ReadsSaid
<1>4. handler' = handler /\ (\A e : (Called(e)' <=> Called(e)) /\ (Open(e)' <=> Open(e))) /\ (NoFailed' <=> NoFailed)
  BY ReadsKept
<1>5. \A s \in Syncs : ~Asks("state-sync", s) \/ activeRequest # None
  BY NoneAssumption DEF Asks, Controls
<1>6. \A k \in Said' : Creates(k)' <=> Creates(k + 1)
  BY <1>2 DEF Creates
<1>7. \A k \in Said : k # 1 => (Creates(k - 1)' <=> Creates(k))
  BY <1>3 DEF Creates
<1> QED BY <1>1, <1>2, <1>3, <1>4, <1>5, <1>6, <1>7

LEMMA DefinesReads ==
  ASSUME Inv, TypeOK', Reads(1), NEW s, NEW i \in Nat, Defines(i + 1, s)
  PROVE  Defines(i, s)'
<1> SUFFICES /\ \A k \in Said' : EndOf(toRen'[k], s) => \E j \in Said' : i < j /\ j < k /\ Creates(j)'
             /\ handler'[s].pc \in PushPcs => \E j \in Said' : i < j /\ Creates(j)'
  BY DEF Defines
<1>1. ASSUME NEW j \in Said, i + 1 < j, Creates(j)
      PROVE  j - 1 \in Said' /\ i < j - 1 /\ Creates(j - 1)' /\ j \in Nat
  <2>1. j # 1 /\ j \in Nat
    <3>1. j \in Nat
      BY ReadsOne
    <3> QED BY <1>1, <3>1
  <2> QED BY <1>1, <2>1, ReadsOne
<1>2. ASSUME NEW k \in Said', EndOf(toRen'[k], s)
      PROVE  \E j \in Said' : i < j /\ j < k /\ Creates(j)'
  <2>1. k + 1 \in Said /\ EndOf(toRen[k + 1], s) /\ k \in Nat
    BY <1>2, ReadsOne
  <2>2. PICK j \in Said : i + 1 < j /\ j < k + 1 /\ Creates(j)
    BY <2>1 DEF Defines
  <2>3. j - 1 < k
    BY <1>1, <2>1, <2>2
  <2> QED BY <1>1, <2>2, <2>3
<1>3. ASSUME handler'[s].pc \in PushPcs
      PROVE  \E j \in Said' : i < j /\ Creates(j)'
  <2>1. PICK j \in Said : i + 1 < j /\ Creates(j)
    BY <1>3, ReadsOne DEF Defines
  <2> QED BY <1>1, <2>1
<1> QED BY <1>2, <1>3

\* A message that is no definition does not use one up.
LEMMA DefinesOn ==
  ASSUME Inv, TypeOK', Reads(1), NEW s, ~Creates(1), Defines(0, s)
  PROVE  Defines(0, s)'
<1>1. \A j \in Said : 0 < j /\ Creates(j) => 0 + 1 < j
  <2> SUFFICES ASSUME NEW j \in Said, Creates(j) PROVE 1 < j
    OBVIOUS
  <2>1. j \in Nat /\ j >= 1 /\ j # 1
    BY ReadsOne
  <2> QED BY <2>1
<1>2. Defines(0 + 1, s)
  BY <1>1 DEF Defines
<1> QED BY <1>2, DefinesReads

\* The syncs that have still to begin.
LEMMA BegunReads ==
  ASSUME Inv, TypeOK', Reads(1), Valued, NEW s \in Syncs, Asks("state-sync", s),
         NEW k \in Said', BeginOf(toRen'[k], s)
  PROVE  Defines(k, s)'
<1>1. k + 1 \in Said /\ k \in Nat /\ BeginOf(toRen[k + 1], s)
  BY ReadsOne
<1>2. Defines(k + 1, s)
  BY <1>1 DEF Valued
<1> QED BY <1>1, <1>2, DefinesReads

LEMMA BracketedReads ==
  ASSUME Inv, TypeOK', Reads(1), Bracketed, activeRequest' = activeRequest,
         syncRequired' <=> syncRequired, transaction # None => transaction' # None,
         transaction' # None \/ \A s \in Syncs : Asks("state-sync", s) => ~BeginOf(toRen[1], s)
  PROVE  Bracketed'
<1>1. \A s : Asks("state-sync", s)' <=> Asks("state-sync", s)
  BY DEF Asks
<1> SUFFICES ASSUME NEW k \in Said', Creates(k)'
             PROVE  /\ ~syncRequired' => Opened(k)'
                    /\ \A s \in Syncs, l \in Said' : Asks("state-sync", s)' /\ EndOf(toRen'[l], s) => k < l
  BY DEF Bracketed
<1>2. k + 1 \in Said /\ Creates(k + 1) /\ k \in Nat
  BY ReadsOne
<1>3. ASSUME ~syncRequired' PROVE Opened(k)'
  <2>1. Opened(k + 1)
    BY <1>2, <1>3 DEF Bracketed
  <2>2. PICK s \in Syncs : /\ Asks("state-sync", s)
                           /\ transaction # None \/ \E l \in Said : l < k + 1 /\ BeginOf(toRen[l], s)
    BY <2>1 DEF Opened
  <2>3. CASE transaction' # None
    BY <1>1, <2>2, <2>3 DEF Opened
  <2>4. CASE transaction' = None
    <3>1. PICK l \in Said : l < k + 1 /\ BeginOf(toRen[l], s)
      BY <2>2, <2>4
    <3>2. l # 1
      BY <2>2, <2>4, <3>1
    <3>3. l - 1 \in Said' /\ toRen'[l - 1] = toRen[l] /\ l - 1 < k
      BY <1>2, <3>1, <3>2, ReadsOne
    <3> QED BY <1>1, <2>2, <3>1, <3>3 DEF Opened
  <2> QED BY <2>3, <2>4
<1>4. ASSUME NEW s \in Syncs, NEW l \in Said', Asks("state-sync", s)', EndOf(toRen'[l], s) PROVE k < l
  <2>1. l + 1 \in Said /\ l \in Nat /\ EndOf(toRen[l + 1], s)
    BY <1>4, ReadsOne
  <2>2. k + 1 < l + 1
    BY <1>1, <1>2, <1>4, <2>1 DEF Bracketed
  <2> QED BY <1>2, <2>1, <2>2
<1> QED BY <1>3, <1>4

LEMMA HeardReads ==
  ASSUME Inv, TypeOK', Reads(1), Heard, activeRequest' = activeRequest, transaction' = None <=> transaction = None,
         \A s \in Syncs : Asks("state-sync", s) /\ transaction = None =>
           ~BeginOf(toRen[1], s) /\ ~ErrorOf(toRen[1], s)
  PROVE  Heard'
<1>1. \A s : Asks("state-sync", s)' <=> Asks("state-sync", s)
  BY DEF Asks
<1> SUFFICES ASSUME NEW s \in Syncs, Asks("state-sync", s), ~Called(s), transaction = None
             PROVE  \/ \E k \in Said' : ErrorOf(toRen'[k], s) \/ BeginOf(toRen'[k], s)
                    \/ handler'[s].pc \in {"initializing", "done"} /\ \A d \in Ops \ {s} : ~Open(d)'
  BY <1>1, ReadsOne DEF Heard
<1>2. CASE \E k \in Said : ErrorOf(toRen[k], s) \/ BeginOf(toRen[k], s)
  <2>1. PICK k \in Said : ErrorOf(toRen[k], s) \/ BeginOf(toRen[k], s)
    BY <1>2
  <2>2. k # 1
    BY <2>1
  <2>3. k - 1 \in Said' /\ toRen'[k - 1] = toRen[k]
    BY <2>2, ReadsOne
  <2> QED BY <2>1, <2>3
<1>3. CASE handler[s].pc \in {"initializing", "done"} /\ \A d \in Ops \ {s} : ~Open(d)
  BY <1>3, ReadsOne
<1> QED BY <1>2, <1>3 DEF Heard

LEMMA FitReads ==
  ASSUME Inv, TypeOK', Reads(1), NEW S, NEW n \in 1 .. Len(toRen), Fit(toRen, S, n)
  PROVE  /\ n - 1 \in 0 .. Len(toRen') /\ Fit(toRen', Changed(S, toRen[1]), n - 1)
         /\ toRen[1].type = "item_create" => S \intersect toRen[1].items = {}
<1> DEFINE q == toRen'
           p == toRen
<1>1. /\ Len(p) \in Nat /\ Len(q) \in Nat /\ Len(p) = Len(q) + 1
      /\ \A k \in 1 .. Len(q) : q[k] = p[k + 1]
  BY DEF Inv, Control, Base, TypeOK, SimTypeOK, Reads
<1>2. PICK f \in [0 .. n -> SUBSET Items] :
        /\ f[0] = S
        /\ \A k \in 1 .. n :
             /\ f[k] = Changed(f[k - 1], p[k])
             /\ p[k].type = "item_create" => f[k - 1] \intersect p[k].items = {}
  BY DEF Fit
<1> HIDE DEF p, q
<1>3. n \in 1 .. Len(p)
  BY DEF p
<1>4. n \in Nat /\ n >= 1 /\ n - 1 \in 0 .. Len(q) /\ 1 \in 1 .. n /\ 1 - 1 = 0
  BY <1>1, <1>3
<1>5. f[1] = Changed(S, p[1]) /\ (p[1].type = "item_create" => S \intersect p[1].items = {})
  <2>1. /\ f[1] = Changed(f[1 - 1], p[1])
        /\ p[1].type = "item_create" => f[1 - 1] \intersect p[1].items = {}
    BY <1>2, <1>4
  <2> QED BY <1>2, <1>4, <2>1
<1> DEFINE g == [k \in 0 .. (n - 1) |-> f[k + 1]]
<1>6. /\ g \in [0 .. (n - 1) -> SUBSET Items] /\ g[0] = f[1]
      /\ \A k \in 1 .. (n - 1) : /\ k + 1 \in 1 .. n /\ q[k] = p[k + 1]
                                 /\ g[k] = f[k + 1] /\ g[k - 1] = f[(k + 1) - 1]
  <2>1. \A k \in 0 .. (n - 1) : k + 1 \in 0 .. n
    BY <1>4
  <2>2. g \in [0 .. (n - 1) -> SUBSET Items]
    BY <1>2, <2>1
  <2>3. \A k \in 0 .. (n - 1) : g[k] = f[k + 1]
    OBVIOUS
  <2>4. 0 \in 0 .. (n - 1) /\ 0 + 1 = 1
    BY <1>4
  <2>5. \A k \in 1 .. (n - 1) : /\ k + 1 \in 1 .. n /\ k \in 1 .. Len(q)
                                /\ k \in 0 .. (n - 1) /\ k - 1 \in 0 .. (n - 1) /\ (k - 1) + 1 = (k + 1) - 1
    BY <1>1, <1>3, <1>4
  <2> HIDE DEF g
  <2>6. g[0] = f[1]
    BY <2>3, <2>4
  <2> QED BY <1>1, <2>2, <2>3, <2>5, <2>6
<1> HIDE DEF g
<1>7. \A k \in 1 .. (n - 1) :
        /\ g[k] = Changed(g[k - 1], q[k])
        /\ q[k].type = "item_create" => g[k - 1] \intersect q[k].items = {}
  BY <1>2, <1>6
<1>8. Fit(q, Changed(S, p[1]), n - 1)
  BY <1>5, <1>6, <1>7 DEF Fit
<1> QED BY <1>4, <1>5, <1>8 DEF p, q

LEMMA BehindReads ==
  ASSUME Inv, TypeOK', Reads(1), Behind, activeRequest' = activeRequest, syncRequired' <=> syncRequired,
         transaction' = None <=> transaction = None,
         NoFailed /\ transaction = None /\ ~syncRequired /\ ~Settled =>
           scene'.items = Changed(scene.items, toRen[1]),
         \A s \in Syncs : Asks("state-sync", s) /\ transaction = None =>
           ~BeginOf(toRen[1], s) /\ ~ErrorOf(toRen[1], s)
  PROVE  Behind'
<1>1. \A s : Asks("state-sync", s)' <=> Asks("state-sync", s)
  BY DEF Asks
<1> SUFFICES ASSUME NoFailed, transaction = None, ~syncRequired, ~Settled'
             PROVE  \E n \in 0 .. Len(toRen') :
                      /\ Fit(toRen', scene'.items, n)
                      /\ \A k \in 1 .. n : ~Beginning(k)'
                      /\ \A k \in Said' : k > n /\ toRen'[k].type \in ItemWords =>
                           \E l \in Said' : n < l /\ l < k /\ Beginning(l)'
  BY ReadsOne DEF Behind
<1>2. ~Settled
  <2>1. PICK s \in Syncs : Asks("state-sync", s) /\ ~Called(s) /\ \A k \in Said' : ~ErrorOf(toRen'[k], s)
    BY <1>1, ReadsOne DEF Settled
  <2>2. \A k \in Said : ~ErrorOf(toRen[k], s)
    <3> TAKE k \in Said
    <3>1. CASE k = 1
      BY <2>1, <3>1
    <3>2. CASE k # 1
      BY <2>1, <3>2, ReadsOne
    <3> QED BY <3>1, <3>2
  <2> QED BY <2>1, <2>2 DEF Settled
<1>3. scene'.items = Changed(scene.items, toRen[1])
  BY <1>2
<1>4. PICK n \in 0 .. Len(toRen) :
        /\ Fit(toRen, scene.items, n)
        /\ \A k \in 1 .. n : ~Beginning(k)
        /\ \A k \in Said : k > n /\ toRen[k].type \in ItemWords =>
             \E l \in Said : n < l /\ l < k /\ Beginning(l)
  BY <1>2 DEF Behind
<1>5. ~Beginning(1)
  BY DEF Beginning
<1>6. \A k \in Said' : k \in Nat /\ k >= 1 /\ k + 1 \in Said /\ toRen'[k] = toRen[k + 1] /\ (Beginning(k)' <=> Beginning(k + 1))
  BY <1>1, ReadsOne DEF Beginning
<1>7. \A l \in Said : l \in Nat /\ l >= 1 /\ (Beginning(l) => l - 1 \in Said' /\ Beginning(l - 1)')
  BY <1>1, <1>5, ReadsOne DEF Beginning
<1>8. Len(toRen) \in Nat /\ Len(toRen') \in Nat /\ Len(toRen) = Len(toRen') + 1
  BY DEF Inv, Control, Base, TypeOK, SimTypeOK, Reads
<1>9. CASE n = 0
  <2>1. 0 \in 0 .. Len(toRen')
    BY <1>8
  <2>2. Fit(toRen', scene'.items, 0)
    <3> DEFINE f == [k \in 0 .. 0 |-> scene'.items]
    <3>1. f \in [0 .. 0 -> SUBSET Items] /\ f[0] = scene'.items
      BY DEF TypeOK, Scenes
    <3>2. \A k \in 1 .. 0 : FALSE
      OBVIOUS
    <3> HIDE DEF f
    <3> QED BY <3>1, <3>2 DEF Fit
  <2>3. \A k \in 1 .. 0 : ~Beginning(k)'
    OBVIOUS
  <2>4. ASSUME NEW k \in Said', k > 0, toRen'[k].type \in ItemWords
        PROVE  \E l \in Said' : 0 < l /\ l < k /\ Beginning(l)'
    <3>1. k \in Nat /\ k + 1 \in Said /\ k + 1 > n /\ toRen[k + 1].type \in ItemWords
      BY <1>6, <1>9, <2>4
    <3>2. PICK l \in Said : n < l /\ l < k + 1 /\ Beginning(l)
      BY <1>4, <3>1
    <3>3. l - 1 \in Said' /\ Beginning(l - 1)' /\ l \in Nat
      BY <1>7, <3>2
    <3>4. l - 1 > 0 /\ l - 1 < k
      BY <1>6, <3>1, <3>2, <3>3
    <3> QED BY <3>3, <3>4
  <2> QED BY <2>1, <2>2, <2>3, <2>4
<1>10. CASE n # 0
  <2>1. n \in 1 .. Len(toRen) /\ n \in Nat
    BY <1>4, <1>8, <1>10
  <2>2. n - 1 \in 0 .. Len(toRen') /\ Fit(toRen', scene'.items, n - 1)
    BY <1>3, <1>4, <2>1, FitReads
  <2>3. \A k \in 1 .. (n - 1) : ~Beginning(k)'
    <3> SUFFICES ASSUME NEW k \in 1 .. (n - 1) PROVE ~Beginning(k)'
      OBVIOUS
    <3>1. k \in Said' /\ k + 1 \in 1 .. n
      BY <2>1, <2>2, <1>8 DEF Said
    <3> QED BY <1>4, <1>6, <3>1
  <2>4. ASSUME NEW k \in Said', k > n - 1, toRen'[k].type \in ItemWords
        PROVE  \E l \in Said' : n - 1 < l /\ l < k /\ Beginning(l)'
    <3>1. k \in Nat /\ k + 1 \in Said /\ k + 1 > n /\ toRen[k + 1].type \in ItemWords
      BY <1>6, <2>1, <2>4
    <3>2. PICK l \in Said : n < l /\ l < k + 1 /\ Beginning(l)
      BY <1>4, <3>1
    <3>3. l - 1 \in Said' /\ Beginning(l - 1)' /\ l \in Nat
      BY <1>7, <3>2
    <3>4. l - 1 > n - 1 /\ l - 1 < k
      BY <2>1, <3>1, <3>2, <3>3
    <3> QED BY <3>3, <3>4
  <2> QED BY <2>2, <2>3, <2>4
<1> QED BY <1>9, <1>10

\* A definition is left behind by nobody: what the renderer waits for is no
\* sync, and none has been accepted since.
LEMMA NoneDefines ==
  ASSUME Inv, TypeOK', Reads(1), \A s \in Syncs : ~Asks("state-sync", s)',
         \A k \in Said : k # 1 /\ Creates(k) => syncRequired'
  PROVE  Bracketed'
<1>1. \A k \in Said' : Creates(k)' => syncRequired'
  <2> SUFFICES ASSUME NEW k \in Said', Creates(k)' PROVE syncRequired'
    OBVIOUS
  <2>1. k + 1 \in Said /\ Creates(k + 1) /\ k + 1 # 1
    <3>1. k \in Nat /\ k >= 1
      BY ReadsOne
    <3> QED BY <3>1, ReadsOne
  <2> QED BY <2>1
<1> QED BY <1>1 DEF Bracketed

LEMMA ValuedReads ==
  ASSUME Inv, TypeOK', Reads(1), 1 \in Said, Valued, activeRequest' = activeRequest,
         ~syncRequired' => scene'.param # None,
         transaction' # None /\ transaction'.kind = "scene-restore" => transaction'.staging.param # None,
         \A s \in Syncs : Asks("state-sync", s) /\ transaction' # None /\ transaction'.staging.param = None =>
           BeginOf(toRen[1], s) \/ (transaction # None /\ transaction.staging.param = None /\ ~Creates(1))
  PROVE  Valued'
<1>1. \A s : Asks("state-sync", s)' <=> Asks("state-sync", s)
  BY DEF Asks
<1>2. ASSUME NEW s \in Syncs, Asks("state-sync", s), transaction' # None, transaction'.staging.param = None
      PROVE  Defines(0, s)'
  <2>1. CASE BeginOf(toRen[1], s)
    <3>1. Defines(1, s) /\ 0 + 1 = 1
      BY <1>2, <2>1 DEF Valued
    <3>2. Defines(0 + 1, s)
      BY <3>1
    <3> QED BY <3>2, DefinesReads
  <2>2. CASE transaction # None /\ transaction.staging.param = None /\ ~Creates(1)
    <3>1. Defines(0, s)
      BY <1>2, <2>2 DEF Valued
    <3> QED BY <2>2, <3>1, DefinesOn
  <2> QED BY <1>2, <2>1, <2>2
<1>3. ASSUME NEW s \in Syncs, Asks("state-sync", s), NEW k \in Said', BeginOf(toRen'[k], s)
      PROVE  Defines(k, s)'
  BY <1>3, BegunReads
<1> QED BY <1>1, <1>2, <1>3 DEF Valued

\* A request ends: nobody waits for a sync any more.
LEMMA EndsSpare ==
  ASSUME Inv, TypeOK', Reads(1), Spared, activeRequest' = None, transaction' = None, ~syncRequired',
         scene'.param # None, rejected' = rejected, \A k \in Said : k # 1 => ~Creates(k)
  PROVE  Spared'
<1>1. \A s \in Syncs : ~Asks("state-sync", s)'
  BY NoneAssumption DEF Asks, Controls
<1>2. Heard' /\ Behind'
  BY <1>1, AsksNone
<1>3. Bracketed'
  BY <1>1, NoneDefines
<1>4. Valued'
  BY <1>1 DEF Valued
<1>5. NoFailed' => ~rejected'
  BY ReadsOne DEF Spared
<1> QED BY <1>2, <1>3, <1>4, <1>5 DEF Spared

LEMMA IgnoredSpares ==
  ASSUME Inv, TypeOK', Reads(1), Spared, 1 \in Said, Ignored(toRen[1])
  PROVE  Spared'
<1> DEFINE m == toRen[1]
<1>1. /\ scene' = scene /\ transaction' = transaction /\ activeRequest' = activeRequest
      /\ (syncRequired' <=> syncRequired) /\ rejected' = rejected
  BY DEF Ignored, Ignore
<1>2. \/ Refused(m)
      \/ m.type = "state_sync_begin" /\ ~(transaction = None /\ Awaits("state-sync", m.id))
      \/ m.type \in {"scene_restore_begin", "state_sync_end", "scene_restore_end", "scene_capture_result", "error"}
  BY DEF Ignored
<1>3. \A s \in Syncs : Asks("state-sync", s) /\ transaction = None => ~BeginOf(m, s) /\ ~ErrorOf(m, s)
  <2>1. \A s \in Syncs : Asks("state-sync", s) => ~ErrorOf(m, s)
    BY IgnoredKeeps DEF Keeps
  <2>2. ASSUME NEW s \in Syncs, Asks("state-sync", s), transaction = None, BeginOf(m, s) PROVE FALSE
    <3>1. m.type = "state_sync_begin" /\ m.id = s /\ Awaits("state-sync", m.id)
      BY <2>2 DEF BeginOf, Asks, Awaits
    <3> QED BY <1>2, <2>2, <3>1 DEF Refused
  <2> QED BY <2>1, <2>2
<1>4. transaction # None \/ ~syncRequired => m.type \notin ItemWords /\ ~Creates(1)
  BY <1>2 DEF Refused, ItemWords, Creates
<1>5. transaction = None /\ ~syncRequired => scene'.items = Changed(scene.items, m)
  BY <1>1, <1>4 DEF Changed, ItemWords
<1> HIDE DEF m
<1>6. Heard /\ Behind /\ Valued /\ Bracketed /\ (NoFailed => ~rejected)
  BY DEF Spared
<1>7. Heard'
  BY <1>1, <1>3, <1>6, HeardReads DEF m
<1>8. Behind'
  BY <1>1, <1>3, <1>5, <1>6, BehindReads DEF m
<1>9. Bracketed'
  BY <1>1, <1>3, <1>6, BracketedReads DEF m
<1>10. Valued'
  <2>1. ~syncRequired' => scene'.param # None
    BY <1>1, <1>6 DEF Valued
  <2>2. transaction' # None /\ transaction'.kind = "scene-restore" => transaction'.staging.param # None
    BY <1>1, <1>6 DEF Valued
  <2> QED BY <1>1, <1>4, <1>6, <2>1, <2>2, ValuedReads
<1>11. NoFailed' => ~rejected'
  BY <1>1, <1>6, ReadsOne
<1> QED BY <1>7, <1>8, <1>9, <1>10, <1>11 DEF Spared

LEMMA BeginSpares ==
  ASSUME Inv, TypeOK', Reads(1), Spared, 1 \in Said, NEW kind \in {"state-sync", "scene-restore"},
         toRen[1].type = (IF kind = "state-sync" THEN "state_sync_begin" ELSE "scene_restore_begin"),
         transaction = None, Awaits(kind, toRen[1].id),
         transaction' = [kind |-> kind, id |-> toRen[1].id,
                         staging |-> IF kind = "state-sync" THEN Empty ELSE scene],
         UNCHANGED <<scene, activeRequest, syncRequired, rejected>>
  PROVE  Spared'
<1> DEFINE m == toRen[1]
<1>1. Guarded /\ TypeOK /\ m \in Messages
  BY DEF Inv, Control, Base, TypeOK, SimTypeOK, Said
<1>2. /\ scene' = scene /\ activeRequest' = activeRequest
      /\ (syncRequired' <=> syncRequired) /\ rejected' = rejected
  OBVIOUS
<1>3. /\ transaction'.kind = kind
      /\ transaction'.staging = (IF kind = "state-sync" THEN Empty ELSE scene)
  OBVIOUS
<1>4. activeRequest # None /\ activeRequest.kind = kind /\ activeRequest.id = m.id
  <2>1. [kind |-> kind, id |-> m.id] \in Controls
    BY <1>1, MessageFields DEF Controls, Restoring
  <2> QED BY <2>1, NoneAssumption DEF Awaits
<1>5. transaction' # None
  <2>1. transaction' \in Transactions
    <3>1. Empty \in Scenes /\ scene \in Scenes
      BY <1>1 DEF TypeOK, Empty, Scenes
    <3>2. m.id \in Syncs \union RestoreIds
      BY <1>1, MessageFields DEF Restoring
    <3> QED BY <3>1, <3>2 DEF Transactions, ControlKinds
  <2> QED BY <2>1, NoneAssumption
<1> HIDE DEF m
<1>6. Heard /\ Behind /\ Valued /\ Bracketed /\ (NoFailed => ~rejected)
  BY DEF Spared
<1>7. Heard' /\ Behind'
  BY <1>5 DEF Heard, Behind
<1>8. Bracketed'
  BY <1>2, <1>5, <1>6, BracketedReads
<1>9. Valued'
  <2>1. ~syncRequired' => scene'.param # None
    BY <1>2, <1>6 DEF Valued
  <2>2. transaction'.kind = "scene-restore" => transaction'.staging.param # None
    <3> SUFFICES ASSUME kind = "scene-restore" PROVE scene.param # None
      BY <1>3
    <3>1. ~syncRequired
      BY <1>1, <1>4 DEF Guarded
    <3> QED BY <1>6, <3>1 DEF Valued
  <2>3. \A s \in Syncs : Asks("state-sync", s) => BeginOf(toRen[1], s)
    <3> SUFFICES ASSUME NEW s \in Syncs, Asks("state-sync", s) PROVE BeginOf(toRen[1], s)
      OBVIOUS
    <3>1. activeRequest.kind = "state-sync" /\ activeRequest.id = s
      BY DEF Asks
    <3> QED BY <1>4, <3>1 DEF BeginOf, m
  <2> QED BY <1>2, <1>6, <2>1, <2>2, <2>3, ValuedReads
<1>10. NoFailed' => ~rejected'
  BY <1>2, <1>6, ReadsOne
<1> QED BY <1>7, <1>8, <1>9, <1>10 DEF Spared

LEMMA SyncEndSpares ==
  ASSUME Inv, TypeOK', Reads(1), Spared, 1 \in Said, toRen[1].type = "state_sync_end",
         Closes("state-sync", toRen[1]), EndStateSync(toRen[1])
  PROVE  Spared'
<1>1. Guarded /\ TypeOK
  BY DEF Inv, Control, Base
<1>2. /\ transaction # None /\ scene' = transaction.staging /\ ~syncRequired'
      /\ transaction' = None /\ activeRequest' = None /\ rejected' = rejected
  BY DEF EndStateSync, Closes
<1>3. PICK s \in Syncs : s = toRen[1].id
  BY <1>1, MessageFields DEF TypeOK, SimTypeOK, Said
<1>4. Asks("state-sync", s) /\ EndOf(toRen[1], s)
  <2>1. activeRequest.kind = "state-sync" /\ activeRequest.id = s /\ Asking("state-sync")
    BY <1>1, <1>3 DEF Closes, Guarded, Asking
  <2> QED BY <1>1, <1>3, <2>1, Waits DEF EndOf
<1>5. \A k \in Said : k \in Nat /\ k >= 1
  BY ReadsOne
<1>6. \A k \in Said : ~Creates(k)
  <2>1. \A k \in Said : Creates(k) => k < 1
    BY <1>4 DEF Spared, Bracketed
  <2> QED BY <1>5, <2>1
<1>7. transaction.staging.param # None
  <2>1. transaction.staging.param = None => Defines(0, s)
    BY <1>2, <1>4 DEF Spared, Valued
  <2>2. Defines(0, s) => \E j \in Said : Creates(j)
    BY <1>4 DEF Defines
  <2> QED BY <1>6, <2>1, <2>2
<1> QED BY <1>2, <1>6, <1>7, EndsSpare

LEMMA RestoreEndSpares ==
  ASSUME Inv, TypeOK', Reads(1), Spared, 1 \in Said, toRen[1].type = "scene_restore_end",
         Closes("scene-restore", toRen[1]), EndSceneRestore(toRen[1])
  PROVE  Spared'
<1>1. Guarded /\ TypeOK
  BY DEF Inv, Control, Base
<1>2. /\ transaction # None /\ transaction.kind = "scene-restore"
      /\ scene' = (IF toRen[1].status = "ok" THEN transaction.staging ELSE scene)
      /\ transaction' = None /\ activeRequest' = None /\ rejected' = rejected /\ (syncRequired' <=> syncRequired)
  BY DEF EndSceneRestore, Closes
<1>3. activeRequest # None /\ activeRequest.kind = "scene-restore" /\ ~syncRequired
  BY <1>1, <1>2 DEF Guarded
<1>4. \A s \in Syncs : ~Asks("state-sync", s)
  <2>1. \A s \in Syncs : Asks("state-sync", s) => activeRequest.kind = "state-sync"
    BY DEF Asks
  <2> QED BY <1>3, <2>1
<1>5. \A k \in Said : ~Creates(k)
  BY <1>3, <1>4 DEF Spared, Bracketed, Opened
<1>6. scene'.param # None
  <2>1. scene.param # None /\ transaction.staging.param # None
    BY <1>2, <1>3 DEF Spared, Valued
  <2> QED BY <1>2, <2>1
<1> QED BY <1>2, <1>3, <1>5, <1>6, EndsSpare

\* What a message makes of the parameter.
LEMMA MutatesParam ==
  ASSUME NEW s \in Scenes, NEW m \in Messages
  PROVE  /\ s.param # None => Mutate(s, m).param # None
         /\ Allowed(s, m) /\ Mutate(s, m).param = None => m.type # "param_create"
<1>1. m.type \in {"param_create", "param_update", "param_sync"} => m.value \in Values /\ m.value # None
  BY MessageFields, OneKind
<1>2. CASE m.type \in {"param_create", "param_update"} \/ (m.type = "param_sync" /\ s.param # None)
  <2>1. Mutate(s, m) = [s EXCEPT !.param = m.value]
    BY <1>2 DEF Mutate
  <2> QED BY <1>1, <1>2, <2>1 DEF Scenes
<1>3. CASE ~(m.type \in {"param_create", "param_update"} \/ (m.type = "param_sync" /\ s.param # None))
  <2>1. Mutate(s, m).param = s.param
    <3>1. CASE m.type = "item_create"
      <4>1. Mutate(s, m) = [s EXCEPT !.items = @ \union m.items]
        BY <3>1 DEF Mutate
      <4> QED BY <4>1 DEF Scenes
    <3>2. CASE m.type = "item_delete"
      <4>1. Mutate(s, m) = [s EXCEPT !.items = @ \ m.items]
        BY <3>2 DEF Mutate
      <4> QED BY <4>1 DEF Scenes
    <3>3. CASE m.type \notin ItemWords
      <4>1. Mutate(s, m) = s
        BY <1>3, <3>3 DEF Mutate, ItemWords
      <4> QED BY <4>1
    <3> QED BY <3>1, <3>2, <3>3 DEF ItemWords
  <2> QED BY <1>3, <2>1
<1> QED BY <1>2, <1>3

LEMMA StagedSpares ==
  ASSUME Inv, TypeOK', Reads(1), Spared, 1 \in Said, transaction # None,
         Allowed(transaction.staging, toRen[1]), ApplyTransactionMessage(toRen[1]), toRen[1].type \in Others
  PROVE  Spared'
<1> DEFINE m == toRen[1]
<1>1. TypeOK /\ m \in Messages /\ transaction \in Transactions /\ transaction.staging \in Scenes
  BY DEF Inv, Control, Base, TypeOK, SimTypeOK, Said, Transactions
<1>2. /\ transaction' = [transaction EXCEPT !.staging = Mutate(transaction.staging, m)]
      /\ scene' = scene /\ activeRequest' = activeRequest
      /\ (syncRequired' <=> syncRequired) /\ rejected' = rejected
  BY DEF ApplyTransactionMessage
<1>3. Allowed(transaction.staging, m)
  OBVIOUS
<1>4. Creates(1) => m.type = "param_create"
  BY DEF Creates
<1>5. \A s : ~BeginOf(m, s)
  BY DEF BeginOf, Others
<1> HIDE DEF m
<1>6. /\ transaction'.kind = transaction.kind /\ transaction'.staging = Mutate(transaction.staging, m)
      /\ transaction' # None
  <2>1. /\ transaction'.kind = transaction.kind /\ transaction'.staging = Mutate(transaction.staging, m)
        /\ transaction' \in Transactions
    <3>1. Mutate(transaction.staging, m) \in Scenes
      BY <1>1, Mutates
    <3> QED BY <1>1, <1>2, <3>1 DEF Transactions
  <2> QED BY <2>1, NoneAssumption
<1>7. /\ transaction.staging.param # None => transaction'.staging.param # None
      /\ transaction'.staging.param = None => ~Creates(1)
  BY <1>1, <1>3, <1>4, <1>6, MutatesParam
<1>8. Heard /\ Behind /\ Valued /\ Bracketed /\ (NoFailed => ~rejected)
  BY DEF Spared
<1>9. Heard' /\ Behind'
  BY <1>6 DEF Heard, Behind
<1>10. Bracketed'
  BY <1>2, <1>6, <1>8, BracketedReads
<1>11. Valued'
  <2>1. ~syncRequired' => scene'.param # None
    BY <1>2, <1>8 DEF Valued
  <2>2. transaction'.kind = "scene-restore" => transaction'.staging.param # None
    BY <1>6, <1>7, <1>8 DEF Valued
  <2> QED BY <1>2, <1>7, <1>8, <2>1, <2>2, ValuedReads
<1>12. NoFailed' => ~rejected'
  BY <1>2, <1>8, ReadsOne
<1> QED BY <1>9, <1>10, <1>11, <1>12 DEF Spared

\* While no restore has failed the committed scene takes each message it is sent.
LEMMA CommittedAllowed ==
  ASSUME Inv, TypeOK', Reads(1), Spared, 1 \in Said, toRen[1].type \in Others, transaction = None,
         ~syncRequired, NoFailed
  PROVE  Allowed(scene, toRen[1])
<1> DEFINE m == toRen[1]
<1>1. Tracks /\ TypeOK
  BY DEF Inv, Control, Base
<1>2. \A k \in Said : k \in Nat /\ k >= 1
  BY ReadsOne
<1>3. m.type # "param_create"
  <2> SUFFICES ASSUME Creates(1) PROVE FALSE
    BY DEF Creates
  <2>1. Opened(1)
    BY DEF Spared, Bracketed
  <2>2. PICK l \in Said : l < 1
    BY <2>1 DEF Opened
  <2> QED BY <1>2, <2>2
<1>4. scene.param # None
  BY DEF Spared, Valued
<1>5. m.type = "item_create" => scene.items \intersect m.items = {}
  <2> SUFFICES ASSUME m.type = "item_create" PROVE scene.items \intersect m.items = {}
    OBVIOUS
  <2>1. CASE Settled
    <3>1. PICK T \in SUBSET Items : Leads(Shown, 0, T)
      BY <1>1, <2>1 DEF Tracks
    <3>2. Shown = scene.items
      BY DEF Shown
    <3> QED BY <1>1, <3>1, <3>2, LeadsReads
  <2>2. CASE ~Settled
    <3>1. PICK n \in 0 .. Len(toRen) :
            /\ Fit(toRen, scene.items, n)
            /\ \A k \in Said : k > n /\ toRen[k].type \in ItemWords =>
                 \E l \in Said : n < l /\ l < k /\ Beginning(l)
      BY <2>2 DEF Spared, Behind
    <3>2. Len(toRen) \in Nat
      BY <1>1 DEF TypeOK, SimTypeOK
    <3>3. n # 0
      <4> SUFFICES ASSUME n = 0 PROVE FALSE
        OBVIOUS
      <4>1. m.type \in ItemWords
        BY DEF ItemWords
      <4>2. PICK l \in Said : 0 < l /\ l < 1
        BY <3>1, <4>1
      <4> QED BY <1>2, <4>2
    <3>4. n \in 1 .. Len(toRen)
      BY <3>1, <3>2, <3>3
    <3> QED BY <3>1, <3>4, FitReads
  <2> QED BY <2>1, <2>2
<1> HIDE DEF m
<1> QED BY <1>3, <1>4, <1>5 DEF Allowed, m

LEMMA CommittedSpares ==
  ASSUME Inv, TypeOK', Reads(1), Spared, 1 \in Said, toRen[1].type \in Others, transaction = None,
         ~syncRequired, ApplyCommittedMessage(toRen[1])
  PROVE  Spared'
<1> DEFINE m == toRen[1]
<1>1. TypeOK /\ m \in Messages /\ scene \in Scenes
  BY DEF Inv, Control, Base, TypeOK, SimTypeOK, Said
<1>2. /\ IF Allowed(scene, m) THEN scene' = Mutate(scene, m) /\ rejected' = rejected
         ELSE rejected' = TRUE /\ scene' = scene
      /\ transaction' = transaction /\ activeRequest' = activeRequest /\ (syncRequired' <=> syncRequired)
  BY DEF ApplyCommittedMessage
<1>3. NoFailed => Allowed(scene, m)
  BY CommittedAllowed
<1>4. \A s : ~BeginOf(m, s) /\ ~ErrorOf(m, s)
  BY DEF BeginOf, ErrorOf, Others
<1> HIDE DEF m
<1>5. Heard /\ Behind /\ Valued /\ Bracketed /\ (NoFailed => ~rejected)
  BY DEF Spared
<1>6. NoFailed => scene'.items = Changed(scene.items, m)
  BY <1>1, <1>2, <1>3, Mutates
<1>7. scene'.param # None
  <2>1. scene.param # None
    BY <1>5 DEF Valued
  <2> QED BY <1>1, <1>2, <2>1, MutatesParam
<1>8. Heard'
  BY <1>2, <1>4, <1>5, HeardReads DEF m
<1>9. Behind'
  BY <1>2, <1>4, <1>5, <1>6, BehindReads DEF m
<1>10. Bracketed'
  BY <1>2, <1>4, <1>5, BracketedReads DEF m
<1>11. Valued'
  BY <1>2, <1>5, <1>7, ValuedReads
<1>12. NoFailed' => ~rejected'
  BY <1>2, <1>3, <1>5, ReadsOne
<1> QED BY <1>8, <1>9, <1>10, <1>11, <1>12 DEF Spared

LEMMA HandlingSpares ==
  ASSUME Inv, Spared, HandleIncoming
  PROVE  Spared'
<1> DEFINE m == toRen[1]
<1>1. Guarded /\ Alone /\ TypeOK
  BY DEF Inv, Control, Base
<1>2. /\ 1 \in Said /\ m \in Messages /\ Reads(1) /\ SimTypeOK'
      /\ unsent' = unsent /\ overtaken' = overtaken /\ Handled(m)
  BY <1>1, Handling
<1>3. TypeOK'
  BY <1>1, <1>2, HandlingTypes
<1>4. CASE Ignored(m)
  BY <1>2, <1>3, <1>4, IgnoredSpares
<1>5. CASE /\ m.type = "state_sync_begin" /\ transaction = None /\ Awaits("state-sync", m.id)
           /\ transaction' = [kind |-> "state-sync", id |-> m.id, staging |-> Empty]
           /\ UNCHANGED <<scene, activeRequest, syncRequired, runAction, rejected>>
  BY <1>2, <1>3, <1>5, BeginSpares
<1>6. CASE m.type = "state_sync_end" /\ Closes("state-sync", m) /\ EndStateSync(m)
  BY <1>2, <1>3, <1>6, SyncEndSpares
<1>7. CASE /\ m.type = "scene_restore_begin" /\ transaction = None /\ Awaits("scene-restore", m.id)
           /\ transaction' = [kind |-> "scene-restore", id |-> m.id, staging |-> scene]
           /\ UNCHANGED <<scene, activeRequest, syncRequired, runAction, rejected>>
  BY <1>2, <1>3, <1>7, BeginSpares
<1>8. CASE m.type = "scene_restore_end" /\ Closes("scene-restore", m) /\ EndSceneRestore(m)
  BY <1>2, <1>3, <1>8, RestoreEndSpares
<1>9. CASE /\ \/ m.type = "scene_capture_result" /\ Awaits("scene-capture", m.id)
              \/ m.type = "error" /\ activeRequest # None /\ m.id = activeRequest.id
           /\ FailActiveRequest(FALSE)
  BY <1>1, <1>2, <1>3, <1>9, GivenUp, FailsSpare
<1>10. CASE m.type \in Others /\ transaction # None /\ ApplyTransactionMessage(m)
  <2>1. CASE Allowed(transaction.staging, m)
    BY <1>2, <1>3, <1>10, <2>1, StagedSpares
  <2>2. CASE ~Allowed(transaction.staging, m)
    BY <1>1, <1>2, <1>3, <1>10, <2>2, StagingRefused, FailsSpare
  <2> QED BY <2>1, <2>2
<1>11. CASE m.type \in Others /\ transaction = None /\ ~syncRequired /\ ApplyCommittedMessage(m)
  BY <1>2, <1>3, <1>11, CommittedSpares
<1> QED BY <1>2, <1>4, <1>5, <1>6, <1>7, <1>8, <1>9, <1>10, <1>11 DEF Handled

LEMMA TimeoutSpares ==
  ASSUME Inv, Spared, TransactionTimeout, ~overtaken'
  PROVE  Spared'
<1>1. Reads(0) /\ TypeOK'
  BY TimeoutIs DEF Inv, Control, Base
<1> QED BY <1>1, TimeoutFails, FailsSpare

LEMMA StutterSpares ==
  ASSUME Spared, UNCHANGED vars
  PROVE  Spared'
<1>1. /\ scene' = scene /\ transaction' = transaction /\ activeRequest' = activeRequest
      /\ (syncRequired' <=> syncRequired) /\ (rejected' <=> rejected)
      /\ toRen' = toRen /\ toSim' = toSim /\ handler' = handler /\ restoreResults' = restoreResults
  BY DEF vars, simVars, renVars, bindingState
<1>2. /\ Said' = Said /\ (NoFailed' <=> NoFailed)
      /\ \A kind, id : Asks(kind, id)' <=> Asks(kind, id)
      /\ \A e : (Called(e)' <=> Called(e)) /\ (Open(e)' <=> Open(e))
      /\ \A k : Creates(k)' <=> Creates(k)
  BY <1>1 DEF Said, NoFailed, Asks, Called, Open, Running, Creates
<1>3. Heard'
  BY <1>1, <1>2 DEF Spared, Heard
<1>4. Behind'
  <2>1. \A k : Beginning(k)' <=> Beginning(k)
    BY <1>1, <1>2 DEF Beginning
  <2>2. Settled' <=> Settled
    BY <1>1, <1>2 DEF Settled
  <2> QED BY <1>1, <1>2, <2>1, <2>2 DEF Spared, Behind
<1>5. Valued'
  <2>1. \A i, s : Defines(i, s)' <=> Defines(i, s)
    BY <1>1, <1>2 DEF Defines
  <2> QED BY <1>1, <1>2, <2>1 DEF Spared, Valued
<1>6. Bracketed'
  <2>1. \A k : Opened(k)' <=> Opened(k)
    BY <1>1, <1>2 DEF Opened
  <2> QED BY <1>1, <1>2, <2>1 DEF Spared, Bracketed
<1> QED BY <1>1, <1>2, <1>3, <1>4, <1>5, <1>6 DEF Spared

-----------------------------------------------------------------------------
(* The theorems.                                                           *)

\* Every variable keeps its type: each message and each handler is one of
\* those session.ts and RendererSession.ts know, whatever times out.
THEOREM TypeCorrect == Spec => []TypeOK
<1>1. Init => Base
  BY InitInv DEF Inv, Control
<1>2. ASSUME Base, [Next]_vars PROVE Base'
  <2>1. CASE SendSomething
    <3>1. PICK d \in Requests, m \in Calls : Sends(d, m) /\ TypeOK'
      BY <1>2, <2>1, SendIs
    <3>2. m.at = d /\ Send(d, m)
      BY <3>1 DEF Sends
    <3>3. Queued' /\ Placed'
      BY <1>2, <3>2, SentFacts
    <3> QED BY <3>1, <3>3 DEF Base
  <2>2. CASE HandleIncoming
    <3>1. TypeOK
      BY <1>2 DEF Base
    <3>2. Reads(1) /\ TypeOK'
      BY <2>2, <3>1, Handling, HandlingTypes
    <3> QED BY <1>2, <3>2, ReadsKeepBase
  <2>3. CASE TransactionTimeout
    <3>1. Reads(0) /\ TypeOK'
      BY <1>2, <2>3, TimeoutIs DEF Base
    <3> QED BY <1>2, <3>1, ReadsKeepBase
  <2>4. CASE Dispatched \/ Resumed
    <3>1. PICK d, w : Step(d, w) /\ TypeOK'
      BY <1>2, <2>4, SimulatorSteps
    <3> QED BY <1>2, <3>1, BaseSteps
  <2>5. CASE UNCHANGED vars
    <3>1. UNCHANGED <<simVars, renVars>> /\ TypeOK
      BY <1>2, <2>5 DEF vars, Base
    <3>2. Reads(0)
      <4>1. toRen' = toRen /\ Len(toRen) \in Nat
        BY <3>1 DEF simVars, TypeOK, SimTypeOK
      <4>2. Len(toRen) = Len(toRen') + 0 /\ \A k \in 1 .. Len(toRen') : k + 0 = k
        BY <4>1
      <4> QED BY <3>1, <4>1, <4>2 DEF Reads, simVars, renVars
    <3>3. TypeOK'
      <4>1. SimTypeOK'
        BY <3>1 DEF TypeOK, SimTypeOK, simVars, bindingState, modelState
      <4> QED BY <3>1, <4>1 DEF TypeOK, renVars
    <3> QED BY <1>2, <3>2, <3>3, ReadsKeepBase
  <2> QED BY <1>2, <2>1, <2>2, <2>3, <2>4, <2>5 DEF Next
<1>3. Base => TypeOK
  BY DEF Base
<1> QED BY <1>1, <1>2, <1>3, PTL DEF Spec

\* A restore once overtaken stays so, and only its timer makes it so.
LEMMA OnceOvertaken ==
  ASSUME [Next]_vars, ~overtaken'
  PROVE  ~overtaken
<1>1. CASE SendSomething
  BY <1>1 DEF SendSomething, RequestStateSync, IssueSceneRestore, IssueSceneCapture, SetParameter,
              InvokeAction, Send
<1>2. CASE HandleIncoming
  BY <1>2 DEF HandleIncoming, Incoming
<1>3. CASE TransactionTimeout
  BY <1>3 DEF TransactionTimeout
<1>4. CASE Dispatched \/ Resumed \/ UNCHANGED vars
  BY <1>4 DEF Dispatched, Resumed, vars, renVars
<1> QED BY <1>1, <1>2, <1>3, <1>4 DEF Next

LEMMA Invariance == Spec => [](~overtaken => Inv /\ Spared)
<1> DEFINE I == ~overtaken => Inv /\ Spared
<1>1. Init => I
  BY InitInv, InitSpares
<1>2. ASSUME I, [Next]_vars PROVE I'
  <2> SUFFICES ASSUME ~overtaken' PROVE (Inv /\ Spared)'
    OBVIOUS
  <2>1. Inv /\ Spared
    BY <1>2, OnceOvertaken
  <2>2. Inv'
    BY <1>2, <2>1, SendsKeepInv, HandlingKeepsInv, TimeoutKeepsInv, SimulatorKeepsInv, StutterKeepsInv DEF Next
  <2>3. Spared'
    BY <1>2, <2>1, <2>2, SendsSpare, HandlingSpares, TimeoutSpares, SparedSteps, StutterSpares DEF Next
  <2> QED BY <2>2, <2>3
<1> QED BY <1>1, <1>2, PTL DEF Spec

\* The simulator never works at two of a sync, a restore and an action at
\* once, though every message starts its own handler: the two busy flags
\* of session.ts and the guards of the renderer make up for each other,
\* unless the renderer gives up a restore that the binding is validating.
THEOREM OneAtATime == Spec => []OneOperationUnlessOvertaken
<1>1. Inv => OneOperation
  <2> SUFFICES ASSUME Inv PROVE OneOperation
    OBVIOUS
  <2> DEFINE W == {d \in Syncs \union Actions : Running(d)}
                    \union {d \in Restores : Running(d) /\ handler[d].pc # "validating"}
  <2>1. Busy /\ Placed
    BY DEF Inv, Control, Base
  <2>2. \A d \in W : d \in Ops /\ Engaged(d)
    <3>1. \A d \in Syncs \union Actions : Running(d) => handler[d].pc # "validating"
      BY <2>1, KindOf, OneKind DEF Requests
    <3> QED BY <3>1 DEF Ops, Engaged
  <2>3. \A d, e \in W : d = e
    BY <2>1, <2>2 DEF Busy
  <2>4. Cardinality(W) <= 1
    <3> HIDE DEF W
    <3>1. CASE W = {}
      BY <3>1, FS_EmptySet
    <3>2. CASE W # {}
      <4>1. PICK d : W = {d}
        BY <2>3, <3>2
      <4> QED BY <4>1, FS_Singleton
    <3> QED BY <3>1, <3>2
  <2> QED BY <2>4 DEF OneOperation
<1>2. (~overtaken => Inv /\ Spared) => OneOperationUnlessOvertaken
  BY <1>1 DEF OneOperationUnlessOvertaken
<1> QED BY <1>2, Invariance, PTL

\* A restore request is carried out once: one that comes again, with an id
\* that was used, is answered with the verdict restoreResults holds. It may
\* come again before the verdict, after its timer: the one that is marked
\* active refuses it then, and only the one being validated does not.
THEOREM AppliedOnce == Spec => []RestoreAppliedOnce
<1>1. (~overtaken => Inv /\ Spared) => RestoreAppliedOnce
  BY DEF Inv, Applied, RestoreAppliedOnce
<1> QED BY <1>1, Invariance, PTL

\* Every action, restore and capture the renderer waits for is answered by
\* the time nothing is under way, save an action whose target check threw;
\* only that and a sync may be left to a timer.
THEOREM EverythingAnswered == Spec => []NothingUnanswered
<1>1. (~overtaken => Inv /\ Spared) => NothingUnanswered
  <2> SUFFICES ASSUME Inv, Quiet
               PROVE  /\ runAction = None \/ runAction \in thrown
                      /\ activeRequest # None => activeRequest.kind = "state-sync"
    BY DEF NothingUnanswered
  <2>1. Answered /\ TypeOK
    BY DEF Inv, Control, Base
  <2>2. Len(toSim) = 0 /\ Len(toRen) = 0
    BY DEF Quiet
  <2>3. \A k \in Said : FALSE
    BY <2>2 DEF Said
  <2>4. \A d \in Requests : ~Open(d)
    BY <2>2 DEF Open, Called, Quiet
  <2>5. runAction = None \/ runAction \in thrown
    BY <2>1, <2>3, <2>4 DEF Answered, TypeOK, Requests
  <2>6. ~Asking("scene-restore") /\ \A c \in Captures : ~Asks("scene-capture", c)
    BY <2>1, <2>3, <2>4 DEF Answered, Requests
  <2>7. activeRequest # None => Asking("state-sync")
    BY <2>1, <2>6, Waits
  <2> QED BY <2>5, <2>7 DEF Asking
<1> QED BY <1>1, Invariance, PTL

\* When nothing is under way the baseline against which session.ts will
\* diff the next push is the scene the renderer has committed, after syncs,
\* captures and restores that timed out as well.
THEOREM BaselineCommitted == Spec => []BaselineIsCommitted
<1>1. (~overtaken => Inv /\ Spared) => BaselineIsCommitted
  <2> SUFFICES ASSUME Inv, Quiet, Free, ~syncRequired, NoFailed
               PROVE  scene.items = syncedItems
    BY DEF BaselineIsCommitted, NoFailed
  <2>1. Tracks /\ TypeOK /\ Placed
    BY DEF Inv, Control, Base
  <2>2. transaction = None /\ Settled
    BY FreeFacts
  <2>3. PICK T \in SUBSET Items : Pushed(T) /\ Leads(Shown, 0, T)
    BY <2>1, <2>2 DEF Tracks
  <2>4. \A d \in Requests : handler[d].pc # "pushed"
    BY DEF Quiet, Running
  <2>5. T = syncedItems
    BY <2>3, <2>4 DEF Pushed
  <2>6. Len(toRen) = 0
    BY DEF Quiet
  <2>7. Shown = T
    BY <2>3, <2>6 DEF Leads
  <2> QED BY <2>2, <2>5, <2>7 DEF Shown
<1> QED BY <1>1, Invariance, PTL

\* Nothing that session.ts sends is refused by the renderer's committed
\* scene, whatever else fails or times out, unless a restore has failed
\* (SceneSync_restore) or was given up before it was marked active.
THEOREM NothingRefused == Spec => [](~overtaken /\ NoFailed => NoRejectedMutation)
<1>1. (~overtaken => Inv /\ Spared) => (~overtaken /\ NoFailed => NoRejectedMutation)
  BY DEF Spared, NoRejectedMutation
<1> QED BY <1>1, Invariance, PTL
=============================================================================
