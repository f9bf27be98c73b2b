--------------------------- MODULE TaskQueue_proofs ---------------------------
(***************************************************************************)
(* What the operators of TaskQueue.tla return, whoever calls them: lemmas  *)
(* shared by the proofs about PipelineRuntime.tla and RunController.tla.   *)
(*                                                                         *)
(* Core holds between any two steps inside a call (types, the accounting   *)
(* of ids, the pending command, the deduplication entries); Busy, that     *)
(* nothing waits when something could be dispatched, is established by the *)
(* dispatch that ends a call.                                              *)
(***************************************************************************)
EXTENDS TaskQueue, WellFoundedInduction, TLAPS

InQueue(p, id) == \E t \in p.queue : t.id = id

\* Every id below "next" is live or retired, and only those.
Accounted(p, R) ==
  \A id \in TaskId : id < p.next <=> (InQueue(p, id) \/ IsActive(p, id) \/ id \in R)

\* A task is in one place only.
Disjoint(p, R) ==
  /\ \A t, u \in p.queue : t.id = u.id => t = u
  /\ \A t \in p.queue : ~IsActive(p, t.id) /\ t.id \notin R
  /\ p.active # None => p.active.id \notin R

Commands(p) ==
  p.pending = {} \/ (p.active # None /\ p.active.stage = "dispatched" /\ p.pending = {p.active.id})

OnePerKey(p) ==
  \A t \in p.queue : t.continuous => p.continuousTask[t.key] = t.id /\ t.key \in p.continuousKeys

Core(p, R) ==
  /\ p \in Pipeline /\ R \subseteq TaskId
  /\ Accounted(p, R) /\ Disjoint(p, R)
  /\ Commands(p) /\ OnePerKey(p)

\* What one call may do to the active slot: a new task enters it only at a boundary.
Gated(p, q) ==
  q.active = p.active \/ q.active = None \/ (q.sync = "idle" /\ q.holds = 0)

Busy(p) == SyncIdle(p) /\ p.holds = 0 /\ p.active = None => p.queue = {}

LEMMA FirstIsFirst ==
  ASSUME NEW p, NEW R, Core(p, R), p.queue # {}
  PROVE  First(p.queue) \in p.queue /\ \A u \in p.queue : Place(First(p.queue)) <= Place(u)
<1> DEFINE Q == p.queue
           Off(t) == Place(t) + p.next
           Offs == {Off(t) : t \in Q}
           Less == {ss \in Nat \X Nat : ss[1] < ss[2]}
<1>1. /\ \A t \in Q : t.id \in Nat /\ t.front \in BOOLEAN /\ t.id < p.next
      /\ p.next \in Nat
  BY DEF Core, Pipeline, Task, TaskId, Accounted, InQueue
<1>2. Offs \subseteq Nat /\ Offs # {} /\ \A t \in Q : Place(t) \in Int
  BY <1>1 DEF Place
<1>3. IsWellFoundedOn(Less, Nat)
  BY NatLessThanWellFounded, Zenon DEF OpToRel
<1>4. PICK m \in Offs : \A n \in Offs : <<n, m>> \notin Less
  <2> HIDE DEF Less, Offs
  <2> QED BY <1>2, <1>3, WFMin
<1>5. PICK t \in Q : m = Off(t)
  OBVIOUS
<1>6. \A u \in Q : Place(t) <= Place(u)
  <2> TAKE u \in Q
  <2>1. Off(u) \in Nat /\ Off(t) \in Nat /\ ~(Off(u) < Off(t))
    BY <1>2, <1>4, <1>5
  <2> QED BY <2>1, <1>1, <1>2
<1> QED BY <1>6 DEF First

LEMMA FirstIsQueued ==
  ASSUME NEW p, NEW R, Core(p, R), p.queue # {}
  PROVE  First(p.queue) \in p.queue
BY FirstIsFirst

-----------------------------------------------------------------------------
(* The operators of TaskQueue.tla preserve Core.                           *)

LEMMA EnqueueAtCore ==
  ASSUME NEW p, NEW R, Core(p, R), NEW key \in Keys, NEW c \in BOOLEAN, NEW f \in BOOLEAN
  PROVE  LET q == EnqueueAt(p, key, c, f) IN
           Core(q, R) /\ q.active = p.active
<1> DEFINE q == EnqueueAt(p, key, c, f)
           n == NewTask(p, key, c, f)
<1>1. p \in Pipeline /\ R \subseteq TaskId
  BY DEF Core
<1>2. CASE AlreadyQueued(p, key, c)
  <2>1. q = [p EXCEPT !.continuousKeys = @ \cup {key}]
    BY <1>2 DEF EnqueueAt
  <2> QED
    BY <1>1, <2>1 DEF Core, Pipeline, Accounted, InQueue, IsActive, Disjoint, Commands, OnePerKey
<1>3. CASE ~AlreadyQueued(p, key, c)
  <2>1. q = [p EXCEPT
              !.next = @ + 1,
              !.queue = @ \cup {n},
              !.continuousKeys = IF c THEN @ \cup {key} ELSE @,
              !.continuousTask = IF c THEN [@ EXCEPT ![key] = p.next] ELSE @]
    BY <1>3 DEF EnqueueAt
  <2>2. n \in Task /\ n.id = p.next /\ n.key = key /\ n.continuous = c
    BY <1>1 DEF NewTask, Task, Pipeline, TaskId
  <2>3. q \in Pipeline
    <3> DEFINE ct == IF c THEN [p.continuousTask EXCEPT ![key] = p.next] ELSE p.continuousTask
               ck == IF c THEN p.continuousKeys \cup {key} ELSE p.continuousKeys
               nx == p.next + 1
               qu == p.queue \cup {n}
    <3>1. ct \in [Keys -> TaskId \cup {None}] /\ ck \in SUBSET Keys
      BY <1>1 DEF Pipeline
    <3>2. nx \in TaskId
      BY <1>1 DEF Pipeline, TaskId
    <3>3. qu \in SUBSET Task
      BY <1>1, <2>2 DEF Pipeline
    <3>4. q = [p EXCEPT !.next = nx, !.queue = qu, !.continuousKeys = ck, !.continuousTask = ct]
      BY <1>1, <2>1 DEF Pipeline
    <3> HIDE DEF ct, ck, nx, qu, q, n
    <3> QED BY <1>1, <3>1, <3>2, <3>3, <3>4 DEF Pipeline
  <2>4. /\ q.next = p.next + 1 /\ q.queue = p.queue \cup {n} /\ q.active = p.active
        /\ q.pending = p.pending
        /\ q.continuousKeys = IF c THEN p.continuousKeys \cup {key} ELSE p.continuousKeys
        /\ q.continuousTask = IF c THEN [p.continuousTask EXCEPT ![key] = p.next]
                                   ELSE p.continuousTask
    BY <1>1, <2>1 DEF Pipeline
  <2>5. Accounted(q, R)
    BY <1>1, <2>2, <2>4 DEF Core, Accounted, InQueue, IsActive, Pipeline, TaskId
  <2>6. Disjoint(q, R)
    BY <1>1, <2>2, <2>4 DEF Core, Accounted, InQueue, IsActive, Disjoint, Pipeline, TaskId, Task
  <2>7. Commands(q)
    BY <2>4 DEF Core, Commands
  <2>8. OnePerKey(q)
    <3> SUFFICES ASSUME NEW t \in q.queue, t.continuous
                 PROVE  q.continuousTask[t.key] = t.id /\ t.key \in q.continuousKeys
      BY DEF OnePerKey
    <3>1. p.continuousTask \in [Keys -> TaskId \cup {None}]
      BY <1>1 DEF Pipeline
    <3>2. CASE t = n
      BY <2>2, <2>4, <3>1, <3>2
    <3>3. CASE t \in p.queue
      <4>1. t \in Task /\ p.continuousTask[t.key] = t.id /\ t.key \in p.continuousKeys
        BY <1>1, <3>3 DEF Core, OnePerKey, Pipeline
      <4>2. c => t.key # key
        BY <1>3, <4>1, NoneAssumption DEF AlreadyQueued, Task, TaskId
      <4> QED BY <2>4, <3>1, <4>1, <4>2 DEF Task
    <3> QED BY <2>4, <3>2, <3>3
  <2> QED BY <1>1, <2>3, <2>4, <2>5, <2>6, <2>7, <2>8 DEF Core
<1> QED BY <1>2, <1>3

LEMMA DispatchCore ==
  ASSUME NEW p, NEW R, Core(p, R)
  PROVE  LET q == MaybeDispatchNext(p) IN
           /\ Core(q, R) /\ Busy(q)
           /\ q.sync = p.sync /\ q.holds = p.holds
           /\ q = p \/ (p.holds = 0 /\ p.active = None)
<1> DEFINE q == MaybeDispatchNext(p)
           t == First(p.queue)
           a == [t EXCEPT !.stage = "dispatched"]
<1>1. p \in Pipeline /\ R \subseteq TaskId
  BY DEF Core
<1>2. CASE ~CanDispatch(p)
  BY <1>1, <1>2 DEF MaybeDispatchNext, CanDispatch, Busy
<1>3. CASE CanDispatch(p)
  <2>1. p.holds = 0 /\ p.active = None /\ t \in p.queue
    BY <1>3, FirstIsQueued DEF CanDispatch
  <2>2. t \in Task /\ a \in Task /\ a.id = t.id /\ a.stage = "dispatched" /\ a # None
    BY <1>1, <2>1, NoneAssumption DEF Pipeline, Task
  <2>3. q = [p EXCEPT !.queue = @ \ {t}, !.active = a, !.pending = @ \cup {t.id}]
    BY <1>3 DEF MaybeDispatchNext
  <2>4. /\ q \in Pipeline
        /\ q.next = p.next /\ q.queue = p.queue \ {t} /\ q.active = a
        /\ q.continuousKeys = p.continuousKeys /\ q.continuousTask = p.continuousTask
        /\ q.sync = p.sync /\ q.holds = p.holds
    <3>1. p.queue \ {t} \in SUBSET Task /\ p.pending \cup {t.id} \in SUBSET TaskId
      BY <1>1, <2>2 DEF Pipeline, Task
    <3> HIDE DEF q, a, t
    <3> QED BY <1>1, <2>2, <2>3, <3>1 DEF Pipeline
  <2>5. p.pending = {} /\ q.pending = {t.id}
    BY <1>1, <2>1, <2>3 DEF Core, Commands, Pipeline
  <2>6. Accounted(q, R)
    BY <1>1, <2>1, <2>2, <2>4 DEF Core, Accounted, InQueue, IsActive, Disjoint
  <2>7. Disjoint(q, R)
    BY <1>1, <2>1, <2>2, <2>4 DEF Core, IsActive, Disjoint
  <2>8. Commands(q) /\ OnePerKey(q) /\ Busy(q)
    BY <2>2, <2>4, <2>5 DEF Core, Commands, OnePerKey, Busy
  <2> QED BY <1>1, <2>1, <2>4, <2>6, <2>7, <2>8 DEF Core
<1> QED BY <1>2, <1>3

LEMMA DispatchIfIdleCore ==
  ASSUME NEW p, NEW R, Core(p, R)
  PROVE  LET q == DispatchIfIdle(p) IN
           /\ Core(q, R) /\ Busy(q)
           /\ q.sync = p.sync /\ q.holds = p.holds
           /\ Gated(p, q)
BY DispatchCore DEF DispatchIfIdle, SyncIdle, Busy, Gated

LEMMA EnqueueCore ==
  ASSUME NEW p, NEW R, Core(p, R), NEW key \in Keys, NEW c \in BOOLEAN
  PROVE  LET q == Enqueue(p, key, c) IN Core(q, R) /\ Busy(q) /\ Gated(p, q)
BY EnqueueAtCore, DispatchIfIdleCore DEF Enqueue, Gated

LEMMA EnqueueFrontCore ==
  ASSUME NEW p, NEW R, Core(p, R), NEW key \in Keys
  PROVE  LET q == EnqueueFront(p, key) IN Core(q, R) /\ Busy(q) /\ Gated(p, q)
BY EnqueueAtCore, DispatchIfIdleCore DEF EnqueueFront, Gated

LEMMA CancelKeysCore ==
  ASSUME NEW p, NEW R, Core(p, R), NEW K \in SUBSET Keys
  PROVE  LET q == CancelKeys(p, K) IN
           /\ Core(q, R \cup CancelledIds(p, K)) /\ (Busy(p) => Busy(q))
           /\ q.active = p.active
<1> DEFINE q == CancelKeys(p, K)
           S == R \cup CancelledIds(p, K)
<1>1. p \in Pipeline /\ R \subseteq TaskId
  BY DEF Core
<1>2. /\ q \in Pipeline
      /\ q.next = p.next /\ q.queue = {t \in p.queue : t.key \notin K}
      /\ q.active = p.active /\ q.pending = p.pending
      /\ q.continuousKeys = p.continuousKeys \ K
      /\ q.continuousTask = [k \in Keys |-> IF k \in K THEN None ELSE p.continuousTask[k]]
      /\ q.sync = p.sync /\ q.holds = p.holds
  BY <1>1 DEF CancelKeys, Pipeline
<1>3. \A id : id \in S <=> id \in R \/ \E t \in p.queue : t.key \in K /\ t.id = id
  BY DEF CancelledIds
<1>4. S \subseteq TaskId
  BY <1>1, <1>3 DEF Pipeline, Task
<1>5. Accounted(q, S)
  BY <1>2, <1>3 DEF Core, Accounted, InQueue, IsActive
<1>6. Disjoint(q, S)
  BY <1>2, <1>3 DEF Core, Disjoint, IsActive
<1>7. Commands(q) /\ OnePerKey(q) /\ (Busy(p) => Busy(q))
  BY <1>1, <1>2 DEF Core, Commands, OnePerKey, Busy, SyncIdle, Pipeline, Task
<1> QED BY <1>2, <1>4, <1>5, <1>6, <1>7 DEF Core

\* A task that leaves the active slot without a pending command.
LEMMA FreedCore ==
  ASSUME NEW p, NEW R, Core(p, R), p.active # None,
         NEW P \in {p.pending, p.pending \ {p.active.id}}, P = {},
         NEW C \in {p.continuousKeys, p.continuousKeys \ {p.active.key}},
         C # p.continuousKeys =>
           p.active.continuous /\ p.continuousTask[p.active.key] = p.active.id
  PROVE  LET q == [p EXCEPT !.active = None, !.pending = P,
                            !.continuousTask = ForgetContinuous(p), !.continuousKeys = C]
         IN  Core(q, R \cup {p.active.id}) /\ q.sync = p.sync /\ q.holds = p.holds
<1> DEFINE a == p.active
           q == [p EXCEPT !.active = None, !.pending = P,
                          !.continuousTask = ForgetContinuous(p), !.continuousKeys = C]
<1>1. p \in Pipeline /\ R \subseteq TaskId /\ a \in Task
  BY DEF Core, Pipeline
<1>2. ForgetContinuous(p) \in [Keys -> TaskId \cup {None}]
  BY <1>1 DEF ForgetContinuous, Pipeline
<1>3. /\ q \in Pipeline
      /\ q.next = p.next /\ q.queue = p.queue /\ q.active = None /\ q.pending = {}
      /\ q.continuousKeys = C /\ q.continuousTask = ForgetContinuous(p)
      /\ q.sync = p.sync /\ q.holds = p.holds
  BY <1>1, <1>2 DEF Pipeline
<1>4. Accounted(q, R \cup {a.id})
  BY <1>3 DEF Core, Accounted, InQueue, IsActive
<1>5. Disjoint(q, R \cup {a.id})
  BY <1>3 DEF Core, Disjoint, IsActive
<1>6. OnePerKey(q)
  <2> SUFFICES ASSUME NEW t \in p.queue, t.continuous
               PROVE  q.continuousTask[t.key] = t.id /\ t.key \in C
    BY <1>3 DEF OnePerKey
  <2>1. t \in Task /\ p.continuousTask[t.key] = t.id /\ t.key \in p.continuousKeys
    BY <1>1 DEF Core, OnePerKey, Pipeline
  <2>2. t.id # a.id
    BY DEF Core, Disjoint, IsActive
  <2> QED BY <1>1, <1>3, <2>1, <2>2 DEF ForgetContinuous, Pipeline, Task
<1> QED BY <1>1, <1>3, <1>4, <1>5, <1>6 DEF Core, Commands, Task

\* The rendered task leaves its slot, then its key may be queued again.
LEMMA MarkRenderedForm ==
  ASSUME NEW p, NEW R, Core(p, R), NEW id, CanRender(p, id)
  PROVE  \E r : /\ Core(r, R \cup {id}) /\ r.queue = p.queue /\ r.active = None
                /\ r.sync = p.sync /\ r.holds = p.holds
                /\ \/ MarkRendered(p, id) = DispatchIfIdle(r)
                   \/ \E key \in Keys : MarkRendered(p, id) = Enqueue(r, key, TRUE)
<1> DEFINE r == [p EXCEPT !.active = None, !.continuousTask = ForgetContinuous(p)]
<1>1. p \in Pipeline /\ p.active # None /\ p.active.id = id /\ p.active.key \in Keys
  BY DEF Core, CanRender, IsActive, Pipeline, Task
<1>2. p.pending = {}
  BY <1>1 DEF Core, CanRender, Commands
<1>3. r = [p EXCEPT !.active = None, !.pending = p.pending,
                    !.continuousTask = ForgetContinuous(p), !.continuousKeys = p.continuousKeys]
  BY <1>1 DEF Pipeline
<1>4. Core(r, R \cup {id}) /\ r.sync = p.sync /\ r.holds = p.holds
  BY <1>1, <1>2, <1>3, FreedCore DEF Pipeline
<1>5. r.queue = p.queue /\ r.active = None
  BY <1>1 DEF Pipeline
<1>6. MarkRendered(p, id) = DispatchIfIdle(r) \/ MarkRendered(p, id) = Enqueue(r, p.active.key, TRUE)
  BY DEF MarkRendered
<1> HIDE DEF r
<1> QED BY <1>1, <1>4, <1>5, <1>6

LEMMA MarkRenderedCore ==
  ASSUME NEW p, NEW R, Core(p, R), NEW id, CanRender(p, id)
  PROVE  LET q == MarkRendered(p, id) IN
           Core(q, R \cup {id}) /\ Busy(q) /\ Gated(p, q)
<1>1. PICK r : /\ Core(r, R \cup {id}) /\ r.queue = p.queue /\ r.active = None
               /\ r.sync = p.sync /\ r.holds = p.holds
               /\ \/ MarkRendered(p, id) = DispatchIfIdle(r)
                  \/ \E key \in Keys : MarkRendered(p, id) = Enqueue(r, key, TRUE)
  BY MarkRenderedForm
<1>2. CASE MarkRendered(p, id) = DispatchIfIdle(r)
  BY <1>1, <1>2, DispatchIfIdleCore DEF Gated
<1>3. ASSUME NEW key \in Keys, MarkRendered(p, id) = Enqueue(r, key, TRUE)
      PROVE  LET q == MarkRendered(p, id) IN Core(q, R \cup {id}) /\ Busy(q) /\ Gated(p, q)
  BY <1>1, <1>3, EnqueueCore DEF Gated
<1> QED BY <1>1, <1>2, <1>3

\* The withdrawn task leaves its slot together with its command.
LEMMA CancelPendingForm ==
  ASSUME NEW p, NEW R, Core(p, R), NEW id, CanComplete(p, id)
  PROVE  \E r : /\ Core(r, R \cup {id}) /\ r.queue = p.queue /\ r.active = None
                /\ r.sync = p.sync /\ r.holds = p.holds
                /\ CancelPendingDispatch(p, id) = DispatchIfIdle(r)
<1> DEFINE a == p.active
           owns == a.continuous /\ p.continuousTask[a.key] = id
           C == IF owns THEN p.continuousKeys \ {a.key} ELSE p.continuousKeys
           r == [p EXCEPT !.active = None, !.pending = @ \ {id},
                          !.continuousTask = ForgetContinuous(p), !.continuousKeys = C]
<1>1. p \in Pipeline /\ a # None /\ a.id = id
  BY DEF Core, CanComplete, IsActive
<1>2. p.pending \ {id} = {}
  BY <1>1 DEF Core, Commands
<1>3. r = [p EXCEPT !.active = None, !.pending = p.pending \ {id},
                    !.continuousTask = ForgetContinuous(p), !.continuousKeys = C]
  BY <1>1 DEF Pipeline
<1>4. Core(r, R \cup {id}) /\ r.active = None
  <2>1. r.active = None
    BY <1>1 DEF Pipeline
  <2> HIDE DEF r
  <2> QED BY <1>1, <1>2, <1>3, <2>1, FreedCore
<1>5. CancelPendingDispatch(p, id) = DispatchIfIdle(r)
  BY <1>1 DEF CancelPendingDispatch, Pipeline
<1>6. r.queue = p.queue /\ r.sync = p.sync /\ r.holds = p.holds
  BY <1>1 DEF Pipeline
<1> HIDE DEF r
<1> QED BY <1>4, <1>5, <1>6

LEMMA CancelPendingDispatchCore ==
  ASSUME NEW p, NEW R, Core(p, R), NEW id, CanComplete(p, id)
  PROVE  LET q == CancelPendingDispatch(p, id) IN
           Core(q, R \cup {id}) /\ Busy(q) /\ Gated(p, q)
BY CancelPendingForm, DispatchIfIdleCore DEF Gated

LEMMA StageCore ==
  ASSUME NEW p, NEW R, Core(p, R), p.active # None, p.pending = {},
         NEW stage \in {"completed", "applied"}, NEW continues \in BOOLEAN
  PROVE  LET q == [p EXCEPT !.active = [@ EXCEPT !.stage = stage, !.continues = continues]]
         IN  Core(q, R) /\ Busy(q)
<1> DEFINE a == [p.active EXCEPT !.stage = stage, !.continues = continues]
           q == [p EXCEPT !.active = a]
<1>1. p \in Pipeline /\ R \subseteq TaskId /\ p.active \in Task
  BY DEF Core, Pipeline
<1>2. a \in Task /\ a.id = p.active.id /\ a # None
  BY <1>1, NoneAssumption DEF Task
<1>3. /\ q \in Pipeline
      /\ q.next = p.next /\ q.queue = p.queue /\ q.active = a /\ q.pending = {}
      /\ q.continuousKeys = p.continuousKeys /\ q.continuousTask = p.continuousTask
  <2> HIDE DEF a
  <2> QED BY <1>1, <1>2 DEF Pipeline
<1>4. Accounted(q, R)
  BY <1>2, <1>3 DEF Core, Accounted, InQueue, IsActive
<1>5. Disjoint(q, R)
  BY <1>2, <1>3 DEF Core, Disjoint, IsActive
<1>6. Commands(q) /\ OnePerKey(q) /\ Busy(q)
  BY <1>2, <1>3 DEF Core, Commands, OnePerKey, Busy
<1> QED BY <1>1, <1>3, <1>4, <1>5, <1>6 DEF Core

\* Changes of the holds and of the sync boundary alone.
LEMMA GateCore ==
  ASSUME NEW p, NEW R, Core(p, R), NEW holds \in Nat,
         NEW sync \in {"idle", "requested", "receiving"}, NEW syncId \in SyncIds \cup {None}
  PROVE  Core([p EXCEPT !.holds = holds, !.sync = sync, !.syncId = syncId], R)
<1> DEFINE q == [p EXCEPT !.holds = holds, !.sync = sync, !.syncId = syncId]
<1>1. p \in Pipeline
  BY DEF Core
<1>2. /\ q \in Pipeline
      /\ q.next = p.next /\ q.queue = p.queue /\ q.active = p.active /\ q.pending = p.pending
      /\ q.continuousKeys = p.continuousKeys /\ q.continuousTask = p.continuousTask
  BY <1>1 DEF Pipeline
<1> QED BY <1>2 DEF Core, Accounted, InQueue, IsActive, Disjoint, Commands, OnePerKey

-----------------------------------------------------------------------------
(* The same operators as a caller sees them, without the retired ids.      *)

Sound(p) == \E R : Core(p, R)

Live(p, i) == InQueue(p, i) \/ IsActive(p, i)

LEMMA SoundFacts ==
  ASSUME NEW p, Sound(p)
  PROVE  /\ p \in Pipeline /\ p.next \in Nat /\ p.next > 0
         /\ \A t \in p.queue : t \in Task /\ t.id \in Nat /\ t.id > 0 /\ t.id < p.next
         /\ p.active # None => /\ p.active \in Task /\ p.active.id \in Nat
                               /\ p.active.id > 0 /\ p.active.id < p.next
         /\ \A t, u \in p.queue : t.id = u.id => t = u
         /\ \A t \in p.queue : ~IsActive(p, t.id)
         /\ Commands(p) /\ OnePerKey(p)
<1>1. PICK R : Core(p, R)
  BY DEF Sound
<1>2. p \in Pipeline /\ Accounted(p, R) /\ Disjoint(p, R) /\ Commands(p) /\ OnePerKey(p)
  BY <1>1 DEF Core
<1>3. p.next \in TaskId /\ p.queue \subseteq Task /\ p.active \in Task \cup {None}
  BY <1>2 DEF Pipeline
<1>4. \A t \in Task : t.id \in TaskId
  BY DEF Task
<1> QED BY <1>2, <1>3, <1>4 DEF Accounted, Disjoint, InQueue, IsActive, TaskId

\* What an attempt to dispatch does: nothing, or the first task enters the empty slot.
Moved(p, q) ==
  \/ q = p
  \/ \E t \in p.queue :
       /\ p.active = None /\ q.queue = p.queue \ {t}
       /\ q.active = [t EXCEPT !.stage = "dispatched"] /\ q.pending = {t.id}
       /\ q.next = p.next
       /\ q.continuousKeys = p.continuousKeys /\ q.continuousTask = p.continuousTask

LEMMA DispatchMoves ==
  ASSUME NEW p, NEW R, Core(p, R)
  PROVE  Moved(p, MaybeDispatchNext(p)) /\ Moved(p, DispatchIfIdle(p))
<1> DEFINE q == MaybeDispatchNext(p)
           t == First(p.queue)
           a == [t EXCEPT !.stage = "dispatched"]
           Q == p.queue \ {t}
           P == p.pending \cup {t.id}
<1>1. p \in Pipeline
  BY DEF Core
<1>2. CASE CanDispatch(p)
  <2>1. p.active = None /\ t \in p.queue /\ p.pending = {}
    BY <1>2, FirstIsQueued DEF CanDispatch, Core, Commands
  <2>2. q = [p EXCEPT !.queue = Q, !.active = a, !.pending = P]
    BY <1>1, <1>2 DEF MaybeDispatchNext, Pipeline
  <2>3. P = {t.id}
    BY <2>1
  <2>4. /\ q.queue = Q /\ q.active = a /\ q.pending = P /\ q.next = p.next
        /\ q.continuousKeys = p.continuousKeys /\ q.continuousTask = p.continuousTask
    <3> HIDE DEF q, a, Q, P
    <3> QED BY <1>1, <2>2 DEF Pipeline
  <2> QED BY <2>1, <2>3, <2>4 DEF Moved, DispatchIfIdle
<1>3. CASE ~CanDispatch(p)
  BY <1>3 DEF MaybeDispatchNext, DispatchIfIdle, Moved
<1> QED BY <1>2, <1>3

\* A call that may dispatch and add tasks, and takes none away.
Serves(p, q) ==
  /\ Sound(q) /\ p.next <= q.next
  /\ \A i : Live(p, i) => Live(q, i)
  /\ p.active # None => q.active = p.active /\ q.pending = p.pending
  /\ p.active = None => q.active = None \/ (q.active # None /\ q.pending # {})
  /\ \A i : InQueue(q, i) => InQueue(p, i) \/ i >= p.next
  /\ \A i \in q.pending \ p.pending : InQueue(p, i) \/ i >= p.next

\* A call that takes the active task "id" away and may dispatch.
Frees(p, q, id) ==
  /\ Sound(q) /\ p.next <= q.next
  /\ \A i : i # id /\ Live(p, i) => Live(q, i)
  /\ q.active = None \/ (q.active # None /\ q.pending # {})
  /\ \A i : InQueue(q, i) => InQueue(p, i) \/ i >= p.next
  /\ \A i \in q.pending : InQueue(p, i) \/ i >= p.next

LEMMA MovedServes ==
  ASSUME NEW p, Sound(p), NEW q, Sound(q), Moved(p, q)
  PROVE  Serves(p, q) /\ q.next = p.next
<1>1. CASE q = p
  BY <1>1, SoundFacts DEF Serves
<1>2. ASSUME NEW t \in p.queue,
             p.active = None, q.queue = p.queue \ {t},
             q.active = [t EXCEPT !.stage = "dispatched"], q.pending = {t.id},
             q.next = p.next
      PROVE  Serves(p, q)
  <2>1. p.next \in Nat /\ t \in Task /\ q.active \in Task /\ q.active.id = t.id
    BY <1>2, SoundFacts DEF Task
  <2>2. q.active # None
    BY <2>1, NoneAssumption
  <2> QED BY <1>2, <2>1, <2>2 DEF Serves, Live, InQueue, IsActive
<1> QED BY <1>1, <1>2 DEF Moved

LEMMA ServesTransitive ==
  ASSUME NEW p, NEW q, NEW r, Sound(p), Serves(p, q), Serves(q, r)
  PROVE  Serves(p, r)
<1>1. p.next \in Nat /\ q.next \in Nat /\ r.next \in Nat /\ Sound(q) /\ Sound(r)
  BY SoundFacts DEF Serves
<1>2. p.active = None => p.pending = {}
  BY SoundFacts DEF Commands
<1>3. \A i : InQueue(r, i) \/ i \in r.pending \/ i \in q.pending \/ InQueue(q, i) => i \in Nat
  <2>1. q.pending \subseteq Nat /\ r.pending \subseteq Nat
    BY <1>1, SoundFacts DEF Pipeline, TaskId
  <2> QED BY <1>1, <2>1, SoundFacts DEF InQueue
<1>4. \A i : InQueue(r, i) => InQueue(p, i) \/ i >= p.next
  BY <1>1, <1>3 DEF Serves
<1>5. \A i \in r.pending \ p.pending : InQueue(p, i) \/ i >= p.next
  BY <1>1, <1>3 DEF Serves
<1>6. \A i : Live(p, i) => Live(r, i)
  BY DEF Serves
<1>7. /\ p.active # None => r.active = p.active /\ r.pending = p.pending
      /\ p.active = None => r.active = None \/ (r.active # None /\ r.pending # {})
  BY DEF Serves
<1> QED BY <1>1, <1>4, <1>5, <1>6, <1>7 DEF Serves

LEMMA MoveServes ==
  ASSUME NEW p, NEW R, Core(p, R)
  PROVE  LET q == DispatchIfIdle(p) IN Sound(q) /\ Moved(p, q) /\ q.next = p.next
<1>1. Moved(p, DispatchIfIdle(p)) /\ Sound(DispatchIfIdle(p))
  BY DispatchMoves, DispatchIfIdleCore DEF Sound
<1> QED BY <1>1 DEF Moved

LEMMA EnqueueAtQueue ==
  ASSUME NEW p, Sound(p), NEW key \in Keys, NEW c \in BOOLEAN, NEW f \in BOOLEAN
  PROVE  LET q == EnqueueAt(p, key, c, f)
             n == NewTask(p, key, c, f)
         IN  \/ AlreadyQueued(p, key, c) /\ q.next = p.next /\ q.queue = p.queue
             \/ q.next = p.next + 1 /\ q.queue = p.queue \cup {n}
<1>1. p \in Pipeline
  BY SoundFacts
<1>2. CASE AlreadyQueued(p, key, c)
  <2>1. EnqueueAt(p, key, c, f) = [p EXCEPT !.continuousKeys = @ \cup {key}]
    BY <1>2 DEF EnqueueAt
  <2> QED BY <1>1, <1>2, <2>1 DEF Pipeline, AlreadyQueued
<1>3. CASE ~AlreadyQueued(p, key, c)
  <2> DEFINE n == NewTask(p, key, c, f)
             nx == p.next + 1
             qu == p.queue \cup {n}
             ck == IF c THEN p.continuousKeys \cup {key} ELSE p.continuousKeys
             ct == IF c THEN [p.continuousTask EXCEPT ![key] = p.next] ELSE p.continuousTask
  <2>1. EnqueueAt(p, key, c, f)
          = [p EXCEPT !.next = nx, !.queue = qu, !.continuousKeys = ck, !.continuousTask = ct]
    BY <1>1, <1>3 DEF EnqueueAt, Pipeline
  <2>2. LET q == EnqueueAt(p, key, c, f)
        IN  /\ q.active = p.active /\ q.pending = p.pending
            /\ q.next = nx /\ q.queue = qu /\ q.continuousKeys = ck
    <3> HIDE DEF nx, qu, ck, ct
    <3> QED BY <1>1, <2>1 DEF Pipeline
  <2> QED BY <1>3, <2>2
<1> QED BY <1>2, <1>3

LEMMA EnqueueAtFields ==
  ASSUME NEW p, Sound(p), NEW key \in Keys, NEW c \in BOOLEAN, NEW f \in BOOLEAN
  PROVE  LET q == EnqueueAt(p, key, c, f) IN
           /\ q.active = p.active /\ q.pending = p.pending
           /\ q.continuousKeys \subseteq p.continuousKeys \cup {key}
           /\ c = FALSE => q.continuousKeys = p.continuousKeys
<1>1. p \in Pipeline
  BY SoundFacts
<1>2. CASE AlreadyQueued(p, key, c)
  <2>1. EnqueueAt(p, key, c, f) = [p EXCEPT !.continuousKeys = @ \cup {key}]
    BY <1>2 DEF EnqueueAt
  <2> QED BY <1>1, <1>2, <2>1 DEF Pipeline, AlreadyQueued
<1>3. CASE ~AlreadyQueued(p, key, c)
  <2> DEFINE n == NewTask(p, key, c, f)
             nx == p.next + 1
             qu == p.queue \cup {n}
             ck == IF c THEN p.continuousKeys \cup {key} ELSE p.continuousKeys
             ct == IF c THEN [p.continuousTask EXCEPT ![key] = p.next] ELSE p.continuousTask
  <2>1. EnqueueAt(p, key, c, f)
          = [p EXCEPT !.next = nx, !.queue = qu, !.continuousKeys = ck, !.continuousTask = ct]
    BY <1>1, <1>3 DEF EnqueueAt, Pipeline
  <2>2. LET q == EnqueueAt(p, key, c, f)
        IN  /\ q.active = p.active /\ q.pending = p.pending
            /\ q.next = nx /\ q.queue = qu /\ q.continuousKeys = ck
    <3> HIDE DEF nx, qu, ck, ct
    <3> QED BY <1>1, <2>1 DEF Pipeline
  <2> QED BY <1>3, <2>2
<1> QED BY <1>2, <1>3

LEMMA EnqueueAtServes ==
  ASSUME NEW p, Sound(p), NEW key \in Keys, NEW c \in BOOLEAN, NEW f \in BOOLEAN
  PROVE  LET r == EnqueueAt(p, key, c, f)
             q == DispatchIfIdle(r)
         IN  /\ Serves(p, q) /\ q.next <= p.next + 1
             /\ Moved(r, q)
             /\ ~c => q.next = p.next + 1 /\ Live(q, p.next)
<1> DEFINE r == EnqueueAt(p, key, c, f)
           q == DispatchIfIdle(r)
           n == NewTask(p, key, c, f)
<1>1. PICK R : Core(p, R)
  BY DEF Sound
<1>2. Core(r, R)
  BY <1>1, EnqueueAtCore
<1>3. Sound(q) /\ Moved(r, q) /\ q.next = r.next
  <2> HIDE DEF r
  <2> QED BY <1>2, MoveServes
<1>4. /\ p.next \in Nat /\ p.next > 0 /\ n.id = p.next
      /\ \A t \in p.queue : t.id \in Nat
      /\ p.active = None => p.pending = {}
      /\ r.active = p.active /\ r.pending = p.pending
      /\ p.next <= r.next /\ r.next <= p.next + 1
      /\ r.queue = p.queue \/ (r.queue = p.queue \cup {n} /\ r.next = p.next + 1)
      /\ ~c => r.next = p.next + 1 /\ r.queue = p.queue \cup {n}
  <2>1. /\ p.next \in Nat /\ p.next > 0 /\ \A t \in p.queue : t.id \in Nat
        /\ p.active = None => p.pending = {}
    BY SoundFacts DEF Commands
  <2>2. n.id = p.next
    BY DEF NewTask
  <2>3. /\ r.active = p.active /\ r.pending = p.pending
        /\ \/ AlreadyQueued(p, key, c) /\ r.next = p.next /\ r.queue = p.queue
           \/ r.next = p.next + 1 /\ r.queue = p.queue \cup {n}
    <3>1. r = EnqueueAt(p, key, c, f) /\ n = NewTask(p, key, c, f)
      OBVIOUS
    <3> HIDE DEF r, n
    <3>2. r.active = p.active /\ r.pending = p.pending
      BY <3>1, EnqueueAtFields
    <3> QED BY <3>1, <3>2, EnqueueAtQueue
  <2>4. ~c => ~AlreadyQueued(p, key, c)
    BY DEF AlreadyQueued
  <2> HIDE DEF r, n
  <2> QED BY <2>1, <2>2, <2>3, <2>4
<1>5. \A i : Live(p, i) => Live(r, i)
  BY <1>4 DEF Live, InQueue, IsActive
<1>6. \A i : InQueue(r, i) => InQueue(p, i) \/ i >= p.next
  BY <1>4 DEF InQueue
<1>7. ~c => Live(r, p.next)
  BY <1>4 DEF Live, InQueue
<1> HIDE DEF r, q, n
<1>9. ASSUME NEW t \in r.queue,
             r.active = None, q.queue = r.queue \ {t},
             q.active = [t EXCEPT !.stage = "dispatched"], q.pending = {t.id}
      PROVE  /\ \A i : Live(r, i) => Live(q, i)
             /\ q.active # None
             /\ \A i \in q.pending : InQueue(r, i)
             /\ \A i : InQueue(q, i) => InQueue(r, i)
  <2>1. t \in Task /\ q.active \in Task /\ q.active.id = t.id
    BY <1>2, <1>9 DEF Core, Pipeline, Task
  <2>2. q.active # None
    BY <2>1, NoneAssumption
  <2> QED BY <1>9, <2>1, <2>2 DEF Live, InQueue, IsActive
<1>10. Serves(p, q)
  <2>1. CASE q = r
    BY <1>3, <1>4, <1>5, <1>6, <2>1 DEF Serves
  <2>2. CASE q # r
    BY <1>3, <1>4, <1>5, <1>6, <1>9, <2>2 DEF Serves, Moved
  <2> QED BY <2>1, <2>2
<1>11. ~c => Live(q, p.next)
  BY <1>3, <1>7, <1>9 DEF Moved
<1> QED BY <1>3, <1>4, <1>10, <1>11 DEF q, r

LEMMA EnqueueServes ==
  ASSUME NEW p, Sound(p), NEW key \in Keys, NEW c \in BOOLEAN
  PROVE  /\ Serves(p, Enqueue(p, key, c)) /\ Enqueue(p, key, c).next <= p.next + 1
         /\ Moved(EnqueueAt(p, key, c, FALSE), Enqueue(p, key, c))
BY EnqueueAtServes DEF Enqueue

LEMMA EnqueueFrontServes ==
  ASSUME NEW p, Sound(p), NEW key \in Keys
  PROVE  /\ Serves(p, EnqueueFront(p, key)) /\ EnqueueFront(p, key).next = p.next + 1
         /\ Live(EnqueueFront(p, key), p.next)
         /\ Moved(EnqueueAt(p, key, FALSE, TRUE), EnqueueFront(p, key))
BY EnqueueAtServes DEF EnqueueFront

LEMMA CancelKeysSound ==
  ASSUME NEW p, Sound(p), NEW K \in SUBSET Keys
  PROVE  LET q == CancelKeys(p, K) IN
           /\ Sound(q)
           /\ q.next = p.next /\ q.active = p.active /\ q.pending = p.pending
           /\ q.queue = {t \in p.queue : t.key \notin K}
           /\ q.continuousKeys = p.continuousKeys \ K
           /\ \A i : InQueue(q, i) <=> InQueue(p, i) /\ i \notin CancelledIds(p, K)
           /\ \A i \in CancelledIds(p, K) : InQueue(p, i)
<1>1. p \in Pipeline /\ \A t, u \in p.queue : t.id = u.id => t = u
  BY SoundFacts
<1> DEFINE q == CancelKeys(p, K)
<1>2. Sound(q)
  BY CancelKeysCore DEF Sound
<1>3. /\ q.next = p.next /\ q.active = p.active /\ q.pending = p.pending
      /\ q.queue = {t \in p.queue : t.key \notin K}
      /\ q.continuousKeys = p.continuousKeys \ K
  BY <1>1 DEF CancelKeys, Pipeline
<1> HIDE DEF q
<1>4. \A i : i \in CancelledIds(p, K) <=> \E t \in p.queue : t.key \in K /\ t.id = i
  BY DEF CancelledIds
<1>5. \A i : InQueue(q, i) <=> InQueue(p, i) /\ i \notin CancelledIds(p, K)
  BY <1>1, <1>3, <1>4 DEF InQueue
<1> QED BY <1>2, <1>3, <1>4, <1>5 DEF q, InQueue

-----------------------------------------------------------------------------
(* Holds and sync boundaries.                                              *)

\* Equal but for the gates.
SameTasks(p, q) ==
  /\ q.next = p.next /\ q.queue = p.queue /\ q.active = p.active /\ q.pending = p.pending
  /\ q.continuousKeys = p.continuousKeys /\ q.continuousTask = p.continuousTask

LEMMA GateMoves ==
  ASSUME NEW p, Sound(p), NEW q, Sound(q), NEW g, SameTasks(p, g), Moved(g, q)
  PROVE  Moved(p, q) \/ SameTasks(p, q)
BY DEF SameTasks, Moved

LEMMA SameTasksServes ==
  ASSUME NEW p, Sound(p), NEW q, Sound(q), SameTasks(p, q)
  PROVE  Serves(p, q) /\ q.next = p.next
<1>1. p.next \in Nat /\ (p.active = None => p.pending = {})
  BY SoundFacts DEF Commands
<1> QED BY <1>1 DEF Serves, SameTasks, Live, InQueue, IsActive

\* A call that neither adds nor removes a task.
Waits(p, q) == Sound(q) /\ (Moved(p, q) \/ SameTasks(p, q))

LEMMA WaitsServes ==
  ASSUME NEW p, Sound(p), NEW q, Waits(p, q)
  PROVE  Serves(p, q) /\ q.next = p.next
BY MovedServes, SameTasksServes DEF Waits

LEMMA GatesWait ==
  ASSUME NEW p, Sound(p), NEW g \in Pipeline, SameTasks(p, g)
  PROVE  /\ Waits(p, DispatchIfIdle(g)) /\ Waits(p, MaybeDispatchNext(g))
         /\ g.sync # "idle" \/ g.holds # 0 => Waits(p, g)
<1>1. PICK R : Core(p, R)
  BY DEF Sound
<1>2. Core(g, R)
  BY <1>1 DEF SameTasks, Core, Accounted, InQueue, IsActive, Disjoint, Commands, OnePerKey
<1>3. Moved(g, DispatchIfIdle(g)) /\ Moved(g, MaybeDispatchNext(g))
  BY <1>2, DispatchMoves
<1>4. Sound(DispatchIfIdle(g)) /\ Sound(MaybeDispatchNext(g))
  BY <1>2, DispatchIfIdleCore, DispatchCore DEF Sound
<1>5. Waits(p, DispatchIfIdle(g)) /\ Waits(p, MaybeDispatchNext(g))
  BY <1>3, <1>4, GateMoves DEF Waits
<1>6. g.sync # "idle" \/ g.holds # 0 => Waits(p, g)
  BY <1>2 DEF Waits, Sound, Busy, SyncIdle
<1> QED BY <1>5, <1>6

LEMMA GateCallsWait ==
  ASSUME NEW p, Sound(p)
  PROVE  /\ Waits(p, p) /\ Waits(p, HoldDispatch(p))
         /\ p.holds > 0 => Waits(p, ReleaseHold(p))
         /\ \A r \in SyncIds : /\ Waits(p, RequestSync(p, r)) /\ Waits(p, SyncBegin(p, r))
                               /\ Waits(p, SyncEnd(p, r)) /\ Waits(p, AbortSync(p, r))
<1>1. p \in Pipeline
  BY SoundFacts
<1>2. p.holds \in Nat
  BY <1>1 DEF Pipeline
<1>3. Waits(p, p)
  BY DEF Waits, Moved
<1>4. Waits(p, HoldDispatch(p))
  <2> DEFINE g == HoldDispatch(p)
  <2>1. g \in Pipeline /\ SameTasks(p, g) /\ g.holds # 0
    BY <1>1, <1>2 DEF HoldDispatch, Pipeline, SameTasks
  <2> HIDE DEF g
  <2>2. Waits(p, g)
    BY <2>1, GatesWait
  <2> QED BY <2>2 DEF g
<1>5. ASSUME p.holds > 0 PROVE Waits(p, ReleaseHold(p))
  <2> DEFINE g == [p EXCEPT !.holds = @ - 1]
  <2>1. g \in Pipeline /\ SameTasks(p, g)
    BY <1>1, <1>2, <1>5 DEF Pipeline, SameTasks
  <2>2. ReleaseHold(p) = DispatchIfIdle(g)
    BY DEF ReleaseHold
  <2> HIDE DEF g
  <2> QED BY <2>1, <2>2, GatesWait
<1>6. ASSUME NEW r \in SyncIds PROVE Waits(p, RequestSync(p, r))
  <2> DEFINE g == [p EXCEPT !.sync = "requested", !.syncId = r]
  <2>1. g \in Pipeline /\ SameTasks(p, g) /\ g.sync = "requested"
    BY <1>1 DEF Pipeline, SameTasks
  <2>2. RequestSync(p, r) = IF SyncIdle(p) THEN g ELSE p
    BY DEF RequestSync
  <2> HIDE DEF g
  <2> QED BY <1>3, <2>1, <2>2, GatesWait
<1>7. ASSUME NEW r \in SyncIds PROVE Waits(p, SyncBegin(p, r))
  <2> DEFINE g == [p EXCEPT !.sync = "receiving"]
  <2>1. g \in Pipeline /\ SameTasks(p, g) /\ g.sync = "receiving"
    BY <1>1 DEF Pipeline, SameTasks
  <2>2. SyncBegin(p, r) = g \/ SyncBegin(p, r) = p
    BY DEF SyncBegin
  <2> HIDE DEF g
  <2> QED BY <1>3, <2>1, <2>2, GatesWait
<1>8. Waits(p, CloseSync(p))
  <2> DEFINE g == [p EXCEPT !.sync = "idle", !.syncId = None]
  <2>1. g \in Pipeline /\ SameTasks(p, g)
    BY <1>1 DEF Pipeline, SameTasks
  <2>2. CloseSync(p) = MaybeDispatchNext(g)
    BY DEF CloseSync
  <2> HIDE DEF g
  <2> QED BY <2>1, <2>2, GatesWait
<1>9. ASSUME NEW r \in SyncIds PROVE Waits(p, SyncEnd(p, r)) /\ Waits(p, AbortSync(p, r))
  BY <1>3, <1>8 DEF SyncEnd, AbortSync
<1> QED BY <1>3, <1>4, <1>5, <1>6, <1>7, <1>9

-----------------------------------------------------------------------------
(* The active task's stages and its end.                                   *)

LEMMA StageSound ==
  ASSUME NEW p, Sound(p), NEW id, CanComplete(p, id), p.pending = {}, NEW c \in BOOLEAN
  PROVE  LET q == MarkApplied(CompleteTask(p, id, c), id) IN
           /\ Sound(q)
           /\ q.next = p.next /\ q.queue = p.queue /\ q.pending = {}
           /\ q.continuousKeys = p.continuousKeys
           /\ q.active # None /\ q.active.id = id /\ q.active.stage = "applied"
           /\ q.active.key = p.active.key /\ q.active.continuous = p.active.continuous
<1> DEFINE a == [p.active EXCEPT !.stage = "completed", !.continues = c]
           b == [p.active EXCEPT !.stage = "applied", !.continues = c]
           r == [p EXCEPT !.active = a]
           q == [p EXCEPT !.active = b]
<1>1. p \in Pipeline /\ p.active \in Task /\ p.active # None /\ p.active.id = id
  BY SoundFacts DEF CanComplete, IsActive
<1>2. /\ a \in Task /\ a.id = id /\ a.stage = "completed"
      /\ b \in Task /\ b.id = id /\ b.stage = "applied"
      /\ b.key = p.active.key /\ b.continuous = p.active.continuous
      /\ [a EXCEPT !.stage = "applied"] = b
  BY <1>1 DEF Task
<1>3. a # None /\ b # None
  BY <1>2, NoneAssumption
<1>4. CompleteTask(p, id, c) = r
  BY DEF CompleteTask
<1> HIDE DEF a, b
<1>5. r.active = a
  BY <1>1 DEF Pipeline
<1>6. MarkApplied(r, id) = [r EXCEPT !.active = [a EXCEPT !.stage = "applied"]]
  BY <1>1, <1>2, <1>3, <1>5 DEF MarkApplied, CanRender, IsActive
<1>7. MarkApplied(r, id) = q
  BY <1>1, <1>2, <1>6 DEF Pipeline
<1>8. /\ q.next = p.next /\ q.queue = p.queue /\ q.pending = {} /\ q.active = b
      /\ q.continuousKeys = p.continuousKeys
  BY <1>1 DEF Pipeline
<1>9. Sound(q)
  <2>1. PICK R : Core(p, R)
    BY DEF Sound
  <2>2. Core(q, R)
    BY <1>1, <2>1, StageCore DEF b
  <2> QED BY <2>2 DEF Sound
<1> HIDE DEF q, r
<1> QED BY <1>2, <1>3, <1>4, <1>7, <1>8, <1>9

LEMMA ConsumeSound ==
  ASSUME NEW p, Sound(p)
  PROVE  LET q == ConsumeCommands(p) IN
           /\ Sound(q) /\ q.pending = {}
           /\ q.next = p.next /\ q.queue = p.queue /\ q.active = p.active
           /\ q.continuousKeys = p.continuousKeys
<1> DEFINE q == ConsumeCommands(p)
<1>1. PICK R : Core(p, R)
  BY DEF Sound
<1>2. /\ q \in Pipeline
      /\ q.next = p.next /\ q.queue = p.queue /\ q.active = p.active /\ q.pending = {}
      /\ q.continuousKeys = p.continuousKeys /\ q.continuousTask = p.continuousTask
  BY <1>1 DEF ConsumeCommands, Pipeline, Core
<1> HIDE DEF q
<1>3. Core(q, R)
  BY <1>1, <1>2 DEF Core, Accounted, InQueue, IsActive, Disjoint, Commands, OnePerKey
<1> QED BY <1>2, <1>3 DEF Sound, q

LEMMA ResetSound ==
  ASSUME NEW p, Sound(p)
  PROVE  LET q == ResetPipeline(p) IN
           /\ Sound(q) /\ q.next = p.next /\ q.queue = {} /\ q.active = None
           /\ q.pending = {} /\ q.continuousKeys = {}
<1> DEFINE q == ResetPipeline(p)
           L == {i \in TaskId : Live(p, i)}
<1>1. PICK R : Core(p, R)
  BY DEF Sound
<1>2. /\ q \in Pipeline
      /\ q.next = p.next /\ q.queue = {} /\ q.active = None /\ q.pending = {}
      /\ q.continuousKeys = {}
  BY <1>1 DEF ResetPipeline, Pipeline, Core
<1> HIDE DEF q
<1>3. Core(q, R \cup L)
  BY <1>1, <1>2 DEF Core, Live, Accounted, InQueue, IsActive, Disjoint, Commands, OnePerKey
<1> QED BY <1>2, <1>3 DEF Sound, q

\* The pipeline without its active task, before the dispatch that follows.
Freed(p, r) ==
  /\ Sound(r) /\ r.active = None /\ r.pending = {}
  /\ r.next = p.next /\ r.queue = p.queue

LEMMA FreedServes ==
  ASSUME NEW p, Sound(p), NEW r, Freed(p, r), NEW q, Serves(r, q)
  PROVE  \A id : IsActive(p, id) => Frees(p, q, id)
BY DEF Freed, Serves, Frees, Live, InQueue, IsActive

LEMMA MarkRenderedFrees ==
  ASSUME NEW p, Sound(p), NEW id, CanRender(p, id)
  PROVE  LET q == MarkRendered(p, id) IN
           /\ Frees(p, q, id) /\ q.next <= p.next + 1
           /\ \E r : /\ Freed(p, r) /\ r.continuousKeys = p.continuousKeys
                     /\ IF ShouldContinue(p.active, p.continuousKeys)
                        THEN Moved(EnqueueAt(r, p.active.key, TRUE, FALSE), q)
                        ELSE Moved(r, q)
<1> DEFINE q == MarkRendered(p, id)
           r == [p EXCEPT !.active = None, !.continuousTask = ForgetContinuous(p)]
<1>1. PICK R : Core(p, R)
  BY DEF Sound
<1>2. /\ p \in Pipeline /\ p.active # None /\ p.active.id = id /\ p.active.key \in Keys
      /\ p.pending = {}
  BY <1>1 DEF Core, CanRender, IsActive, Pipeline, Task, Commands
<1>3. r = [p EXCEPT !.active = None, !.pending = p.pending,
                    !.continuousTask = ForgetContinuous(p), !.continuousKeys = p.continuousKeys]
  BY <1>2 DEF Pipeline
<1>4. Core(r, R \cup {id})
  <2> HIDE DEF r
  <2> QED BY <1>1, <1>2, <1>3, FreedCore
<1>5. Freed(p, r) /\ r.continuousKeys = p.continuousKeys
  <2>1. /\ r.active = None /\ r.pending = {} /\ r.next = p.next /\ r.queue = p.queue
        /\ r.continuousKeys = p.continuousKeys
    BY <1>2 DEF Pipeline
  <2> HIDE DEF r
  <2> QED BY <1>4, <2>1 DEF Freed, Sound
<1>6. IsActive(p, id) /\ p.next \in Nat
  BY <1>2, SoundFacts DEF IsActive
<1>7. CASE ShouldContinue(p.active, p.continuousKeys)
  <2>1. q = Enqueue(r, p.active.key, TRUE)
    BY <1>7 DEF MarkRendered
  <2> HIDE DEF r, q
  <2>2. /\ Serves(r, q) /\ q.next <= r.next + 1
        /\ Moved(EnqueueAt(r, p.active.key, TRUE, FALSE), q)
    BY <1>2, <1>5, <2>1, EnqueueServes DEF Freed
  <2>3. Frees(p, q, id) /\ q.next <= p.next + 1
    BY <1>5, <1>6, <2>2, FreedServes DEF Freed
  <2> QED BY <1>5, <1>7, <2>2, <2>3 DEF q
<1>8. CASE ~ShouldContinue(p.active, p.continuousKeys)
  <2>1. q = DispatchIfIdle(r)
    BY <1>8 DEF MarkRendered
  <2> HIDE DEF r, q
  <2>2. Sound(q) /\ Moved(r, q) /\ q.next = r.next
    BY <1>4, <2>1, MoveServes
  <2>3. Serves(r, q)
    BY <1>5, <2>2, MovedServes DEF Freed
  <2>4. Frees(p, q, id) /\ q.next <= p.next + 1
    BY <1>5, <1>6, <2>2, <2>3, FreedServes DEF Freed
  <2> QED BY <1>5, <1>8, <2>2, <2>4 DEF q
<1> QED BY <1>7, <1>8

LEMMA CancelPendingFrees ==
  ASSUME NEW p, Sound(p), NEW id, CanComplete(p, id)
  PROVE  LET q == CancelPendingDispatch(p, id) IN
           /\ Frees(p, q, id) /\ q.next = p.next
           /\ \E r : /\ Freed(p, r) /\ r.continuousKeys \subseteq p.continuousKeys
                     /\ Moved(r, q)
<1> DEFINE a == p.active
           owns == a.continuous /\ p.continuousTask[a.key] = id
           C == IF owns THEN p.continuousKeys \ {a.key} ELSE p.continuousKeys
           q == CancelPendingDispatch(p, id)
           r == [p EXCEPT !.active = None, !.pending = p.pending \ {id},
                          !.continuousTask = ForgetContinuous(p), !.continuousKeys = C]
<1>1. PICK R : Core(p, R)
  BY DEF Sound
<1>2. p \in Pipeline /\ a # None /\ a.id = id /\ p.pending \ {id} = {}
  BY <1>1 DEF Core, CanComplete, IsActive, Commands
<1>3. Core(r, R \cup {id})
  BY <1>1, <1>2, FreedCore
<1>4. q = DispatchIfIdle(r)
  BY <1>2 DEF CancelPendingDispatch, Pipeline
<1>5. Freed(p, r) /\ r.continuousKeys \subseteq p.continuousKeys
  <2>1. /\ r.active = None /\ r.pending = {} /\ r.next = p.next /\ r.queue = p.queue
        /\ r.continuousKeys = C
    <3> HIDE DEF C
    <3> QED BY <1>2 DEF Pipeline
  <2>2. C \subseteq p.continuousKeys
    OBVIOUS
  <2> HIDE DEF r, C
  <2> QED BY <1>3, <2>1, <2>2 DEF Freed, Sound
<1> HIDE DEF r, q
<1>6. Sound(q) /\ Moved(r, q) /\ q.next = r.next
  BY <1>3, <1>4, MoveServes
<1>7. Serves(r, q) /\ IsActive(p, id)
  BY <1>2, <1>5, <1>6, MovedServes DEF Freed, IsActive
<1>8. Frees(p, q, id) /\ q.next = p.next
  BY <1>5, <1>6, <1>7, FreedServes DEF Freed
<1> QED BY <1>5, <1>6, <1>8 DEF q

-----------------------------------------------------------------------------
(* Continuous tasks, when a client repeats one action at a time.           *)

\* Only k is repeated, and by one task at a time.
Tuned(p, k) ==
  /\ \A t \in p.queue : t.continuous => t.key = k
  /\ p.continuousKeys \subseteq {k}
  /\ p.active # None /\ p.active.continuous =>
       p.active.key = k /\ \A t \in p.queue : ~t.continuous

\* Nothing is going to be repeated.
Silent(p) == (\A t \in p.queue : ~t.continuous) /\ p.continuousKeys = {}

Ticking(p) ==
  (\A t \in p.queue : t.continuous) /\ (p.active # None => p.active.continuous)

\* No continuous task becomes active.
NoNewTick(p, q) ==
  q.active # None /\ q.active.continuous =>
    p.active # None /\ p.active.continuous /\ p.active.id = q.active.id

\* Every property of continuous tasks that a call may preserve.
Tempered(p, q) ==
  /\ \A k \in Keys : Tuned(p, k) => Tuned(q, k)
  /\ Silent(p) => Silent(q) /\ NoNewTick(p, q)

LEMMA SameTasksTempered ==
  ASSUME NEW p, NEW q, q.queue = p.queue, q.active = p.active,
         q.continuousKeys = p.continuousKeys
  PROVE  Tempered(p, q) /\ (Ticking(p) => Ticking(q)) /\ NoNewTick(p, q)
BY DEF Tempered, Tuned, Silent, Ticking, NoNewTick

LEMMA MovedTempered ==
  ASSUME NEW p, Sound(p), NEW q, Moved(p, q)
  PROVE  /\ Tempered(p, q) /\ (Ticking(p) => Ticking(q))
         /\ (\A t \in p.queue : ~t.continuous) => NoNewTick(p, q)
<1>1. CASE q = p
  BY <1>1 DEF Tempered, NoNewTick
<1>2. ASSUME NEW t \in p.queue, p.active = None, q.queue = p.queue \ {t},
             q.active = [t EXCEPT !.stage = "dispatched"],
             q.continuousKeys = p.continuousKeys
      PROVE  /\ Tempered(p, q) /\ (Ticking(p) => Ticking(q))
             /\ (\A u \in p.queue : ~u.continuous) => NoNewTick(p, q)
  <2>1. t \in Task /\ OnePerKey(p) /\ \A u, v \in p.queue : u.id = v.id => u = v
    BY SoundFacts
  <2>2. q.active.key = t.key /\ q.active.continuous = t.continuous
    BY <1>2, <2>1 DEF Task
  <2>3. ASSUME NEW k \in Keys, Tuned(p, k) PROVE Tuned(q, k)
    <3>1. ASSUME NEW u \in p.queue, u.continuous, t.continuous PROVE u = t
      BY <2>1, <2>3, <3>1 DEF Tuned, OnePerKey
    <3> QED BY <1>2, <2>2, <2>3, <3>1 DEF Tuned
  <2>4. (\A u \in p.queue : ~u.continuous) => NoNewTick(p, q)
    BY <2>2 DEF NoNewTick
  <2>5. Silent(p) => Silent(q)
    BY <1>2 DEF Silent
  <2>6. Ticking(p) => Ticking(q)
    BY <1>2, <2>2 DEF Ticking
  <2> QED BY <2>3, <2>4, <2>5, <2>6 DEF Tempered, Silent
<1> QED BY <1>1, <1>2 DEF Moved

LEMMA WaitsTempered ==
  ASSUME NEW p, Sound(p), NEW q, Waits(p, q)
  PROVE  Tempered(p, q) /\ (Ticking(p) => Ticking(q))
BY MovedTempered, SameTasksTempered DEF Waits, SameTasks

LEMMA EnqueueAtSound ==
  ASSUME NEW p, Sound(p), NEW key \in Keys, NEW c \in BOOLEAN, NEW f \in BOOLEAN
  PROVE  Sound(EnqueueAt(p, key, c, f))
BY EnqueueAtCore DEF Sound

LEMMA OneShotTempered ==
  ASSUME NEW p, Sound(p), NEW key \in Keys, NEW f \in BOOLEAN,
         NEW q, Moved(EnqueueAt(p, key, FALSE, f), q)
  PROVE  Tempered(p, q)
<1> DEFINE r == EnqueueAt(p, key, FALSE, f)
           n == NewTask(p, key, FALSE, f)
<1>1. Sound(r) /\ r.active = p.active /\ r.continuousKeys = p.continuousKeys
  BY EnqueueAtSound, EnqueueAtFields
<1>2. r.queue = p.queue \/ r.queue = p.queue \cup {n}
  BY EnqueueAtQueue
<1>3. n.continuous = FALSE
  BY DEF NewTask
<1> HIDE DEF r, n
<1>4. \A t \in r.queue : t \in p.queue \/ ~t.continuous
  BY <1>2, <1>3
<1>5. p.queue \subseteq r.queue
  BY <1>2
<1>6. Tempered(p, r)
  BY <1>1, <1>4, <1>5 DEF Tempered, Tuned, Silent, NoNewTick
<1>7. Tempered(r, q)
  BY <1>1, MovedTempered DEF r
<1> QED BY <1>1, <1>6, <1>7 DEF Tempered, NoNewTick

LEMMA TickTempered ==
  ASSUME NEW p, Sound(p), p.active = None, NEW k \in Keys, Tuned(p, k),
         NEW q, Moved(EnqueueAt(p, k, TRUE, FALSE), q)
  PROVE  Tuned(q, k) /\ (Ticking(p) => Ticking(q))
<1> DEFINE r == EnqueueAt(p, k, TRUE, FALSE)
           n == NewTask(p, k, TRUE, FALSE)
<1>1. Sound(r) /\ r.active = p.active /\ r.continuousKeys \subseteq p.continuousKeys \cup {k}
  BY EnqueueAtSound, EnqueueAtFields
<1>2. r.queue = p.queue \/ r.queue = p.queue \cup {n}
  BY EnqueueAtQueue
<1>3. n.continuous = TRUE /\ n.key = k
  BY DEF NewTask
<1> HIDE DEF r, n
<1>4. Tuned(r, k) /\ (Ticking(p) => Ticking(r))
  BY <1>1, <1>2, <1>3 DEF Tuned, Ticking
<1>5. (Tuned(r, k) => Tuned(q, k)) /\ (Ticking(r) => Ticking(q))
  BY <1>1, MovedTempered DEF Tempered, r
<1> QED BY <1>4, <1>5

LEMMA CancelTempered ==
  ASSUME NEW p, Sound(p), NEW K \in SUBSET Keys
  PROVE  LET q == CancelKeys(p, K) IN
           /\ Tempered(p, q) /\ (Ticking(p) => Ticking(q)) /\ NoNewTick(p, q)
           /\ \A k \in K : Tuned(p, k) => Silent(q)
BY CancelKeysSound DEF Tempered, Tuned, Silent, Ticking, NoNewTick

LEMMA MarkRenderedTempered ==
  ASSUME NEW p, Sound(p), NEW id, CanRender(p, id)
  PROVE  LET q == MarkRendered(p, id) IN
           Tempered(p, q) /\ (Ticking(p) => \A k \in Keys : Tuned(p, k) => Ticking(q))
<1> DEFINE q == MarkRendered(p, id)
           again == ShouldContinue(p.active, p.continuousKeys)
<1>1. PICK r : /\ Freed(p, r) /\ r.continuousKeys = p.continuousKeys
               /\ IF again THEN Moved(EnqueueAt(r, p.active.key, TRUE, FALSE), q)
                  ELSE Moved(r, q)
  BY MarkRenderedFrees
<1>2. p.active # None /\ p.active \in Task
  BY SoundFacts DEF CanRender, IsActive
<1>3. Tempered(p, r) /\ (Ticking(p) => Ticking(r)) /\ Sound(r) /\ r.active = None
  BY <1>1 DEF Freed, Tempered, Tuned, Silent, Ticking, NoNewTick
<1> HIDE DEF q
<1>4. CASE again
  <2>1. p.active.key \in Keys /\ p.active.continuous /\ p.active.key \in p.continuousKeys
    BY <1>2, <1>4 DEF ShouldContinue, Task
  <2>2. ASSUME NEW k \in Keys, Tuned(p, k) PROVE Tuned(q, k) /\ (Ticking(p) => Ticking(q))
    <3>1. k = p.active.key /\ Tuned(r, k)
      BY <1>3, <2>1, <2>2 DEF Tuned, Tempered
    <3>2. Moved(EnqueueAt(r, k, TRUE, FALSE), q)
      BY <1>1, <1>4, <3>1
    <3> QED BY <1>3, <3>1, <3>2, TickTempered
  <2>3. ~Silent(p)
    BY <2>1 DEF Silent
  <2> QED BY <2>2, <2>3 DEF Tempered, q
<1>5. CASE ~again
  <2>1. Moved(r, q)
    BY <1>1, <1>5
  <2>2. Tempered(r, q) /\ (Ticking(r) => Ticking(q))
    BY <1>3, <2>1, MovedTempered
  <2> QED BY <1>3, <2>2 DEF Tempered, NoNewTick, q
<1> QED BY <1>4, <1>5

LEMMA CancelPendingTempered ==
  ASSUME NEW p, Sound(p), NEW id, CanComplete(p, id)
  PROVE  LET q == CancelPendingDispatch(p, id) IN
           /\ Tempered(p, q) /\ (Ticking(p) => Ticking(q))
           /\ \A k \in Keys : Tuned(p, k) /\ p.active.continuous =>
                q.active = None \/ ~q.active.continuous
<1> DEFINE q == CancelPendingDispatch(p, id)
<1>1. PICK r : Freed(p, r) /\ r.continuousKeys \subseteq p.continuousKeys /\ Moved(r, q)
  BY CancelPendingFrees
<1>2. p.active # None
  BY DEF CanComplete, IsActive
<1>3. Tempered(p, r) /\ (Ticking(p) => Ticking(r)) /\ Sound(r) /\ r.active = None
  BY <1>1 DEF Freed, Tempered, Tuned, Silent, Ticking, NoNewTick
<1> HIDE DEF q
<1>4. /\ Tempered(r, q) /\ (Ticking(r) => Ticking(q))
      /\ (\A t \in r.queue : ~t.continuous) => NoNewTick(r, q)
  BY <1>1, <1>3, MovedTempered
<1>5. Tempered(p, q) /\ (Ticking(p) => Ticking(q))
  BY <1>3, <1>4 DEF Tempered, NoNewTick
<1>6. ASSUME NEW k \in Keys, Tuned(p, k), p.active.continuous
      PROVE  q.active = None \/ ~q.active.continuous
  <2>1. \A t \in r.queue : ~t.continuous
    BY <1>1, <1>2, <1>6 DEF Freed, Tuned
  <2> QED BY <1>3, <1>4, <2>1 DEF NoNewTick
<1> QED BY <1>5, <1>6 DEF q

=============================================================================
