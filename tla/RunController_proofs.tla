------------------------- MODULE RunController_proofs -------------------------
(***************************************************************************)
(* The invariants of RunController.tla, for every set of actions, every    *)
(* bound and every outcome of the sends.                                   *)
(*                                                                         *)
(* A public method composes the private operators of RunController.tla, so *)
(* the invariant is stated on the control record and holds between any two *)
(* of its steps (Good), with two parts that a method breaks and restores:  *)
(* the counters of a running run (OnTrack), and the place of its           *)
(* continuous task (Tidy).  Each operator has a lemma about the record it  *)
(* returns; Follows relates that record to the one it got.                 *)
(***************************************************************************)
EXTENDS RunController, TaskQueue_proofs

Control ==
  [pipe: Pipeline, run: Run, owner: [TaskIds -> Owner \cup {None}], timer: Timer,
   deadline: BOOLEAN, lifecycle: BOOLEAN, sent: SUBSET TaskIds,
   hooked: SUBSET (0 .. MaxRuns), threw: BOOLEAN]

Typed(c) == c \in Control /\ Sound(c.pipe) /\ c.pipe.next <= MaxTasks + 1

By(c, i, source) == c.owner[i] # None /\ c.owner[i].source = source

\* The active task was sent and is waiting for its result ...
InFlight(p) == p.active # None /\ p.active.stage = "dispatched" /\ p.pending = {}

\* ... and the run counts it.
Waiting(c) == InFlight(c.pipe) /\ By(c, c.pipe.active.id, "action")

\* A queued task and one with a command were not sent yet.
Sends(c) ==
  /\ \A i \in c.sent : i < c.pipe.next /\ ~InQueue(c.pipe, i) /\ i \notin c.pipe.pending
  /\ c.pipe.active # None /\ c.pipe.pending = {} => c.pipe.active.id \in c.sent

\* An owned task is live and of the current run; the run owns a tick from its send to its
\* rendering, and a stop hook once it stopped.
Owns(c) ==
  \A i \in TaskIds : c.owner[i] # None =>
    /\ c.owner[i].run = c.run.id /\ ~c.run.settled /\ Live(c.pipe, i)
    /\ c.owner[i].source = "action" => IsActive(c.pipe, i) /\ c.pipe.pending = {}
    /\ c.owner[i].source = "lifecycle" => ~Running(c)

OneHook(c) ==
  /\ \A i, j \in TaskIds : By(c, i, "lifecycle") /\ By(c, j, "lifecycle") => i = j
  /\ \A i \in TaskIds : By(c, i, "lifecycle") /\ c.run.id \in c.hooked => i \in c.sent
  /\ \A h \in c.hooked : h <= c.run.id
  /\ Running(c) => c.run.id \notin c.hooked

Timed(c) == (c.deadline => Running(c)) /\ (Running(c) => ~c.run.settled)

Counted(c) ==
  /\ c.run.completed <= c.run.dispatched /\ c.run.dispatched <= c.run.completed + 1
  /\ Waiting(c) => c.run.dispatched = c.run.completed + 1
  /\ c.run.stateKnown => (c.run.dispatched = c.run.completed + 1 <=> Waiting(c))
  /\ c.run.quota # 0 => c.run.dispatched <= c.run.quota

Covered(c) ==
  InFlight(c.pipe) => c.timer.armed /\ c.timer.task = c.pipe.active.id

Bracketed(c) ==
  c.lifecycle <=> InFlight(c.pipe) /\ c.pipe.active.key = ResetKey

Good(c) ==
  /\ Typed(c) /\ Sends(c) /\ Owns(c) /\ OneHook(c) /\ Timed(c)
  /\ Counted(c) /\ Covered(c) /\ Bracketed(c)

OnTrack(c) ==
  Running(c) =>
    /\ c.run.dispatched = c.run.completed + 1 <=> Waiting(c)
    /\ c.run.quota # 0 => c.run.completed < c.run.quota

\* What no call may do but the start of a new run: a run that is over stays over, and owns
\* no task as a stop hook that it did not own.
Follows(c, d) ==
  /\ d.run.id = c.run.id
  /\ ~Running(c) => /\ ~Running(d)
                    /\ \A i \in TaskIds : By(d, i, "lifecycle") => By(c, i, "lifecycle")
  /\ c.run.settled => /\ d.run.settled /\ d.run.reasons = c.run.reasons
                      /\ d.run.state = c.run.state
                      /\ d.run.completed = c.run.completed
                      /\ d.run.dispatched = c.run.dispatched
  /\ d.run.stateKnown => c.run.stateKnown

\* The run was stopped, paused or asked to pause: none of its ticks may start any more.
Over(c) == ~Running(c) \/ c.run.pauseRequested

\* Only the run repeats an action, one tick at a time, and it owns the tick in flight.
Paced(c) ==
  /\ Tuned(c.pipe, c.run.key)
  /\ InFlight(c.pipe) /\ c.pipe.active.continuous => By(c, c.pipe.active.id, "action")

\* No command of a tick is waiting to be sent.
Calm(c) == c.pipe.pending # {} => ~c.pipe.active.continuous

\* A run that is over has nothing to repeat, one that is not has the pipeline to itself.
Tidy(c) ==
  /\ Paced(c)
  /\ Over(c) => Silent(c.pipe) /\ Calm(c)
  /\ ~Over(c) => Ticking(c.pipe)

\* Once it is over it stays so, and no tick becomes active.
Hush(c, d) == Over(c) => Over(d) /\ NoNewTick(c.pipe, d.pipe)

LEMMA HushTransitive ==
  ASSUME NEW c, NEW d, NEW e, Hush(c, d), Hush(d, e)
  PROVE  Hush(c, e)
BY DEF Hush, NoNewTick

LEMMA FollowsTransitive ==
  ASSUME NEW c, NEW d, NEW e, Follows(c, d), Follows(d, e)
  PROVE  Follows(c, e)
BY DEF Follows

LEMMA FollowsReflexive ==
  ASSUME NEW c
  PROVE  Follows(c, c)
BY DEF Follows

LEMMA ControlFields ==
  ASSUME NEW c, Typed(c)
  PROVE  /\ c.pipe \in Pipeline /\ Sound(c.pipe) /\ c.run \in Run
         /\ c.owner \in [TaskIds -> Owner \cup {None}] /\ c.timer \in Timer
         /\ c.deadline \in BOOLEAN /\ c.lifecycle \in BOOLEAN
         /\ c.sent \subseteq TaskIds /\ c.hooked \subseteq 0 .. MaxRuns
         /\ c.threw \in BOOLEAN /\ c.pipe.next <= MaxTasks + 1
         /\ \A i \in Nat : i > 0 /\ i < c.pipe.next => i \in TaskIds
<1>1. c.pipe.next \in Nat /\ MaxTasks \in Nat
  BY SoundFacts, BoundsAssumption DEF Typed
<1>2. \A i \in Nat : i > 0 /\ i < c.pipe.next => i \in TaskIds
  BY <1>1 DEF Typed, TaskIds
<1> QED BY <1>2 DEF Typed, Control

-----------------------------------------------------------------------------
(* Calls of the pipeline.                                                  *)

LEMMA ServedGood ==
  ASSUME NEW c, Good(c), NEW q, Serves(c.pipe, q), q.next <= MaxTasks + 1
  PROVE  LET d == [c EXCEPT !.pipe = q] IN
           /\ Good(d) /\ (OnTrack(c) => OnTrack(d)) /\ Follows(c, d)
<1> DEFINE d == [c EXCEPT !.pipe = q]
           p == c.pipe
<1>1. Sound(p) /\ Sound(q) /\ q \in Pipeline /\ c \in Control
  BY SoundFacts DEF Good, Typed, Serves
<1>2. /\ d \in Control /\ d.pipe = q /\ d.run = c.run /\ d.owner = c.owner
      /\ d.timer = c.timer /\ d.deadline = c.deadline /\ d.lifecycle = c.lifecycle
      /\ d.sent = c.sent /\ d.hooked = c.hooked
  BY <1>1 DEF Control
<1> HIDE DEF d
<1>3. Typed(d)
  BY <1>1, <1>2 DEF Typed
<1>4. /\ p.active # None => q.active = p.active /\ q.pending = p.pending
      /\ p.active = None => q.active = None \/ (q.active # None /\ q.pending # {})
      /\ \A i : Live(p, i) => Live(q, i)
      /\ p.next <= q.next /\ p.next \in Nat /\ q.next \in Nat
  BY <1>1, SoundFacts DEF Serves
<1>5. Sends(d)
  <2>1. \A i \in c.sent : i \in Nat
    BY ControlFields DEF Good, TaskIds
  <2>2. \A i \in c.sent : i < q.next /\ ~InQueue(q, i) /\ i \notin q.pending
    BY <1>4, <2>1 DEF Good, Sends, Serves
  <2> QED BY <1>2, <1>4, <2>2 DEF Good, Sends
<1>6. InFlight(q) <=> InFlight(p)
  BY <1>4 DEF InFlight
<1>7. InFlight(p) => q.active = p.active
  BY <1>4 DEF InFlight
<1>8. \A i : IsActive(p, i) => IsActive(q, i) /\ q.pending = p.pending
  BY <1>4 DEF IsActive
<1>9. Owns(d)
  BY <1>2, <1>4, <1>8 DEF Good, Owns, Running
<1>10. OneHook(d) /\ Timed(d)
  BY <1>2 DEF Good, OneHook, Timed, Running, By
<1>11. Waiting(d) <=> Waiting(c)
  BY <1>2, <1>6, <1>7 DEF Waiting, By
<1>12. Counted(d) /\ (OnTrack(c) => OnTrack(d))
  BY <1>2, <1>11 DEF Good, Counted, OnTrack, Running
<1>13. Covered(d) /\ Bracketed(d)
  BY <1>2, <1>6, <1>7 DEF Good, Covered, Bracketed
<1>14. Follows(c, d)
  BY <1>2 DEF Follows, Running, By
<1> QED BY <1>3, <1>5, <1>9, <1>10, <1>12, <1>13, <1>14 DEF Good, d

LEMMA CancelTasksGood ==
  ASSUME NEW c, Good(c), NEW K \in SUBSET Keys
  PROVE  LET d == CancelTasks(c, K) IN
           /\ Good(d) /\ (OnTrack(c) => OnTrack(d)) /\ Follows(c, d)
           /\ d.pipe = CancelKeys(c.pipe, K) /\ d.run = c.run /\ d.sent = c.sent
           /\ d.hooked = c.hooked /\ d.timer = c.timer /\ d.threw = c.threw
           /\ d.deadline = c.deadline
           /\ \A i \in TaskIds : IsActive(c.pipe, i) => d.owner[i] = c.owner[i]
<1> DEFINE d == CancelTasks(c, K)
           p == c.pipe
           q == CancelKeys(p, K)
           gone == CancelledIds(p, K)
           own == [i \in TaskIds |-> IF i \in gone THEN None ELSE c.owner[i]]
<1>1. Sound(p) /\ c \in Control
  BY DEF Good, Typed
<1>2. /\ Sound(q) /\ q.next = p.next /\ q.active = p.active /\ q.pending = p.pending
      /\ \A i : InQueue(q, i) <=> InQueue(p, i) /\ i \notin gone
      /\ \A i \in gone : InQueue(p, i)
  BY <1>1, CancelKeysSound
<1>3. q \in Pipeline /\ own \in [TaskIds -> Owner \cup {None}]
  BY <1>1, <1>2, SoundFacts DEF Control
<1>4. d = [c EXCEPT !.pipe = q, !.owner = own]
  BY DEF CancelTasks
<1>5. /\ d \in Control /\ d.pipe = q /\ d.run = c.run /\ d.owner = own
      /\ d.timer = c.timer /\ d.deadline = c.deadline /\ d.lifecycle = c.lifecycle
      /\ d.sent = c.sent /\ d.hooked = c.hooked /\ d.threw = c.threw
  <2> HIDE DEF d, q, own
  <2> QED BY <1>1, <1>3, <1>4 DEF Control
<1>6. \A i \in TaskIds : d.owner[i] = IF i \in gone THEN None ELSE c.owner[i]
  BY <1>5
<1>7. \A i : IsActive(p, i) => i \notin gone
  BY <1>1, <1>2, SoundFacts DEF InQueue
<1> HIDE DEF d, q, gone, own
<1>8. Typed(d)
  BY <1>2, <1>5 DEF Good, Typed
<1>9. Sends(d)
  BY <1>2, <1>5 DEF Good, Sends
<1>10. Owns(d)
  BY <1>2, <1>5, <1>6 DEF Good, Owns, Running, Live, IsActive
<1>11. \A i \in TaskIds, x \in {"action", "lifecycle"} : By(d, i, x) => By(c, i, x)
  BY <1>6 DEF By
<1>12. OneHook(d) /\ Timed(d)
  BY <1>5, <1>11 DEF Good, OneHook, Timed, Running
<1>13. (InFlight(q) <=> InFlight(p)) /\ q.active = p.active
  BY <1>2 DEF InFlight
<1>14. Waiting(d) <=> Waiting(c)
  <2>1. InFlight(p) => p.active.id \in TaskIds /\ IsActive(p, p.active.id)
    BY <1>1, SoundFacts, ControlFields DEF InFlight, IsActive, Good
  <2> QED BY <1>5, <1>6, <1>7, <1>13, <2>1 DEF Waiting, By
<1>15. Counted(d) /\ (OnTrack(c) => OnTrack(d))
  BY <1>5, <1>14 DEF Good, Counted, OnTrack, Running
<1>16. Covered(d) /\ Bracketed(d)
  BY <1>5, <1>13 DEF Good, Covered, Bracketed
<1>17. Follows(c, d)
  BY <1>5, <1>11 DEF Follows, Running
<1>18. \A i \in TaskIds : IsActive(p, i) => d.owner[i] = c.owner[i]
  BY <1>6, <1>7
<1> QED
  BY <1>5, <1>8, <1>9, <1>10, <1>12, <1>15, <1>16, <1>17, <1>18 DEF Good, d, q

-----------------------------------------------------------------------------
(* finish and maybeSettle.                                                 *)

\* Updates of the run alone that keep its identity, its counters and whether it runs.
LEMMA RunGood ==
  ASSUME NEW c, Good(c), NEW r \in Run, NEW t \in Timer,
         r.id = c.run.id, r.key = c.run.key, r.quota = c.run.quota, r.state = c.run.state,
         r.dispatched = c.run.dispatched, r.completed = c.run.completed,
         r.stateKnown => c.run.stateKnown,
         c.run.settled => r.settled /\ r.reasons = c.run.reasons,
         r.settled => ~Running(c) /\ \A i \in TaskIds : c.owner[i] = None,
         InFlight(c.pipe) => t.armed /\ t.task = c.pipe.active.id
  PROVE  LET d == [c EXCEPT !.run = r, !.timer = t] IN
           Good(d) /\ (OnTrack(c) => OnTrack(d)) /\ Follows(c, d)
<1> DEFINE d == [c EXCEPT !.run = r, !.timer = t]
<1>1. c \in Control
  BY DEF Good, Typed
<1>2. /\ d \in Control /\ d.pipe = c.pipe /\ d.run = r /\ d.owner = c.owner
      /\ d.timer = t /\ d.deadline = c.deadline /\ d.lifecycle = c.lifecycle
      /\ d.sent = c.sent /\ d.hooked = c.hooked
  BY <1>1 DEF Control
<1> HIDE DEF d
<1>3. Typed(d) /\ Sends(d)
  BY <1>2 DEF Good, Typed, Sends
<1>4. Owns(d)
  BY <1>2 DEF Good, Owns, Running
<1>5. OneHook(d) /\ Timed(d)
  BY <1>2 DEF Good, OneHook, Timed, Running, By
<1>6. Waiting(d) <=> Waiting(c)
  BY <1>2 DEF Waiting, By
<1>7. Counted(d) /\ (OnTrack(c) => OnTrack(d))
  BY <1>2, <1>6 DEF Good, Counted, OnTrack, Running
<1>8. Covered(d) /\ Bracketed(d)
  BY <1>2 DEF Good, Covered, Bracketed
<1>9. Follows(c, d)
  BY <1>2 DEF Follows, Running, By
<1> QED BY <1>3, <1>4, <1>5, <1>7, <1>8, <1>9 DEF Good, d

LEMMA AddReasonGood ==
  ASSUME NEW c, Good(c), NEW reason \in Reasons
  PROVE  LET d == AddReason(c, reason) IN
           /\ Good(d) /\ (OnTrack(c) => OnTrack(d)) /\ Follows(c, d)
           /\ d.pipe = c.pipe /\ d.run.key = c.run.key /\ d.run.state = c.run.state
           /\ d.run.pauseRequested = c.run.pauseRequested /\ d.owner = c.owner
           /\ d.run.settled = c.run.settled /\ d.sent = c.sent
<1>1. c \in Control /\ c.run \in Run /\ c.timer \in Timer
  BY ControlFields DEF Good, Typed
<1>2. CASE c.run.settled
  BY <1>2, FollowsReflexive DEF AddReason
<1>3. CASE ~c.run.settled
  <2> DEFINE r == [c.run EXCEPT !.reasons = @ \cup {reason}]
  <2>1. AddReason(c, reason) = [c EXCEPT !.run = r, !.timer = c.timer]
    BY <1>1, <1>3 DEF AddReason, Control
  <2>2. /\ r \in Run
        /\ r.id = c.run.id /\ r.key = c.run.key /\ r.quota = c.run.quota
        /\ r.state = c.run.state /\ r.pauseRequested = c.run.pauseRequested
        /\ r.dispatched = c.run.dispatched /\ r.completed = c.run.completed
        /\ r.stateKnown = c.run.stateKnown /\ r.settled = c.run.settled
    BY <1>1 DEF Run
  <2> DEFINE d == [c EXCEPT !.run = r, !.timer = c.timer]
  <2> HIDE DEF r
  <2>3. Good(d) /\ (OnTrack(c) => OnTrack(d)) /\ Follows(c, d)
    BY <1>1, <1>3, <2>2, RunGood DEF Good, Covered
  <2>4. d.pipe = c.pipe /\ d.run = r /\ d.owner = c.owner /\ d.sent = c.sent
    BY <1>1 DEF Control
  <2> QED BY <2>1, <2>2, <2>3, <2>4
<1> QED BY <1>2, <1>3

LEMMA MaybeSettleGood ==
  ASSUME NEW c, Good(c)
  PROVE  LET d == MaybeSettle(c) IN
           /\ Good(d) /\ (OnTrack(c) => OnTrack(d)) /\ Follows(c, d)
           /\ d.pipe = c.pipe /\ d.run.key = c.run.key /\ d.run.state = c.run.state
           /\ d.run.pauseRequested = c.run.pauseRequested /\ d.owner = c.owner
           /\ d.sent = c.sent
<1>1. /\ c \in Control /\ c.run \in Run /\ c.timer \in Timer
      /\ c.owner \in [TaskIds -> Owner \cup {None}]
  BY ControlFields DEF Good, Typed
<1> DEFINE stays == \/ Running(c) \/ c.run.settled \/ \E i \in TaskIds : OwnedByRun(c, i)
<1>2. CASE stays
  <2>1. MaybeSettle(c) = c
    BY <1>2 DEF MaybeSettle
  <2> QED BY <2>1, FollowsReflexive
<1>3. CASE ~stays
  <2> DEFINE r == [c.run EXCEPT !.settled = TRUE]
             t == IF c.pipe.active = None THEN NoTimer ELSE c.timer
  <2>1. MaybeSettle(c) = [c EXCEPT !.run = r, !.timer = t]
    BY <1>1, <1>3 DEF MaybeSettle, Control
  <2>2. /\ r \in Run
        /\ r.id = c.run.id /\ r.key = c.run.key /\ r.quota = c.run.quota
        /\ r.state = c.run.state /\ r.pauseRequested = c.run.pauseRequested
        /\ r.dispatched = c.run.dispatched /\ r.completed = c.run.completed
        /\ r.stateKnown = c.run.stateKnown /\ r.settled /\ r.reasons = c.run.reasons
    BY <1>1 DEF Run
  <2>3. t \in Timer /\ (InFlight(c.pipe) => t.armed /\ t.task = c.pipe.active.id)
    BY <1>1 DEF Good, Covered, Timer, NoTimer, InFlight
  <2>4. \A i \in TaskIds : c.owner[i] = None
    BY <1>3 DEF Good, Owns, OwnedByRun
  <2> DEFINE d == [c EXCEPT !.run = r, !.timer = t]
  <2> HIDE DEF r, t
  <2>5. Good(d) /\ (OnTrack(c) => OnTrack(d)) /\ Follows(c, d)
    BY <1>3, <2>2, <2>3, <2>4, RunGood
  <2>6. d.pipe = c.pipe /\ d.run = r /\ d.owner = c.owner /\ d.sent = c.sent
    BY <1>1 DEF Control
  <2> QED BY <2>1, <2>2, <2>5, <2>6
<1> QED BY <1>2, <1>3

\* finish() before the stop hook: nothing is counted or sent.
LEMMA StoppedGood ==
  ASSUME NEW c, Good(c), Running(c), NEW reason \in Reasons
  PROVE  LET e == [c EXCEPT !.deadline = FALSE,
                            !.run.state = IF reason = "paused" THEN "paused" ELSE "stopped",
                            !.run.reasons = @ \cup {reason}]
         IN  /\ Good(e) /\ ~Running(e) /\ ~e.run.settled
             /\ \A i \in TaskIds : ~By(e, i, "lifecycle")
             /\ e.run.id \notin e.hooked
             /\ e.pipe = c.pipe /\ e.owner = c.owner /\ e.run.id = c.run.id
             /\ e.run.key = c.run.key /\ e.sent = c.sent
             /\ e.run.stateKnown = c.run.stateKnown
<1> DEFINE s == IF reason = "paused" THEN "paused" ELSE "stopped"
           r == [c.run EXCEPT !.state = s, !.reasons = @ \cup {reason}]
           e == [c EXCEPT !.deadline = FALSE, !.run = r]
<1>1. c \in Control /\ c.run \in Run
  BY ControlFields DEF Good, Typed
<1>2. [c EXCEPT !.deadline = FALSE,
                !.run.state = IF reason = "paused" THEN "paused" ELSE "stopped",
                !.run.reasons = @ \cup {reason}] = e
  BY <1>1 DEF Control, Run
<1>3. s \in {"paused", "stopped"}
  OBVIOUS
<1> HIDE DEF s
<1>4. /\ r \in Run
      /\ r.id = c.run.id /\ r.key = c.run.key /\ r.quota = c.run.quota /\ r.state = s
      /\ r.dispatched = c.run.dispatched /\ r.completed = c.run.completed
      /\ r.stateKnown = c.run.stateKnown /\ r.settled = c.run.settled
  BY <1>1, <1>3 DEF Run
<1> HIDE DEF r
<1>5. /\ e \in Control /\ e.pipe = c.pipe /\ e.run = r /\ e.owner = c.owner
      /\ e.timer = c.timer /\ e.deadline = FALSE /\ e.lifecycle = c.lifecycle
      /\ e.sent = c.sent /\ e.hooked = c.hooked
  BY <1>1, <1>4 DEF Control
<1> HIDE DEF e
<1>6. Typed(e) /\ Sends(e)
  BY <1>5 DEF Good, Typed, Sends
<1>7. ~Running(e) /\ ~r.settled /\ r.id \notin c.hooked
  BY <1>3, <1>4, <1>5 DEF Good, OneHook, Timed, Running
<1>8. \A i \in TaskIds : ~By(c, i, "lifecycle") /\ ~By(e, i, "lifecycle")
  BY <1>5 DEF Good, Owns, By
<1>9. Owns(e)
  BY <1>4, <1>5, <1>7 DEF Good, Owns
<1>10. OneHook(e) /\ Timed(e)
  BY <1>4, <1>5, <1>7, <1>8 DEF Good, OneHook, Timed
<1>11. Waiting(e) <=> Waiting(c)
  BY <1>5 DEF Waiting, By
<1>12. Counted(e) /\ Covered(e) /\ Bracketed(e)
  BY <1>4, <1>5, <1>11 DEF Good, Counted, Covered, Bracketed
<1> QED BY <1>2, <1>4, <1>5, <1>6, <1>7, <1>8, <1>9, <1>10, <1>12 DEF Good

\* The stop hook of a run that just stopped.
LEMMA HookGood ==
  ASSUME NEW c, Good(c), ~Running(c), ~c.run.settled, c.run.id \notin c.hooked,
         \A i \in TaskIds : ~By(c, i, "lifecycle"),
         c.pipe.next <= MaxTasks
  PROVE  LET d == [c EXCEPT !.pipe = EnqueueFront(@, StopKey),
                            !.owner[c.pipe.next] = [run |-> c.run.id, source |-> "lifecycle"]]
         IN  /\ Good(d) /\ d.pipe = EnqueueFront(c.pipe, StopKey) /\ d.run = c.run
             /\ d.sent = c.sent
             /\ \A i \in TaskIds : IsActive(c.pipe, i) => d.owner[i] = c.owner[i]
<1> DEFINE q == EnqueueFront(c.pipe, StopKey)
           n == c.pipe.next
           o == [run |-> c.run.id, source |-> "lifecycle"]
           own == [c.owner EXCEPT ![n] = o]
           b == [c EXCEPT !.pipe = q]
           d == [c EXCEPT !.pipe = q, !.owner = own]
<1>1. c \in Control /\ Sound(c.pipe) /\ n \in TaskIds /\ n \in Nat /\ c.run \in Run
      /\ c.owner \in [TaskIds -> Owner \cup {None}]
  BY ControlFields, SoundFacts, BoundsAssumption DEF Good, Typed, TaskIds
<1>2. Serves(c.pipe, q) /\ q.next = n + 1 /\ Live(q, n)
  BY <1>1, EnqueueFrontServes, KeysAssumption
<1>3. Good(b)
  <2>1. q.next <= MaxTasks + 1
    BY <1>1, <1>2, BoundsAssumption
  <2> HIDE DEF q
  <2> QED BY <1>2, <2>1, ServedGood
<1>4. o \in Owner /\ o # None /\ o.run = c.run.id /\ o.source = "lifecycle"
  BY <1>1, OwnerAssumption DEF Owner, Run
<1> HIDE DEF o, q, n
<1>5. own \in [TaskIds -> Owner \cup {None}]
  BY <1>1, <1>4
<1>6. \A i \in TaskIds : own[i] = IF i = n THEN o ELSE c.owner[i]
  BY <1>1
<1> HIDE DEF own
<1>7. /\ b.pipe = q /\ b.run = c.run /\ b.owner = c.owner
      /\ b.timer = c.timer /\ b.deadline = c.deadline /\ b.lifecycle = c.lifecycle
      /\ b.sent = c.sent /\ b.hooked = c.hooked
  BY <1>1 DEF Control
<1>8. /\ d.pipe = q /\ d.run = c.run /\ d.owner = own
      /\ d.timer = c.timer /\ d.deadline = c.deadline /\ d.lifecycle = c.lifecycle
      /\ d.sent = c.sent /\ d.hooked = c.hooked
  BY <1>1 DEF Control
<1>9. d \in Control
  <2>1. q \in Pipeline
    BY <1>2, SoundFacts DEF Serves
  <2> QED BY <1>1, <1>5, <2>1 DEF Control
<1> HIDE DEF b, d
<1>10. Typed(d) /\ Sends(d)
  BY <1>3, <1>7, <1>8, <1>9 DEF Good, Typed, Sends
<1>11. Owns(d)
  BY <1>2, <1>3, <1>4, <1>6, <1>7, <1>8 DEF Good, Owns, Running
<1>12. ~IsActive(c.pipe, n) /\ ~InQueue(c.pipe, n) /\ (c.pipe.active = None => c.pipe.pending = {})
  BY <1>1, SoundFacts DEF IsActive, InQueue, Commands, n
<1>13. OneHook(d) /\ Timed(d)
  <2>1. \A i \in TaskIds : By(d, i, "lifecycle") => i = n
    BY <1>6, <1>8 DEF By
  <2> QED BY <1>3, <1>7, <1>8, <2>1 DEF Good, OneHook, Timed, Running
<1>14. Waiting(d) <=> Waiting(b)
  <2>1. InFlight(q) => q.active = c.pipe.active /\ q.active.id # n /\ q.active.id \in TaskIds
    <3>1. InFlight(q) => q.active = c.pipe.active
      BY <1>2 DEF Serves, InFlight
    <3>2. c.pipe.active # None => c.pipe.active.id # n
      BY <1>12 DEF IsActive
    <3>3. c.pipe.active # None => c.pipe.active.id \in TaskIds
      BY <1>1, SoundFacts, ControlFields DEF Good
    <3> QED BY <3>1, <3>2, <3>3 DEF InFlight
  <2> QED BY <1>6, <1>7, <1>8, <2>1 DEF Waiting, By
<1>15. Counted(d) /\ Covered(d) /\ Bracketed(d)
  BY <1>3, <1>7, <1>8, <1>14 DEF Good, Counted, Covered, Bracketed
<1>16. \A i \in TaskIds : IsActive(c.pipe, i) => d.owner[i] = c.owner[i]
  BY <1>6, <1>8, <1>12
<1>17. [c EXCEPT !.pipe = EnqueueFront(@, StopKey),
                 !.owner[c.pipe.next] = [run |-> c.run.id, source |-> "lifecycle"]] = d
  BY <1>1 DEF d, own, o, q, n, Control
<1> QED
  BY <1>8, <1>10, <1>11, <1>13, <1>15, <1>16, <1>17 DEF Good, q

LEMMA HaltGood ==
  ASSUME NEW c, Good(c), Running(c), NEW reason \in Reasons,
         reason \notin NoHookReasons => c.pipe.next <= MaxTasks
  PROVE  LET d == Halt(c, reason)
             p == CancelKeys(c.pipe, {c.run.key})
         IN  /\ Good(d) /\ OnTrack(d) /\ Follows(c, d) /\ ~Running(d)
             /\ d.pipe = p \/ (reason \notin NoHookReasons /\ d.pipe = EnqueueFront(p, StopKey))
             /\ d.pipe.next <= c.pipe.next + 1
             /\ d.run.key = c.run.key /\ d.sent = c.sent
             /\ \A i \in TaskIds : IsActive(c.pipe, i) => d.owner[i] = c.owner[i]
<1> DEFINE e == [c EXCEPT !.deadline = FALSE,
                          !.run.state = IF reason = "paused" THEN "paused" ELSE "stopped",
                          !.run.reasons = @ \cup {reason}]
           h == CancelTasks(e, {c.run.key})
           p == CancelKeys(c.pipe, {c.run.key})
           d == Halt(c, reason)
<1>1. /\ Good(e) /\ ~Running(e) /\ ~e.run.settled
      /\ \A i \in TaskIds : ~By(e, i, "lifecycle")
      /\ e.run.id \notin e.hooked
      /\ e.pipe = c.pipe /\ e.owner = c.owner /\ e.run.id = c.run.id
      /\ e.run.key = c.run.key /\ e.sent = c.sent /\ e.run.stateKnown = c.run.stateKnown
  BY StoppedGood
<1>2. c.run.key \in Keys /\ Sound(c.pipe) /\ c.pipe.next \in Nat /\ ~c.run.settled
  BY ControlFields, SoundFacts DEF Good, Run, Timed
<1> HIDE DEF e
<1>3. /\ Good(h) /\ h.pipe = p /\ h.run = e.run /\ h.sent = c.sent /\ h.hooked = e.hooked
      /\ Follows(e, h)
      /\ \A i \in TaskIds : IsActive(c.pipe, i) => h.owner[i] = c.owner[i]
  <2>1. {c.run.key} \in SUBSET Keys
    BY <1>2
  <2> QED BY <1>1, <2>1, CancelTasksGood
<1>4. p.next = c.pipe.next /\ p.active = c.pipe.active /\ Sound(p)
  BY <1>2, CancelKeysSound
<1> HIDE DEF h, p
<1>5. ~Running(h) /\ ~h.run.settled /\ h.run.id \notin h.hooked
      /\ \A i \in TaskIds : ~By(h, i, "lifecycle")
  BY <1>1, <1>3 DEF Follows, Running
<1>6. CASE d = h
  <2> HIDE DEF d
  <2>1. ~Running(d) /\ d.run.id = c.run.id /\ d.run.stateKnown = c.run.stateKnown
    BY <1>1, <1>3, <1>5, <1>6
  <2>2. OnTrack(d) /\ Follows(c, d)
    BY <1>2, <2>1, Running(c) DEF OnTrack, Follows
  <2>3. d.pipe.next <= c.pipe.next + 1
    BY <1>2, <1>3, <1>4, <1>6
  <2> QED BY <1>1, <1>3, <1>6, <2>1, <2>2, <2>3 DEF d, p
<1>7. CASE /\ reason \notin NoHookReasons
           /\ d = [h EXCEPT !.pipe = EnqueueFront(@, StopKey),
                            !.owner[h.pipe.next] = [run |-> c.run.id, source |-> "lifecycle"]]
  <2>1. h.run.id = c.run.id /\ h.pipe.next <= MaxTasks
    BY <1>1, <1>3, <1>4, <1>7
  <2>2. /\ Good(d) /\ d.pipe = EnqueueFront(h.pipe, StopKey) /\ d.run = h.run
        /\ d.sent = h.sent
        /\ \A i \in TaskIds : IsActive(h.pipe, i) => d.owner[i] = h.owner[i]
    <3>1. [h EXCEPT !.pipe = EnqueueFront(@, StopKey),
                    !.owner[h.pipe.next] = [run |-> h.run.id, source |-> "lifecycle"]] = d
      BY <1>7, <2>1
    <3> HIDE DEF d
    <3> QED BY <1>3, <1>5, <2>1, <3>1, HookGood
  <2>3. d.pipe.next = c.pipe.next + 1
    BY <1>3, <1>4, <2>2, EnqueueFrontServes, KeysAssumption
  <2>4. ~Running(d) /\ d.run.key = c.run.key /\ d.run.id = c.run.id
    BY <1>1, <1>3, <1>5, <2>2 DEF Running
  <2>5. \A i \in TaskIds : IsActive(c.pipe, i) => d.owner[i] = c.owner[i]
    BY <1>3, <1>4, <2>2 DEF IsActive
  <2>6. d.run.stateKnown = c.run.stateKnown
    BY <1>1, <1>3, <2>2
  <2> HIDE DEF d
  <2>7. OnTrack(d) /\ Follows(c, d)
    BY <1>2, <2>4, <2>6 DEF OnTrack, Follows
  <2>8. d.pipe.next <= c.pipe.next + 1
    BY <1>2, <2>3
  <2> QED BY <1>3, <1>7, <2>2, <2>4, <2>5, <2>7, <2>8 DEF d, p
<1>8. d = h \/ (reason \notin NoHookReasons
                /\ d = [h EXCEPT !.pipe = EnqueueFront(@, StopKey),
                                 !.owner[h.pipe.next] = [run |-> c.run.id, source |-> "lifecycle"]])
  BY DEF Halt, h, e
<1> QED BY <1>6, <1>7, <1>8
-----------------------------------------------------------------------------
(* flushCommands.                                                          *)

\* What is known of a task whose dispatch command is pending.
LEMMA PendingFacts ==
  ASSUME NEW c, Good(c), c.pipe.pending # {}
  PROVE  LET t == c.pipe.active IN
           /\ t # None /\ t \in Task /\ t.id \in TaskIds /\ t.stage = "dispatched"
           /\ c.pipe.pending = {t.id} /\ t.id \in Nat /\ t.id < c.pipe.next
           /\ t.id \notin c.sent /\ ~InQueue(c.pipe, t.id)
           /\ ~c.lifecycle /\ ~Waiting(c)
           /\ \A i \in TaskIds : ~By(c, i, "action")
<1>1. Sound(c.pipe) /\ Commands(c.pipe)
  BY SoundFacts DEF Good, Typed
<1>2. /\ c.pipe.active # None /\ c.pipe.active.stage = "dispatched"
      /\ c.pipe.pending = {c.pipe.active.id}
  BY <1>1 DEF Commands
<1>3. /\ c.pipe.active \in Task /\ c.pipe.active.id \in TaskIds /\ c.pipe.active.id \in Nat
      /\ c.pipe.active.id < c.pipe.next
  BY <1>1, <1>2, SoundFacts, ControlFields DEF Good
<1>4. ~InQueue(c.pipe, c.pipe.active.id)
  BY <1>1, <1>2, SoundFacts DEF InQueue, IsActive
<1>5. ~InFlight(c.pipe)
  BY DEF InFlight
<1>6. c.pipe.active.id \notin c.sent
  BY <1>2 DEF Good, Sends
<1>7. ~c.lifecycle /\ ~Waiting(c)
  BY <1>5 DEF Good, Bracketed, Waiting
<1>8. \A i \in TaskIds : ~By(c, i, "action")
  BY DEF Good, Owns, By
<1> QED BY <1>2, <1>3, <1>4, <1>6, <1>7, <1>8

\* The command is accounted to the run only when it is a tick.
Mine(c) ==
  LET t == c.pipe.active IN
  ~c.run.settled /\ ~OwnedBy(c, t.id, "lifecycle") /\ Running(c) /\ t.key = c.run.key

Claimed(c) ==
  IF Mine(c) THEN [run |-> c.run.id, source |-> "action"] ELSE c.owner[c.pipe.active.id]

LEMMA ClaimFields ==
  ASSUME NEW c, Good(c), c.pipe.pending # {}
  PROVE  LET d == Claim(c)
             id == c.pipe.active.id
         IN  /\ d \in Control
             /\ d.pipe = ConsumeCommands(c.pipe)
             /\ d.run = [c.run EXCEPT !.dispatched = IF Mine(c) THEN @ + 1 ELSE @]
             /\ \A i \in TaskIds : d.owner[i] = IF i = id THEN Claimed(c) ELSE c.owner[i]
             /\ d.lifecycle = (c.pipe.active.key = ResetKey)
             /\ d.timer = c.timer /\ d.deadline = c.deadline /\ d.sent = c.sent
             /\ d.hooked = c.hooked /\ d.threw = c.threw
<1>1. c \in Control /\ c.run \in Run /\ c.owner \in [TaskIds -> Owner \cup {None}]
  BY ControlFields DEF Good, Typed
<1>2. /\ c.pipe.active.id \in TaskIds /\ ~c.lifecycle
  BY PendingFacts
<1> DEFINE q == ConsumeCommands(c.pipe)
           n == IF Mine(c) THEN c.run.dispatched + 1 ELSE c.run.dispatched
           r == [c.run EXCEPT !.dispatched = n]
           own == [c.owner EXCEPT ![c.pipe.active.id] = Claimed(c)]
           l == c.pipe.active.key = ResetKey
<1>3. Claim(c) = [c EXCEPT !.pipe = q, !.run = r, !.owner = own, !.lifecycle = l]
  BY <1>1, <1>2 DEF Claim, Mine, Claimed, Control, Run, Running
<1>4. r = [c.run EXCEPT !.dispatched = IF Mine(c) THEN @ + 1 ELSE @] /\ r \in Run
  BY <1>1 DEF Run
<1>5. q \in Pipeline
  BY ConsumeSound, SoundFacts DEF Good, Typed
<1>6. Claimed(c) \in Owner \cup {None}
  BY <1>1, <1>2 DEF Claimed, Owner, Run
<1>7. own \in [TaskIds -> Owner \cup {None}]
  BY <1>1, <1>6
<1>8. \A i \in TaskIds : own[i] = IF i = c.pipe.active.id THEN Claimed(c) ELSE c.owner[i]
  BY <1>1
<1>9. l \in BOOLEAN
  OBVIOUS
<1> HIDE DEF q, n, r, own, l
<1> QED BY <1>1, <1>3, <1>4, <1>5, <1>7, <1>8, <1>9 DEF Control, q, l

\* The command is sent: the run counts it, or it is its stop hook, or it is neither.
LEMMA SendGood ==
  ASSUME NEW c, Good(c), OnTrack(c), c.pipe.pending # {}
  PROVE  LET d == Sent(Claim(c)) IN
           /\ Good(d) /\ OnTrack(d) /\ Follows(c, d)
           /\ d.pipe = ConsumeCommands(c.pipe)
           /\ d.run.key = c.run.key /\ d.run.state = c.run.state
           /\ d.run.pauseRequested = c.run.pauseRequested
           /\ Mine(c) => By(d, c.pipe.active.id, "action")
<1> DEFINE t == c.pipe.active
           id == t.id
           b == Claim(c)
           d == Sent(b)
           q == ConsumeCommands(c.pipe)
           hook == OwnedBy(b, id, "lifecycle")
           hk == IF hook THEN c.hooked \cup {c.run.id} ELSE c.hooked
           tm == [armed |-> TRUE, task |-> id, early |-> c.timer.armed]
           s == c.sent \cup {id}
<1>1. /\ t # None /\ t \in Task /\ id \in TaskIds /\ t.stage = "dispatched"
      /\ id \in Nat /\ id < c.pipe.next /\ ~InQueue(c.pipe, id)
      /\ id \notin c.sent /\ \A i \in TaskIds : ~By(c, i, "action")
  BY PendingFacts
<1>2. /\ b \in Control /\ b.pipe = q
      /\ b.run = [c.run EXCEPT !.dispatched = IF Mine(c) THEN @ + 1 ELSE @]
      /\ \A i \in TaskIds : b.owner[i] = IF i = id THEN Claimed(c) ELSE c.owner[i]
      /\ b.lifecycle = (t.key = ResetKey)
      /\ b.timer = c.timer /\ b.deadline = c.deadline /\ b.sent = c.sent
      /\ b.hooked = c.hooked
  BY ClaimFields
<1>3. c.run \in Run /\ c.timer \in Timer /\ Sound(c.pipe) /\ c.sent \subseteq TaskIds
      /\ c.hooked \subseteq 0 .. MaxRuns
  BY ControlFields DEF Good
<1>4. /\ Sound(q) /\ q.pending = {} /\ q.next = c.pipe.next /\ q.queue = c.pipe.queue
      /\ q.active = t
  BY <1>3, ConsumeSound
<1>5. b.run \in Run /\ b.run.id = c.run.id /\ b.run.key = c.run.key /\ b.run.quota = c.run.quota
      /\ b.run.state = c.run.state /\ b.run.settled = c.run.settled
      /\ b.run.reasons = c.run.reasons /\ b.run.completed = c.run.completed
      /\ b.run.stateKnown = c.run.stateKnown /\ b.run.pauseRequested = c.run.pauseRequested
      /\ b.run.dispatched = IF Mine(c) THEN c.run.dispatched + 1 ELSE c.run.dispatched
  BY <1>2, <1>3 DEF Run, Control
<1> HIDE DEF b, q
<1>6. /\ d \in Control /\ d.pipe = q /\ d.run = b.run /\ d.owner = b.owner /\ d.timer = tm
      /\ d.deadline = c.deadline /\ d.lifecycle = (t.key = ResetKey) /\ d.sent = s
      /\ d.hooked = hk
  <2>1. tm \in Timer /\ s \subseteq TaskIds /\ hk \subseteq 0 .. MaxRuns
    BY <1>1, <1>3 DEF Timer, Run
  <2>2. d = [b EXCEPT !.sent = s, !.hooked = hk, !.timer = tm]
    BY <1>2, <1>4, <1>5 DEF Sent, ScheduleTimer, Control
  <2> HIDE DEF tm, s, hk, d
  <2> QED BY <1>2, <2>1, <2>2 DEF Control
<1> HIDE DEF d
<1>7. Mine(c) => Running(c) /\ ~c.run.settled /\ Claimed(c) = [run |-> c.run.id, source |-> "action"]
  BY DEF Mine, Claimed
<1>8. ~Mine(c) => Claimed(c) = c.owner[id]
  BY DEF Claimed
<1>9. Mine(c) => Claimed(c) # None
  BY <1>3, <1>7, OwnerAssumption DEF Owner, Run
<1>10. Typed(d)
  BY <1>4, <1>6 DEF Good, Typed
<1>11. Sends(d)
  BY <1>1, <1>4, <1>6 DEF Good, Sends, InQueue
<1>12. \A i \in TaskIds : By(d, i, "lifecycle") => By(c, i, "lifecycle")
  BY <1>2, <1>6, <1>7, <1>8 DEF By
<1>13. \A i \in TaskIds : By(d, i, "action") => i = id /\ Mine(c)
  BY <1>1, <1>2, <1>6, <1>8 DEF By
<1>14. By(d, id, "action") <=> Mine(c)
  BY <1>1, <1>2, <1>6, <1>7, <1>9, <1>13 DEF By
<1>15. Owns(d)
  <2>1. \A i : Live(c.pipe, i) => Live(q, i)
    BY <1>4 DEF Live, InQueue, IsActive
  <2>2. IsActive(q, id)
    BY <1>1, <1>4 DEF IsActive
  <2> SUFFICES ASSUME NEW i \in TaskIds, d.owner[i] # None
               PROVE  /\ d.owner[i].run = d.run.id /\ ~d.run.settled /\ Live(d.pipe, i)
                      /\ d.owner[i].source = "action" => IsActive(d.pipe, i) /\ d.pipe.pending = {}
                      /\ d.owner[i].source = "lifecycle" => ~Running(d)
    BY DEF Owns
  <2>3. CASE i = id /\ Mine(c)
    BY <1>2, <1>4, <1>5, <1>6, <1>7, <2>2, <2>3 DEF Live
  <2>4. CASE ~(i = id /\ Mine(c))
    BY <1>1, <1>2, <1>4, <1>5, <1>6, <1>8, <2>1, <2>4 DEF Good, Owns, Running, By
  <2> QED BY <2>3, <2>4
<1>16. hook => By(d, id, "lifecycle") /\ ~Running(d)
  BY <1>1, <1>2, <1>3, <1>5, <1>6, <1>15, OwnerAssumption DEF OwnedBy, By, Owns, Owner, Run
<1>17. OneHook(d)
  <2>1. \A i, j \in TaskIds : By(d, i, "lifecycle") /\ By(d, j, "lifecycle") => i = j
    BY <1>12 DEF Good, OneHook
  <2>2. \A i \in TaskIds : By(d, i, "lifecycle") /\ d.run.id \in d.hooked => i \in d.sent
    BY <1>1, <1>5, <1>6, <1>12, <1>16, <2>1 DEF Good, OneHook
  <2>3. \A h \in d.hooked : h <= d.run.id
    BY <1>3, <1>5, <1>6 DEF Good, OneHook, Run
  <2>4. Running(d) => d.run.id \notin d.hooked
    BY <1>5, <1>6, <1>16 DEF Good, OneHook, Running
  <2> QED BY <2>1, <2>2, <2>3, <2>4 DEF OneHook
<1>18. Timed(d)
  BY <1>5, <1>6 DEF Good, Timed, Running
<1>19. InFlight(d.pipe) /\ (Waiting(d) <=> Mine(c))
  BY <1>1, <1>4, <1>6, <1>14 DEF InFlight, Waiting
<1>20. ~Waiting(c)
  BY PendingFacts
<1>21. c.run.dispatched \in Nat /\ c.run.completed \in Nat /\ c.run.quota \in Nat
  BY <1>3 DEF Run
<1>22. Counted(d) /\ OnTrack(d)
  <2>1. CASE Mine(c)
    <3>1. c.run.dispatched = c.run.completed /\ (c.run.quota # 0 => c.run.completed < c.run.quota)
      BY <1>7, <1>20, <1>21, <2>1 DEF Good, Counted, OnTrack
    <3>2. /\ d.run.dispatched = d.run.completed + 1 /\ d.run.completed = c.run.completed
          /\ d.run.quota = c.run.quota
      BY <1>5, <1>6, <2>1, <3>1
    <3> QED BY <1>19, <1>21, <2>1, <3>1, <3>2 DEF Counted, OnTrack
  <2>2. CASE ~Mine(c)
    BY <1>5, <1>6, <1>19, <1>20, <2>2 DEF Good, Counted, OnTrack, Running
  <2> QED BY <2>1, <2>2
<1>23. Covered(d) /\ Bracketed(d)
  <2>1. d.pipe.active = t /\ d.timer.armed /\ d.timer.task = id
    BY <1>4, <1>6
  <2>2. d.lifecycle <=> t.key = ResetKey
    BY <1>6
  <2> QED BY <1>19, <2>1, <2>2 DEF Covered, Bracketed
<1>24. Follows(c, d)
  BY <1>5, <1>6, <1>7, <1>12 DEF Follows, Running
<1> QED
  BY <1>5, <1>6, <1>10, <1>11, <1>14, <1>15, <1>17, <1>18, <1>22, <1>23, <1>24 DEF Good, d, b, q

\* The command could not be sent.
LEMMA UnsendGood ==
  ASSUME NEW c, Good(c), OnTrack(c), c.pipe.pending # {},
         NEW outcome \in {"invalid", "failed"}
  PROVE  LET d == Unsend(Claim(c), outcome) IN
           /\ Good(d) /\ Follows(c, d)
           /\ d.pipe = CancelPendingDispatch(ConsumeCommands(c.pipe), c.pipe.active.id)
           /\ d.pipe.next = c.pipe.next
           /\ d.run.key = c.run.key /\ d.run.state = c.run.state
           /\ d.run.pauseRequested = c.run.pauseRequested
<1> DEFINE t == c.pipe.active
           id == t.id
           b == Claim(c)
           d == Unsend(b, outcome)
           p == ConsumeCommands(c.pipe)
           q == CancelPendingDispatch(p, id)
           n == DispatchedAfter(b, t, outcome)
           k == c.run.stateKnown /\ outcome # "failed"
           r == [b.run EXCEPT !.dispatched = n, !.stateKnown = k]
           own == [b.owner EXCEPT ![id] = None]
<1>1. /\ t # None /\ t \in Task /\ id \in TaskIds /\ t.stage = "dispatched"
      /\ id \in Nat /\ id < c.pipe.next /\ ~InQueue(c.pipe, id) /\ ~Waiting(c)
      /\ id \notin c.sent /\ \A i \in TaskIds : ~By(c, i, "action")
  BY PendingFacts
<1>2. /\ b \in Control /\ b.pipe = p
      /\ b.run = [c.run EXCEPT !.dispatched = IF Mine(c) THEN @ + 1 ELSE @]
      /\ \A i \in TaskIds : b.owner[i] = IF i = id THEN Claimed(c) ELSE c.owner[i]
      /\ b.lifecycle = (t.key = ResetKey)
      /\ b.timer = c.timer /\ b.deadline = c.deadline /\ b.sent = c.sent
      /\ b.hooked = c.hooked
  BY ClaimFields
<1>3. c.run \in Run /\ Sound(c.pipe) /\ c.sent \subseteq TaskIds
  BY ControlFields DEF Good
<1>4. /\ Sound(p) /\ p.pending = {} /\ p.next = c.pipe.next /\ p.queue = c.pipe.queue
      /\ p.active = t
  BY <1>3, ConsumeSound
<1>5. b.run \in Run /\ b.run.id = c.run.id /\ b.run.key = c.run.key /\ b.run.quota = c.run.quota
      /\ b.run.state = c.run.state /\ b.run.settled = c.run.settled
      /\ b.run.reasons = c.run.reasons /\ b.run.completed = c.run.completed
      /\ b.run.stateKnown = c.run.stateKnown /\ b.run.pauseRequested = c.run.pauseRequested
      /\ b.run.dispatched = IF Mine(c) THEN c.run.dispatched + 1 ELSE c.run.dispatched
  BY <1>2, <1>3 DEF Run, Control
<1>6. CanComplete(p, id)
  BY <1>1, <1>4 DEF CanComplete, IsActive
<1>7. Frees(p, q, id) /\ q.next = p.next
  BY <1>4, <1>6, CancelPendingFrees
<1>8. Mine(c) => Running(c) /\ ~c.run.settled /\ Claimed(c) = [run |-> c.run.id, source |-> "action"]
  BY DEF Mine, Claimed
<1>9. ~Mine(c) => Claimed(c) = c.owner[id]
  BY DEF Claimed
<1>10. Mine(c) => Claimed(c) # None /\ Claimed(c).source = "action"
  BY <1>3, <1>8, OwnerAssumption DEF Owner, Run
<1>11. c.run.dispatched \in Nat /\ c.run.completed \in Nat /\ c.run.quota \in Nat
  BY <1>3 DEF Run
<1>12. n = IF Mine(c) /\ outcome = "failed" THEN c.run.dispatched + 1 ELSE c.run.dispatched
  <2>1. CASE Mine(c)
    BY <1>1, <1>2, <1>5, <1>10, <1>11, <2>1 DEF DispatchedAfter
  <2>2. CASE ~Mine(c)
    BY <1>1, <1>2, <1>5, <1>9, <2>2 DEF DispatchedAfter, By
  <2> QED BY <2>1, <2>2
<1>13. k \in BOOLEAN /\ k = (c.run.stateKnown /\ outcome # "failed")
  BY <1>3 DEF Run
<1> HIDE DEF b, p, q, n, k
<1>14. d = [b EXCEPT !.pipe = q, !.owner = own, !.lifecycle = FALSE, !.run = r, !.threw = TRUE]
  BY <1>2, <1>4, <1>5 DEF Unsend, ResetOpenAfter, Control, Run, n, k, q
<1>15. /\ r \in Run /\ r.id = c.run.id /\ r.key = c.run.key /\ r.quota = c.run.quota
       /\ r.state = c.run.state /\ r.settled = c.run.settled
       /\ r.reasons = c.run.reasons /\ r.completed = c.run.completed
       /\ r.pauseRequested = c.run.pauseRequested /\ r.stateKnown = k /\ r.dispatched = n
  BY <1>5, <1>11, <1>12, <1>13 DEF Run
<1>16. /\ own \in [TaskIds -> Owner \cup {None}]
       /\ \A i \in TaskIds : own[i] = IF i = id THEN None ELSE c.owner[i]
  BY <1>2 DEF Control
<1>17. q \in Pipeline /\ Sound(q)
  BY <1>7, SoundFacts DEF Frees
<1> HIDE DEF own, r, d
<1>18. /\ d \in Control /\ d.pipe = q /\ d.run = r /\ d.owner = own
       /\ d.timer = c.timer /\ d.deadline = c.deadline /\ d.lifecycle = FALSE
       /\ d.sent = c.sent /\ d.hooked = c.hooked
  BY <1>2, <1>14, <1>15, <1>16, <1>17 DEF Control
<1>19. Typed(d)
  BY <1>4, <1>7, <1>17, <1>18 DEF Good, Typed
<1>20. ~InFlight(q)
  BY <1>7 DEF Frees, InFlight
<1>21. Sends(d)
  <2>1. \A i \in c.sent : i \in Nat /\ i < p.next /\ ~InQueue(p, i)
    BY <1>3, <1>4 DEF Good, Sends, InQueue, TaskIds
  <2>2. q.next \in Nat /\ p.next \in Nat
    BY <1>4, <1>17, SoundFacts
  <2>3. \A i \in c.sent : i < q.next /\ ~InQueue(q, i) /\ i \notin q.pending
    BY <1>7, <2>1, <2>2 DEF Frees
  <2> QED BY <1>7, <1>18, <1>20, <2>3 DEF Sends, InFlight, Frees
<1>22. \A i \in TaskIds : ~By(d, i, "action") /\ (By(d, i, "lifecycle") => By(c, i, "lifecycle"))
  BY <1>1, <1>16, <1>18 DEF By
<1>23. Owns(d)
  <2>1. \A i : i # id /\ Live(c.pipe, i) => Live(q, i)
    BY <1>4, <1>7 DEF Frees, Live, InQueue, IsActive
  <2>2. \A i \in TaskIds : d.owner[i] # None => i # id /\ d.owner[i] = c.owner[i]
    BY <1>16, <1>18
  <2> QED BY <1>15, <1>18, <1>22, <2>1, <2>2 DEF Good, Owns, Running, By
<1>24. OneHook(d) /\ Timed(d)
  BY <1>15, <1>18, <1>22 DEF Good, OneHook, Timed, Running
<1>25. Counted(d)
  <2>1. ~Waiting(d)
    BY <1>18, <1>20 DEF Waiting
  <2>2. CASE Mine(c) /\ outcome = "failed"
    <3>1. c.run.dispatched = c.run.completed /\ (c.run.quota # 0 => c.run.completed < c.run.quota)
      BY <1>1, <1>8, <1>11, <2>2 DEF Good, Counted, OnTrack
    <3>2. ~k
      BY <2>2 DEF k
    <3>3. /\ d.run.dispatched = d.run.completed + 1 /\ ~d.run.stateKnown
          /\ d.run.completed = c.run.completed /\ d.run.quota = c.run.quota
      BY <1>12, <1>15, <1>18, <2>2, <3>1, <3>2
    <3> QED BY <1>11, <2>1, <3>1, <3>3 DEF Counted
  <2>3. CASE ~(Mine(c) /\ outcome = "failed")
    BY <1>1, <1>12, <1>13, <1>15, <1>18, <2>1, <2>3 DEF Good, Counted
  <2> QED BY <2>2, <2>3
<1>26. Covered(d) /\ Bracketed(d)
  BY <1>18, <1>20 DEF Covered, Bracketed
<1>27. Follows(c, d)
  BY <1>8, <1>12, <1>13, <1>15, <1>18, <1>22 DEF Follows, Running
<1>28. d.pipe.next = c.pipe.next
  BY <1>4, <1>7, <1>18
<1> QED
  BY <1>15, <1>18, <1>19, <1>21, <1>23, <1>24, <1>25, <1>26, <1>27, <1>28 DEF Good, d, b, q, p

\* finish() after a failed send: the run is over, nothing else changes hands.
LEMMA HaltUnhooked ==
  ASSUME NEW c, Good(c), Running(c), NEW reason \in NoHookReasons
  PROVE  LET d == Halt(c, reason) IN
           /\ Good(d) /\ OnTrack(d) /\ Follows(c, d) /\ ~Running(d)
           /\ d.pipe = CancelKeys(c.pipe, {c.run.key}) /\ d.pipe.next = c.pipe.next
           /\ d.run.key = c.run.key
<1>1. reason \in Reasons
  BY DEF NoHookReasons, Reasons
<1>2. c.run.key \in Keys /\ Sound(c.pipe) /\ c.pipe.next \in Nat
  BY ControlFields, SoundFacts DEF Good, Run
<1>3. {c.run.key} \in SUBSET Keys
  BY <1>2
<1>4. CancelKeys(c.pipe, {c.run.key}).next = c.pipe.next
  BY <1>2, <1>3, CancelKeysSound
<1> QED BY <1>1, <1>4, HaltGood

LEMMA AfterFailureGood ==
  ASSUME NEW c, Good(c), NEW outcome \in {"invalid", "failed"}, NEW again \in SendOutcomes
  PROVE  LET d == AfterFailure(c, outcome, again) IN
           Good(d) /\ OnTrack(d) /\ Follows(c, d) /\ ~Running(d) /\ d.pipe.next = c.pipe.next
<1> DEFINE d == AfterFailure(c, outcome, again)
           h == Halt(c, FailureReason(outcome))
           u == Unsend(Claim(h), again)
<1>1. /\ FailureReason(outcome) \in NoHookReasons /\ FailureReason(outcome) \in Reasons
      /\ FailureReason(again) \in Reasons
  BY DEF FailureReason, NoHookReasons, Reasons
<1>2. again = "sent" \/ again \in {"invalid", "failed"}
  BY OutcomesAssumption
<1>3. CASE ~Running(c)
  <2>1. d = AddReason(c, FailureReason(outcome))
    BY <1>3 DEF AfterFailure
  <2> HIDE DEF d
  <2> QED BY <1>1, <1>3, <2>1, AddReasonGood DEF Running, OnTrack, d
<1>4. CASE Running(c)
  <2>1. /\ Good(h) /\ OnTrack(h) /\ Follows(c, h) /\ ~Running(h) /\ h.pipe.next = c.pipe.next
    BY <1>1, <1>4, HaltUnhooked
  <2>2. d = IF h.pipe.pending = {} THEN MaybeSettle(h)
            ELSE IF again = "sent" THEN MaybeSettle(Sent(Claim(h)))
            ELSE AddReason(u, FailureReason(again))
    BY <1>4 DEF AfterFailure
  <2> HIDE DEF h, u, d
  <2>3. CASE h.pipe.pending = {}
    <3>1. d = MaybeSettle(h)
      BY <2>2, <2>3
    <3> QED BY <2>1, <3>1, MaybeSettleGood, FollowsTransitive DEF Running, d
  <2>4. CASE h.pipe.pending # {} /\ again = "sent"
    <3> DEFINE s == Sent(Claim(h))
    <3>1. /\ Good(s) /\ OnTrack(s) /\ Follows(h, s) /\ s.pipe = ConsumeCommands(h.pipe)
      BY <2>1, <2>4, SendGood
    <3>2. s.pipe.next = h.pipe.next
      BY <2>1, <3>1, ConsumeSound DEF Good, Typed
    <3>3. d = MaybeSettle(s)
      BY <2>2, <2>4
    <3> HIDE DEF s
    <3>4. Good(d) /\ OnTrack(d) /\ Follows(s, d) /\ d.pipe = s.pipe
      BY <3>1, <3>3, MaybeSettleGood
    <3>5. Follows(c, d)
      BY <2>1, <3>1, <3>4, FollowsTransitive
    <3> QED BY <2>1, <3>2, <3>1, <3>4, <3>5 DEF d, Follows
  <2>5. CASE h.pipe.pending # {} /\ again \in {"invalid", "failed"}
    <3>1. Good(u) /\ Follows(h, u) /\ u.pipe.next = h.pipe.next
      BY <2>1, <2>5, UnsendGood DEF u
    <3>2. ~Running(u)
      BY <2>1, <3>1 DEF Follows
    <3>3. d = AddReason(u, FailureReason(again))
      BY <2>2, <2>5
    <3>4. Good(d) /\ Follows(u, d) /\ d.pipe = u.pipe
      BY <1>1, <3>1, <3>3, AddReasonGood
    <3>5. Follows(c, d)
      BY <2>1, <3>1, <3>4, FollowsTransitive
    <3> QED BY <2>1, <3>1, <3>2, <3>4, <3>5 DEF d, Follows, OnTrack
  <2> QED BY <1>2, <2>3, <2>4, <2>5
<1> QED BY <1>3, <1>4

\* flushCommands leaves nothing to restore, whatever the sends do.
LEMMA FlushGood ==
  ASSUME NEW c, Good(c), OnTrack(c), NEW o \in SendPairs
  PROVE  LET d == Flush(c, o) IN
           Good(d) /\ OnTrack(d) /\ Follows(c, d) /\ d.pipe.next = c.pipe.next
<1> DEFINE d == Flush(c, o)
           u == Unsend(Claim(c), o.first)
<1>1. (o.first = "sent" \/ o.first \in {"invalid", "failed"}) /\ o.again \in SendOutcomes
  BY OutcomesAssumption DEF SendPairs
<1>2. CASE c.pipe.pending = {}
  BY <1>2, FollowsReflexive DEF Flush
<1>3. CASE c.pipe.pending # {} /\ o.first = "sent"
  <2>1. d = Sent(Claim(c))
    BY <1>3 DEF Flush
  <2> HIDE DEF d
  <2>2. Good(d) /\ OnTrack(d) /\ Follows(c, d) /\ d.pipe = ConsumeCommands(c.pipe)
    BY <1>3, <2>1, SendGood
  <2>3. ConsumeCommands(c.pipe).next = c.pipe.next
    BY ConsumeSound DEF Good, Typed
  <2> QED BY <2>2, <2>3 DEF d
<1>4. CASE c.pipe.pending # {} /\ o.first \in {"invalid", "failed"}
  <2>1. Good(u) /\ Follows(c, u) /\ u.pipe.next = c.pipe.next
    BY <1>4, UnsendGood
  <2>2. d = AfterFailure(u, o.first, o.again)
    BY <1>4 DEF Flush
  <2> HIDE DEF d, u
  <2>3. Good(d) /\ OnTrack(d) /\ Follows(u, d) /\ d.pipe.next = u.pipe.next
    BY <1>1, <1>4, <2>1, <2>2, AfterFailureGood
  <2> QED BY <2>1, <2>3, FollowsTransitive DEF d
<1> QED BY <1>1, <1>2, <1>3, <1>4
-----------------------------------------------------------------------------
(* finish, and the end of a task.                                          *)

LEMMA FinishGood ==
  ASSUME NEW c, Good(c), NEW reason \in Reasons, NEW o \in SendPairs,
         reason \notin NoHookReasons => c.pipe.next <= MaxTasks
  PROVE  LET d == Finish(c, reason, o) IN
           /\ Good(d) /\ OnTrack(d) /\ Follows(c, d) /\ ~Running(d)
           /\ d.pipe.next <= c.pipe.next + 1
           /\ reason \in NoHookReasons => d.pipe.next = c.pipe.next
           /\ c.pipe.active # None /\ c.pipe.pending = {} =>
                d.pipe.active = c.pipe.active /\ d.pipe.pending = {}
           /\ c.pipe.active = None /\ reason \in NoHookReasons => d.pipe.active = None
<1> DEFINE d == Finish(c, reason, o)
           h == Halt(c, reason)
           f == Flush(h, o)
           p == CancelKeys(c.pipe, {c.run.key})
<1>1. Sound(c.pipe) /\ c.pipe.next \in Nat /\ c.run.key \in Keys
  BY ControlFields, SoundFacts DEF Good, Run
<1>2. CASE ~Running(c)
  <2>1. d = AddReason(c, reason)
    BY <1>2 DEF Finish
  <2> HIDE DEF d
  <2>2. /\ Good(d) /\ (OnTrack(c) => OnTrack(d)) /\ Follows(c, d)
        /\ d.pipe = c.pipe /\ d.run.state = c.run.state
    BY <2>1, AddReasonGood
  <2>3. ~Running(d) /\ OnTrack(d)
    BY <1>2, <2>2 DEF Running, OnTrack
  <2> QED BY <1>1, <2>2, <2>3 DEF d
<1>3. CASE Running(c)
  <2>1. ~c.run.settled
    BY <1>3 DEF Good, Timed
  <2>2. d = IF f.threw THEN f ELSE MaybeSettle(f)
    BY <1>3, <2>1 DEF Finish
  <2>3. /\ Good(h) /\ OnTrack(h) /\ Follows(c, h) /\ ~Running(h)
        /\ h.pipe = p \/ (reason \notin NoHookReasons /\ h.pipe = EnqueueFront(p, StopKey))
        /\ h.pipe.next <= c.pipe.next + 1
    BY <1>3, HaltGood
  <2>4. /\ Sound(p) /\ p.next = c.pipe.next /\ p.active = c.pipe.active
        /\ p.pending = c.pipe.pending
    <3>1. {c.run.key} \in SUBSET Keys
      BY <1>1
    <3> QED BY <1>1, <3>1, CancelKeysSound
  <2>5. Serves(p, EnqueueFront(p, StopKey))
    BY <2>4, EnqueueFrontServes, KeysAssumption
  <2> HIDE DEF h, p
  <2>6. /\ Good(f) /\ OnTrack(f) /\ Follows(h, f) /\ f.pipe.next = h.pipe.next
        /\ (h.pipe.pending = {} => f = h)
    BY <2>3, FlushGood DEF Flush
  <2> HIDE DEF f, d
  <2>7. Good(d) /\ OnTrack(d) /\ Follows(f, d) /\ d.pipe = f.pipe
    BY <2>2, <2>6, MaybeSettleGood, FollowsReflexive
  <2>8. Follows(c, d) /\ ~Running(d)
    <3>1. Follows(c, f)
      BY <2>3, <2>6, FollowsTransitive
    <3>2. Follows(c, d)
      BY <2>7, <3>1, FollowsTransitive
    <3>3. ~Running(f)
      BY <2>3, <2>6 DEF Follows
    <3> QED BY <2>7, <3>2, <3>3 DEF Follows
  <2>9. ASSUME c.pipe.active # None, c.pipe.pending = {}
        PROVE  d.pipe.active = c.pipe.active /\ d.pipe.pending = {}
    <3>1. h.pipe.active = c.pipe.active /\ h.pipe.pending = {}
      BY <2>3, <2>4, <2>5, <2>9 DEF Serves
    <3> QED BY <2>6, <2>7, <3>1
  <2>10. ASSUME c.pipe.active = None, reason \in NoHookReasons
         PROVE  d.pipe.active = None
    <3>1. h.pipe.active = None /\ h.pipe = p
      BY <2>3, <2>4, <2>10
    <3>2. h.pipe.pending = {}
      BY <2>4, <3>1, SoundFacts DEF Commands
    <3> QED BY <2>6, <2>7, <3>1, <3>2
  <2>11. d.pipe.next <= c.pipe.next + 1 /\ (reason \in NoHookReasons => d.pipe.next = c.pipe.next)
    BY <2>3, <2>4, <2>6, <2>7
  <2> QED BY <2>7, <2>8, <2>9, <2>10, <2>11 DEF d
<1> QED BY <1>2, <1>3

\* The other reasons of a tick are noted with the first one, before or after the run settles.
LEMMA ReasonsGood ==
  ASSUME NEW c, NEW f, Good(f), Follows(c, f), ~c.run.settled, NEW R \in SUBSET Reasons
  PROVE  LET d == [f EXCEPT !.run.reasons = @ \cup R] IN
           /\ Good(d) /\ (OnTrack(f) => OnTrack(d)) /\ Follows(c, d)
           /\ d.pipe = f.pipe /\ d.run.state = f.run.state
<1> DEFINE r == [f.run EXCEPT !.reasons = @ \cup R]
           d == [f EXCEPT !.run = r]
<1>1. f \in Control /\ f.run \in Run
  BY ControlFields DEF Good, Typed
<1>2. [f EXCEPT !.run.reasons = @ \cup R] = d
  BY <1>1 DEF Control, Run
<1>3. /\ r \in Run /\ r.id = f.run.id /\ r.key = f.run.key /\ r.quota = f.run.quota
      /\ r.state = f.run.state /\ r.settled = f.run.settled
      /\ r.dispatched = f.run.dispatched /\ r.completed = f.run.completed
      /\ r.stateKnown = f.run.stateKnown
  BY <1>1 DEF Run
<1> HIDE DEF r
<1>4. /\ d \in Control /\ d.pipe = f.pipe /\ d.run = r /\ d.owner = f.owner
      /\ d.timer = f.timer /\ d.deadline = f.deadline /\ d.lifecycle = f.lifecycle
      /\ d.sent = f.sent /\ d.hooked = f.hooked
  BY <1>1, <1>3 DEF Control
<1> HIDE DEF d
<1>5. Typed(d) /\ Sends(d) /\ Owns(d)
  BY <1>3, <1>4 DEF Good, Typed, Sends, Owns, Running
<1>6. OneHook(d) /\ Timed(d) /\ Covered(d) /\ Bracketed(d)
  BY <1>3, <1>4 DEF Good, OneHook, Timed, Covered, Bracketed, Running, By
<1>7. Waiting(d) <=> Waiting(f)
  BY <1>4 DEF Waiting, By
<1>8. Counted(d) /\ (OnTrack(f) => OnTrack(d))
  BY <1>3, <1>4, <1>7 DEF Good, Counted, OnTrack, Running
<1>9. Follows(c, d)
  BY <1>3, <1>4 DEF Follows, Running, By
<1> QED BY <1>2, <1>3, <1>4, <1>5, <1>6, <1>8, <1>9 DEF Good

\* A rendered task leaves the pipeline and its run; the next one may be dispatched.
LEMMA FreeGood ==
  ASSUME NEW c, Good(c), NEW id \in TaskIds, CanRender(c.pipe, id), c.pipe.next <= MaxTasks
  PROVE  LET d == [c EXCEPT !.pipe = MarkRendered(@, id), !.owner[id] = None] IN
           /\ Good(d) /\ (OnTrack(c) => OnTrack(d)) /\ Follows(c, d)
           /\ d.pipe = MarkRendered(c.pipe, id) /\ d.run = c.run
<1> DEFINE p == c.pipe
           q == MarkRendered(p, id)
           own == [c.owner EXCEPT ![id] = None]
           d == [c EXCEPT !.pipe = q, !.owner = own]
<1>1. c \in Control /\ Sound(p) /\ c.owner \in [TaskIds -> Owner \cup {None}]
      /\ c.sent \subseteq TaskIds
  BY ControlFields DEF Good, Typed
<1>2. Frees(p, q, id) /\ q.next <= p.next + 1
  BY <1>1, MarkRenderedFrees
<1>3. q \in Pipeline /\ Sound(q) /\ q.next <= MaxTasks + 1 /\ p.next \in Nat /\ q.next \in Nat
  BY <1>1, <1>2, SoundFacts, BoundsAssumption DEF Frees
<1>4. /\ own \in [TaskIds -> Owner \cup {None}]
      /\ \A i \in TaskIds : own[i] = IF i = id THEN None ELSE c.owner[i]
  BY <1>1
<1>5. [c EXCEPT !.pipe = MarkRendered(@, id), !.owner[id] = None] = d
  BY <1>1 DEF Control
<1>6. ~InFlight(p) /\ ~InFlight(q) /\ p.active # None /\ p.active.id = id
  BY <1>2 DEF CanRender, IsActive, InFlight, Frees
<1> HIDE DEF q, own
<1>7. /\ d \in Control /\ d.pipe = q /\ d.run = c.run /\ d.owner = own
      /\ d.timer = c.timer /\ d.deadline = c.deadline /\ d.lifecycle = c.lifecycle
      /\ d.sent = c.sent /\ d.hooked = c.hooked
  BY <1>1, <1>3, <1>4 DEF Control
<1> HIDE DEF d
<1>8. Typed(d)
  BY <1>3, <1>7 DEF Typed
<1>9. Sends(d)
  <2>1. \A i \in c.sent : i \in Nat /\ i < p.next /\ ~InQueue(p, i)
    BY <1>1 DEF Good, Sends, TaskIds
  <2>2. \A i \in c.sent : i < q.next /\ ~InQueue(q, i) /\ i \notin q.pending
    BY <1>2, <1>3, <2>1 DEF Frees
  <2> QED BY <1>2, <1>7, <2>2 DEF Sends, Frees
<1>10. \A i \in TaskIds : ~By(d, i, "action") /\ (By(d, i, "lifecycle") => By(c, i, "lifecycle"))
  BY <1>4, <1>6, <1>7 DEF Good, Owns, By, IsActive
<1>11. Owns(d)
  <2>1. \A i \in TaskIds : d.owner[i] # None => i # id /\ d.owner[i] = c.owner[i]
    BY <1>4, <1>7
  <2> QED BY <1>2, <1>7, <1>10, <2>1 DEF Good, Owns, Running, By, Frees
<1>12. OneHook(d) /\ Timed(d)
  BY <1>7, <1>10 DEF Good, OneHook, Timed, Running
<1>13. ~Waiting(c) /\ ~Waiting(d)
  BY <1>6, <1>7 DEF Waiting
<1>14. Counted(d) /\ (OnTrack(c) => OnTrack(d))
  BY <1>7, <1>13 DEF Good, Counted, OnTrack, Running
<1>15. Covered(d) /\ Bracketed(d)
  BY <1>6, <1>7 DEF Good, Covered, Bracketed
<1>16. Follows(c, d)
  BY <1>7, <1>10 DEF Follows, Running
<1> QED BY <1>5, <1>7, <1>8, <1>9, <1>11, <1>12, <1>14, <1>15, <1>16 DEF Good, q

\* The result of the active task, with what it does to the counters of its run.
LEMMA CompleteGood ==
  ASSUME NEW c, Good(c), InFlight(c.pipe), NEW t \in Timer, NEW r \in Run,
         NEW continues \in BOOLEAN,
         r.id = c.run.id, r.key = c.run.key, r.quota = c.run.quota, r.state = c.run.state,
         r.reasons = c.run.reasons, r.settled = c.run.settled, r.dispatched = c.run.dispatched,
         r.completed = c.run.completed \/ (r.completed = c.run.completed + 1 /\ ~c.run.settled),
         r.completed <= r.dispatched, r.stateKnown => c.run.stateKnown,
         r.stateKnown => r.dispatched # r.completed + 1
  PROVE  LET d == [CompleteActive([c EXCEPT !.timer = t], continues) EXCEPT !.run = r] IN
           /\ Good(d) /\ Follows(c, d)
           /\ r.dispatched # r.completed + 1 /\ (r.quota # 0 => r.completed < r.quota) => OnTrack(d)
           /\ d.pipe = MarkApplied(CompleteTask(c.pipe, c.pipe.active.id, continues), c.pipe.active.id)
           /\ d.run = r /\ d.owner = c.owner
           /\ d.pipe.next = c.pipe.next /\ CanRender(d.pipe, c.pipe.active.id)
           /\ d.pipe.pending = {} /\ d.pipe.active # None
<1> DEFINE p == c.pipe
           id == p.active.id
           q == MarkApplied(CompleteTask(p, id, continues), id)
           d == [CompleteActive([c EXCEPT !.timer = t], continues) EXCEPT !.run = r]
<1>1. c \in Control /\ Sound(p) /\ c.run \in Run
  BY ControlFields DEF Good, Typed
<1>2. CanComplete(p, id) /\ p.pending = {}
  BY DEF InFlight, CanComplete, IsActive
<1>3. /\ Sound(q) /\ q.next = p.next /\ q.queue = p.queue /\ q.pending = {}
      /\ q.active # None /\ q.active.id = id /\ q.active.stage = "applied"
  BY <1>1, <1>2, StageSound
<1>4. q \in Pipeline
  BY <1>3, SoundFacts
<1>5. CompleteActive([c EXCEPT !.timer = t], continues) =
        [c EXCEPT !.timer = t, !.pipe = q, !.lifecycle = @ /\ p.active.key # ResetKey]
  BY <1>1 DEF CompleteActive, Control
<1>6. ~(c.lifecycle /\ p.active.key # ResetKey)
  BY DEF Good, Bracketed
<1> HIDE DEF q
<1>7. d = [c EXCEPT !.timer = t, !.pipe = q, !.lifecycle = FALSE, !.run = r]
  BY <1>1, <1>5, <1>6 DEF Control
<1> HIDE DEF d
<1>8. /\ d \in Control /\ d.pipe = q /\ d.run = r /\ d.owner = c.owner
      /\ d.timer = t /\ d.deadline = c.deadline /\ d.lifecycle = FALSE
      /\ d.sent = c.sent /\ d.hooked = c.hooked
  BY <1>1, <1>4, <1>7 DEF Control
<1>9. ~InFlight(q) /\ CanRender(q, id)
  BY <1>3 DEF InFlight, CanRender, IsActive
<1>10. Typed(d)
  BY <1>3, <1>8 DEF Good, Typed
<1>11. Sends(d)
  BY <1>2, <1>3, <1>8 DEF Good, Sends, InQueue, InFlight
<1>12. Owns(d)
  <2>1. \A i : Live(p, i) => Live(q, i)
    BY <1>3 DEF Live, InQueue, IsActive
  <2>2. \A i : IsActive(p, i) => IsActive(q, i)
    BY <1>3 DEF IsActive
  <2> QED BY <1>3, <1>8, <2>1, <2>2 DEF Good, Owns, Running
<1>13. OneHook(d) /\ Timed(d)
  BY <1>8 DEF Good, OneHook, Timed, Running, By
<1>14. ~Waiting(d)
  BY <1>8, <1>9 DEF Waiting
<1>15. r.completed \in Nat /\ r.dispatched \in Nat /\ c.run.completed \in Nat
  BY <1>1 DEF Run
<1>16. Counted(d)
  BY <1>8, <1>14, <1>15 DEF Good, Counted
<1>17. r.dispatched # r.completed + 1 /\ (r.quota # 0 => r.completed < r.quota) => OnTrack(d)
  BY <1>8, <1>14 DEF OnTrack
<1>18. Covered(d) /\ Bracketed(d)
  BY <1>8, <1>9 DEF Covered, Bracketed
<1>19. Follows(c, d)
  BY <1>8 DEF Follows, Running, By
<1>20. /\ d.pipe.next = p.next /\ CanRender(d.pipe, id) /\ d.pipe.pending = {}
       /\ d.pipe.active # None
  BY <1>3, <1>8, <1>9
<1> QED
  BY <1>8, <1>10, <1>11, <1>12, <1>13, <1>16, <1>17, <1>18, <1>19, <1>20 DEF Good, d, q
-----------------------------------------------------------------------------
(* The ticks of a run, through the same operators.                         *)

LEMMA SameTidy ==
  ASSUME NEW c, NEW d, d.pipe = c.pipe, d.owner = c.owner, d.run.key = c.run.key,
         d.run.state = c.run.state, d.run.pauseRequested = c.run.pauseRequested
  PROVE  (Tidy(c) => Tidy(d)) /\ (Calm(c) => Calm(d)) /\ Hush(c, d) /\ (Paced(c) => Paced(d))
<1>1. (Over(c) <=> Over(d)) /\ (Calm(c) <=> Calm(d)) /\ (Paced(c) <=> Paced(d))
  BY DEF Over, Running, Calm, Paced, By
<1> QED BY <1>1 DEF Tidy, Hush, NoNewTick

\* A call that neither adds nor removes a task.
LEMMA WaitsTidy ==
  ASSUME NEW c, Good(c), Tidy(c), Calm(c), NEW q, Waits(c.pipe, q)
  PROVE  LET d == [c EXCEPT !.pipe = q] IN
           Tidy(d) /\ Hush(c, d) /\ (SameTasks(c.pipe, q) => Calm(d))
<1> DEFINE p == c.pipe
           d == [c EXCEPT !.pipe = q]
<1>1. c \in Control /\ Sound(p) /\ c.run \in Run
  BY ControlFields DEF Good, Typed
<1>2. Tempered(p, q) /\ (Ticking(p) => Ticking(q)) /\ Serves(p, q)
  BY <1>1, WaitsTempered, WaitsServes
<1>3. d.pipe = q /\ d.run = c.run /\ d.owner = c.owner /\ c.run.key \in Keys
  BY <1>1 DEF Control, Run
<1> HIDE DEF d
<1>4. Over(d) <=> Over(c)
  BY <1>3 DEF Over, Running
<1>5. InFlight(q) => InFlight(p) /\ q.active = p.active
  BY <1>2 DEF Serves, InFlight
<1>6. Paced(d)
  BY <1>2, <1>3, <1>5 DEF Tidy, Paced, Tempered, By
<1>7. Over(c) => Silent(q) /\ NoNewTick(p, q)
  BY <1>2 DEF Tidy, Tempered
<1>8. Over(c) => Calm(d)
  BY <1>2, <1>3, <1>7, SoundFacts DEF Calm, NoNewTick, Serves, Commands
<1>9. SameTasks(p, q) => Calm(d)
  BY <1>3 DEF SameTasks, Calm
<1> QED BY <1>2, <1>3, <1>4, <1>6, <1>7, <1>8, <1>9 DEF Tidy, Hush, d

\* A one-shot action, of the user or of the run that stopped.
LEMMA OneShotTidy ==
  ASSUME NEW c, Good(c), Tidy(c), Over(c), NEW key \in Keys, NEW f \in BOOLEAN,
         NEW d, Moved(EnqueueAt(c.pipe, key, FALSE, f), d.pipe), Serves(c.pipe, d.pipe),
         d.run.key = c.run.key, d.run.state = c.run.state,
         d.run.pauseRequested = c.run.pauseRequested,
         \A i \in TaskIds : IsActive(c.pipe, i) => d.owner[i] = c.owner[i]
  PROVE  Tidy(d) /\ Calm(d) /\ Hush(c, d)
<1> DEFINE p == c.pipe
           q == d.pipe
<1>1. Sound(p) /\ c.run.key \in Keys
  BY ControlFields DEF Good, Run
<1>2. Tempered(p, q)
  BY <1>1, OneShotTempered
<1>3. Over(d)
  BY DEF Over, Running
<1>4. InFlight(q) => InFlight(p) /\ q.active = p.active
  BY DEF Serves, InFlight
<1>5. InFlight(p) => p.active.id \in TaskIds /\ IsActive(p, p.active.id)
  BY <1>1, SoundFacts, ControlFields DEF InFlight, IsActive, Good
<1>6. Paced(d)
  BY <1>1, <1>2, <1>4, <1>5 DEF Tidy, Paced, Tempered, By
<1>7. Silent(q) /\ NoNewTick(p, q)
  BY <1>2 DEF Tidy, Tempered
<1>8. Calm(d)
  BY <1>1, <1>7, SoundFacts DEF Tidy, Calm, NoNewTick, Serves, Commands
<1> QED BY <1>3, <1>6, <1>7, <1>8 DEF Tidy, Hush

LEMMA CancelTasksTidy ==
  ASSUME NEW c, Good(c), Paced(c), Calm(c), NEW K \in SUBSET Keys
  PROVE  LET d == CancelTasks(c, K) IN
           /\ Calm(d) /\ Hush(c, d) /\ Paced(d)
           /\ (Tidy(c) => Tidy(d)) /\ (c.run.key \in K /\ Over(c) => Tidy(d))
<1> DEFINE p == c.pipe
           d == CancelTasks(c, K)
           q == CancelKeys(p, K)
<1>1. Sound(p) /\ c.run.key \in Keys
  BY ControlFields DEF Good, Run
<1>2. /\ d.pipe = q /\ d.run = c.run
      /\ \A i \in TaskIds : IsActive(p, i) => d.owner[i] = c.owner[i]
  BY CancelTasksGood
<1>3. q.active = p.active /\ q.pending = p.pending
  BY <1>1, CancelKeysSound
<1>4. /\ Tempered(p, q) /\ (Ticking(p) => Ticking(q)) /\ NoNewTick(p, q)
      /\ \A k \in K : Tuned(p, k) => Silent(q)
  BY <1>1, CancelTempered
<1> HIDE DEF d, q
<1>5. (InFlight(q) <=> InFlight(p)) /\ (Over(d) <=> Over(c))
  BY <1>2, <1>3 DEF InFlight, Over, Running
<1>6. InFlight(p) => p.active.id \in TaskIds /\ IsActive(p, p.active.id)
  BY <1>1, SoundFacts, ControlFields DEF InFlight, IsActive, Good
<1>7. Paced(d)
  BY <1>1, <1>2, <1>3, <1>4, <1>5, <1>6 DEF Paced, Tempered, By
<1>8. Calm(d)
  BY <1>2, <1>3 DEF Calm
<1>9. Over(c) /\ (Silent(p) \/ c.run.key \in K) => Silent(q)
  BY <1>4 DEF Tempered, Paced
<1> QED BY <1>2, <1>4, <1>5, <1>7, <1>8, <1>9 DEF Tidy, Hush, d, q

\* finish() drops what the run would repeat; the stop hook is no tick.
LEMMA HaltTidy ==
  ASSUME NEW c, Good(c), Running(c), Paced(c), Calm(c), NEW reason \in Reasons,
         reason \notin NoHookReasons => c.pipe.next <= MaxTasks
  PROVE  LET d == Halt(c, reason) IN Tidy(d) /\ Calm(d) /\ Over(d) /\ Hush(c, d)
<1> DEFINE d == Halt(c, reason)
           p == CancelKeys(c.pipe, {c.run.key})
           q == d.pipe
<1>1. Sound(c.pipe) /\ c.run.key \in Keys /\ {c.run.key} \in SUBSET Keys
  BY ControlFields DEF Good, Run
<1>2. /\ ~Running(d) /\ d.run.key = c.run.key
      /\ d.pipe = p \/ d.pipe = EnqueueFront(p, StopKey)
      /\ \A i \in TaskIds : IsActive(c.pipe, i) => d.owner[i] = c.owner[i]
  BY HaltGood
<1>3. p.active = c.pipe.active /\ p.pending = c.pipe.pending /\ Sound(p)
  BY <1>1, CancelKeysSound
<1>4. Tuned(p, c.run.key) /\ Silent(p) /\ NoNewTick(c.pipe, p)
  BY <1>1, CancelTempered DEF Paced, Tempered
<1> HIDE DEF d, p
<1>5. q = p \/ (Serves(p, q) /\ Tempered(p, q))
  BY <1>2, <1>3, EnqueueFrontServes, OneShotTempered, KeysAssumption
<1>6. Tuned(q, c.run.key) /\ Silent(q) /\ NoNewTick(p, q)
  BY <1>1, <1>4, <1>5 DEF Tempered, NoNewTick
<1>7. InFlight(q) => InFlight(c.pipe) /\ q.active = c.pipe.active
  BY <1>3, <1>5 DEF InFlight, Serves
<1>8. InFlight(c.pipe) => c.pipe.active.id \in TaskIds /\ IsActive(c.pipe, c.pipe.active.id)
  BY <1>1, SoundFacts, ControlFields DEF InFlight, IsActive, Good
<1>9. Paced(d)
  BY <1>2, <1>6, <1>7, <1>8 DEF Paced, By
<1>10. Calm(d)
  BY <1>3, <1>5, <1>6, SoundFacts DEF Calm, NoNewTick, Serves, Commands
<1>11. NoNewTick(c.pipe, q)
  BY <1>4, <1>6 DEF NoNewTick
<1> QED BY <1>2, <1>6, <1>9, <1>10, <1>11 DEF Tidy, Over, Hush, d

LEMMA SendTidy ==
  ASSUME NEW c, Good(c), OnTrack(c), c.pipe.pending # {}, Tidy(c)
  PROVE  LET d == Sent(Claim(c)) IN Tidy(d) /\ Calm(d) /\ Hush(c, d)
<1> DEFINE d == Sent(Claim(c))
           p == c.pipe
           q == ConsumeCommands(p)
<1>1. Sound(p) /\ p.active # None /\ p.active.id \in TaskIds /\ c.run.key \in Keys
  BY PendingFacts, ControlFields DEF Good, Run
<1>2. /\ d.pipe = q /\ d.run.key = c.run.key /\ d.run.state = c.run.state
      /\ d.run.pauseRequested = c.run.pauseRequested
      /\ Mine(c) => By(d, p.active.id, "action")
  BY SendGood
<1>3. /\ q.queue = p.queue /\ q.active = p.active /\ q.continuousKeys = p.continuousKeys
      /\ q.pending = {}
  BY <1>1, ConsumeSound
<1> HIDE DEF d, q
<1>4. Tempered(p, q) /\ (Ticking(p) => Ticking(q)) /\ NoNewTick(p, q)
  BY <1>3, SameTasksTempered
<1>5. Over(d) <=> Over(c)
  BY <1>2 DEF Over, Running
<1>6. p.active.continuous => Mine(c)
  <2> SUFFICES ASSUME p.active.continuous
               PROVE  Mine(c)
    OBVIOUS
  <2>1. Running(c) /\ ~c.run.settled
    BY DEF Tidy, Calm, Over, Good, Timed
  <2>2. p.active.key = c.run.key
    BY <1>1 DEF Tidy, Paced, Tuned
  <2>3. ~OwnedBy(c, p.active.id, "lifecycle")
    <3>1. [run |-> c.run.id, source |-> "lifecycle"] # None
      BY OwnerAssumption, ControlFields DEF Owner, Good, Run
    <3> QED BY <1>1, <2>1, <3>1 DEF OwnedBy, Good, Owns
  <2> QED BY <2>1, <2>2, <2>3 DEF Mine
<1>7. Paced(d)
  BY <1>1, <1>2, <1>3, <1>4, <1>6 DEF Tidy, Paced, Tempered
<1>8. Calm(d)
  BY <1>2, <1>3 DEF Calm
<1> QED BY <1>2, <1>4, <1>5, <1>7, <1>8 DEF Tidy, Tempered, Hush, d

LEMMA UnsendTidy ==
  ASSUME NEW c, Good(c), OnTrack(c), c.pipe.pending # {}, Tidy(c),
         NEW outcome \in {"invalid", "failed"}
  PROVE  LET d == Unsend(Claim(c), outcome) IN Tidy(d) /\ Calm(d) /\ Hush(c, d)
<1> DEFINE d == Unsend(Claim(c), outcome)
           id == c.pipe.active.id
           p == ConsumeCommands(c.pipe)
           q == CancelPendingDispatch(p, id)
<1>1. /\ Sound(c.pipe) /\ c.pipe.active # None /\ c.pipe.active.stage = "dispatched"
      /\ c.pipe.pending = {id} /\ c.run.key \in Keys
  BY PendingFacts, ControlFields DEF Good, Run
<1>2. /\ d.pipe = q /\ d.run.key = c.run.key /\ d.run.state = c.run.state
      /\ d.run.pauseRequested = c.run.pauseRequested
  BY UnsendGood
<1>3. /\ p.queue = c.pipe.queue /\ p.active = c.pipe.active /\ p.pending = {} /\ Sound(p)
      /\ p.continuousKeys = c.pipe.continuousKeys
  BY <1>1, ConsumeSound
<1>4. Tempered(c.pipe, p) /\ (Ticking(c.pipe) => Ticking(p)) /\ NoNewTick(c.pipe, p)
  BY <1>3, SameTasksTempered
<1>5. CanComplete(p, id)
  BY <1>1, <1>3 DEF CanComplete, IsActive
<1>6. /\ Tempered(p, q) /\ (Ticking(p) => Ticking(q))
      /\ \A k \in Keys : Tuned(p, k) /\ p.active.continuous => q.active = None \/ ~q.active.continuous
  BY <1>3, <1>5, CancelPendingTempered
<1>7. Frees(p, q, id)
  BY <1>3, <1>5, CancelPendingFrees
<1> HIDE DEF d, p, q
<1>8. Over(d) <=> Over(c)
  BY <1>2 DEF Over, Running
<1>9. ~InFlight(q)
  BY <1>7 DEF Frees, InFlight
<1>10. Tuned(p, c.run.key)
  BY <1>1, <1>4 DEF Tidy, Paced, Tempered
<1>11. Paced(d)
  BY <1>1, <1>2, <1>6, <1>9, <1>10 DEF Paced, Tempered
<1>12. Over(c) => Silent(q) /\ NoNewTick(c.pipe, q)
  BY <1>4, <1>6 DEF Tidy, Tempered, NoNewTick
<1>13. ~Over(c) => Ticking(q)
  BY <1>4, <1>6 DEF Tidy
<1>14. Over(c) => q.active = None \/ ~q.active.continuous
  BY <1>1, <1>12 DEF Tidy, Calm, NoNewTick
<1>15. ~Over(c) => q.active = None \/ ~q.active.continuous
  BY <1>1, <1>3, <1>6, <1>10 DEF Tidy, Ticking
<1>16. q.pending # {} => q.active # None
  BY <1>7, SoundFacts DEF Frees, Commands
<1>17. Calm(d)
  BY <1>2, <1>14, <1>15, <1>16 DEF Calm
<1> QED BY <1>2, <1>8, <1>11, <1>12, <1>13, <1>17 DEF Tidy, Hush, d

LEMMA AfterFailureTidy ==
  ASSUME NEW c, Good(c), Tidy(c), Calm(c), NEW outcome \in {"invalid", "failed"},
         NEW again \in SendOutcomes
  PROVE  LET d == AfterFailure(c, outcome, again) IN Tidy(d) /\ Calm(d) /\ Hush(c, d)
<1> DEFINE d == AfterFailure(c, outcome, again)
           h == Halt(c, FailureReason(outcome))
           u == Unsend(Claim(h), again)
           s == Sent(Claim(h))
<1>1. /\ FailureReason(outcome) \in NoHookReasons /\ FailureReason(outcome) \in Reasons
      /\ FailureReason(again) \in Reasons
  BY DEF FailureReason, NoHookReasons, Reasons
<1>2. again = "sent" \/ again \in {"invalid", "failed"}
  BY OutcomesAssumption
<1>3. CASE ~Running(c)
  <2>1. d = AddReason(c, FailureReason(outcome))
    BY <1>3 DEF AfterFailure
  <2> HIDE DEF d
  <2> QED BY <1>1, <2>1, AddReasonGood, SameTidy DEF d
<1>4. CASE Running(c)
  <2>1. Good(h) /\ OnTrack(h)
    BY <1>1, <1>4, HaltUnhooked
  <2>2. Tidy(h) /\ Calm(h) /\ Hush(c, h)
    BY <1>1, <1>4, HaltTidy DEF Tidy
  <2>3. d = IF h.pipe.pending = {} THEN MaybeSettle(h)
            ELSE IF again = "sent" THEN MaybeSettle(s)
            ELSE AddReason(u, FailureReason(again))
    BY <1>4 DEF AfterFailure
  <2>4. h.pipe.pending # {} /\ again = "sent" =>
          Good(s) /\ Tidy(s) /\ Calm(s) /\ Hush(h, s)
    BY <2>1, <2>2, SendGood, SendTidy
  <2>5. h.pipe.pending # {} /\ again # "sent" =>
          Good(u) /\ Tidy(u) /\ Calm(u) /\ Hush(h, u)
    BY <1>2, <2>1, <2>2, UnsendGood, UnsendTidy
  <2> HIDE DEF h, u, s, d
  <2>6. CASE h.pipe.pending = {}
    <3>1. d = MaybeSettle(h)
      BY <2>3, <2>6
    <3> QED BY <2>1, <2>2, <3>1, MaybeSettleGood, SameTidy, HushTransitive DEF d
  <2>7. CASE h.pipe.pending # {} /\ again = "sent"
    <3>1. d = MaybeSettle(s)
      BY <2>3, <2>7
    <3>2. Tidy(d) /\ Calm(d) /\ Hush(s, d)
      BY <2>4, <2>7, <3>1, MaybeSettleGood, SameTidy
    <3> QED BY <2>2, <2>4, <2>7, <3>2, HushTransitive DEF d
  <2>8. CASE h.pipe.pending # {} /\ again # "sent"
    <3>1. d = AddReason(u, FailureReason(again))
      BY <2>3, <2>8
    <3>2. Tidy(d) /\ Calm(d) /\ Hush(u, d)
      BY <1>1, <2>5, <2>8, <3>1, AddReasonGood, SameTidy
    <3> QED BY <2>2, <2>5, <2>8, <3>2, HushTransitive DEF d
  <2> QED BY <2>6, <2>7, <2>8
<1> QED BY <1>3, <1>4

\* After a flush no tick is left to be sent.
LEMMA FlushTidy ==
  ASSUME NEW c, Good(c), OnTrack(c), Tidy(c), NEW o \in SendPairs
  PROVE  LET d == Flush(c, o) IN Tidy(d) /\ Calm(d) /\ Hush(c, d)
<1> DEFINE d == Flush(c, o)
           u == Unsend(Claim(c), o.first)
<1>1. (o.first = "sent" \/ o.first \in {"invalid", "failed"}) /\ o.again \in SendOutcomes
  BY OutcomesAssumption DEF SendPairs
<1>2. CASE c.pipe.pending = {}
  BY <1>2 DEF Flush, Calm, Hush, NoNewTick
<1>3. CASE c.pipe.pending # {} /\ o.first = "sent"
  <2>1. d = Sent(Claim(c))
    BY <1>3 DEF Flush
  <2> HIDE DEF d
  <2> QED BY <1>3, <2>1, SendTidy DEF d
<1>4. CASE c.pipe.pending # {} /\ o.first \in {"invalid", "failed"}
  <2>1. Good(u) /\ Tidy(u) /\ Calm(u) /\ Hush(c, u)
    BY <1>4, UnsendGood, UnsendTidy
  <2>2. d = AfterFailure(u, o.first, o.again)
    BY <1>4 DEF Flush
  <2> HIDE DEF d, u
  <2>3. Tidy(d) /\ Calm(d) /\ Hush(u, d)
    BY <1>1, <1>4, <2>1, <2>2, AfterFailureTidy
  <2> QED BY <2>1, <2>3, HushTransitive DEF d
<1> QED BY <1>1, <1>2, <1>3, <1>4

LEMMA FinishTidy ==
  ASSUME NEW c, Good(c), Paced(c), Calm(c), Running(c) \/ Tidy(c),
         NEW reason \in Reasons, NEW o \in SendPairs,
         reason \notin NoHookReasons => c.pipe.next <= MaxTasks
  PROVE  LET d == Finish(c, reason, o) IN Tidy(d) /\ Calm(d) /\ Hush(c, d)
<1> DEFINE d == Finish(c, reason, o)
           h == Halt(c, reason)
           f == Flush(h, o)
<1>1. CASE ~Running(c)
  <2>1. d = AddReason(c, reason)
    BY <1>1 DEF Finish
  <2> HIDE DEF d
  <2> QED BY <1>1, <2>1, AddReasonGood, SameTidy DEF d
<1>2. CASE Running(c)
  <2>1. ~c.run.settled
    BY <1>2 DEF Good, Timed
  <2>2. d = IF f.threw THEN f ELSE MaybeSettle(f)
    BY <1>2, <2>1 DEF Finish
  <2>3. Good(h) /\ OnTrack(h) /\ Tidy(h) /\ Hush(c, h)
    BY <1>2, HaltGood, HaltTidy
  <2> HIDE DEF h
  <2>4. Good(f) /\ Tidy(f) /\ Calm(f) /\ Hush(h, f)
    BY <2>3, FlushGood, FlushTidy
  <2> HIDE DEF f, d
  <2>5. Tidy(d) /\ Calm(d) /\ Hush(f, d)
    <3>1. d = f \/ d = MaybeSettle(f)
      BY <2>2
    <3>2. CASE d = f
      BY <2>4, <3>2 DEF Hush, NoNewTick
    <3>3. CASE d = MaybeSettle(f)
      BY <2>4, <3>3, MaybeSettleGood, SameTidy
    <3> QED BY <3>1, <3>2, <3>3
  <2> QED BY <2>3, <2>4, <2>5, HushTransitive DEF d
<1> QED BY <1>1, <1>2

LEMMA FreeTidy ==
  ASSUME NEW c, Good(c), Tidy(c), NEW id \in TaskIds, CanRender(c.pipe, id),
         c.pipe.next <= MaxTasks
  PROVE  LET d == [c EXCEPT !.pipe = MarkRendered(@, id), !.owner[id] = None] IN
           Tidy(d) /\ Hush(c, d)
<1> DEFINE p == c.pipe
           q == MarkRendered(p, id)
           d == [c EXCEPT !.pipe = MarkRendered(@, id), !.owner[id] = None]
<1>1. Sound(p) /\ c.run.key \in Keys
  BY ControlFields DEF Good, Run
<1>2. d.pipe = q /\ d.run = c.run
  BY FreeGood
<1>3. Frees(p, q, id)
  BY <1>1, MarkRenderedFrees
<1>4. Tempered(p, q) /\ (Ticking(p) /\ Tuned(p, c.run.key) => Ticking(q))
  BY <1>1, MarkRenderedTempered
<1>5. p.active # None /\ p.active.id = id /\ id < p.next /\ ~InQueue(p, id)
      /\ id \in Nat /\ p.next \in Nat
  BY <1>1, SoundFacts DEF CanRender, IsActive, InQueue
<1> HIDE DEF d, q
<1>6. Over(d) <=> Over(c)
  BY <1>2 DEF Over, Running
<1>7. ~InFlight(q)
  BY <1>3 DEF Frees, InFlight
<1>8. Paced(d)
  BY <1>1, <1>2, <1>4, <1>7 DEF Tidy, Paced, Tempered
<1>9. Over(c) => Silent(q) /\ NoNewTick(p, q)
  BY <1>4 DEF Tidy, Tempered
<1>10. q.pending # {} => q.active # None /\ q.active.id # id
  <2>1. Commands(q)
    BY <1>3, SoundFacts DEF Frees
  <2>2. id \notin q.pending
    BY <1>3, <1>5 DEF Frees
  <2> QED BY <2>1, <2>2 DEF Commands
<1>11. Over(c) => Calm(d)
  BY <1>2, <1>5, <1>9, <1>10 DEF Calm, NoNewTick
<1>12. ~Over(c) => Ticking(q)
  BY <1>1, <1>4 DEF Tidy, Paced
<1> QED BY <1>2, <1>6, <1>8, <1>9, <1>11, <1>12 DEF Tidy, Hush, d

\* A result changes the stage of the active task and the counters of the run.
LEMMA CompleteTidy ==
  ASSUME NEW c, Good(c), Tidy(c), InFlight(c.pipe), NEW continues \in BOOLEAN,
         NEW d, d.pipe = MarkApplied(CompleteTask(c.pipe, c.pipe.active.id, continues),
                                     c.pipe.active.id),
         d.run.key = c.run.key, d.run.state = c.run.state,
         d.run.pauseRequested = c.run.pauseRequested
  PROVE  Tidy(d) /\ Calm(d) /\ Hush(c, d)
<1> DEFINE p == c.pipe
           q == d.pipe
<1>1. Sound(p)
  BY ControlFields DEF Good
<1>2. CanComplete(p, p.active.id) /\ p.pending = {} /\ p.active # None
  BY DEF InFlight, CanComplete, IsActive
<1>3. /\ q.queue = p.queue /\ q.pending = {} /\ q.continuousKeys = p.continuousKeys
      /\ q.active # None /\ q.active.id = p.active.id /\ q.active.stage = "applied"
      /\ q.active.key = p.active.key /\ q.active.continuous = p.active.continuous
  BY <1>1, <1>2, StageSound
<1>4. Over(d) <=> Over(c)
  BY DEF Over, Running
<1>5. Paced(d) /\ Calm(d)
  BY <1>2, <1>3 DEF Tidy, Paced, Tuned, InFlight, Calm
<1>6. /\ Silent(p) => Silent(q)
      /\ Ticking(p) => Ticking(q)
      /\ NoNewTick(p, q)
  BY <1>2, <1>3 DEF Silent, Ticking, NoNewTick
<1> QED BY <1>4, <1>5, <1>6 DEF Tidy, Hush
-----------------------------------------------------------------------------
(* The public methods, on the control record.                              *)

Rests(c, d) == Tidy(c) /\ Calm(c) => Tidy(d) /\ Calm(d) /\ Hush(c, d)

\* What every call but the start of a run does.
Leads(c, d) == Good(d) /\ OnTrack(d) /\ Follows(c, d) /\ Rests(c, d)

LEMMA LeadsTransitive ==
  ASSUME NEW c, NEW d, NEW e, Leads(c, d), Leads(d, e)
  PROVE  Leads(c, e)
BY FollowsTransitive, HushTransitive DEF Leads, Rests

LEMMA LeadsReflexive ==
  ASSUME NEW c, Good(c), OnTrack(c)
  PROVE  Leads(c, c)
BY FollowsReflexive DEF Leads, Rests, Hush, NoNewTick

LEMMA FlushLeads ==
  ASSUME NEW c, NEW d, Good(d), OnTrack(d), Follows(c, d),
         Tidy(c) /\ Calm(c) => Tidy(d) /\ Hush(c, d),
         NEW o \in SendPairs
  PROVE  Leads(c, Flush(d, o)) /\ Flush(d, o).pipe.next = d.pipe.next
<1> DEFINE f == Flush(d, o)
<1>1. Good(f) /\ OnTrack(f) /\ Follows(d, f) /\ f.pipe.next = d.pipe.next
  BY FlushGood
<1>2. Tidy(d) => Tidy(f) /\ Calm(f) /\ Hush(d, f)
  BY FlushTidy
<1> HIDE DEF f
<1>3. Follows(c, f)
  BY <1>1, FollowsTransitive
<1>4. Rests(c, f)
  BY <1>2, HushTransitive DEF Rests
<1> QED BY <1>1, <1>3, <1>4 DEF Leads, f

LEMMA FinishLeads ==
  ASSUME NEW c, Good(c), OnTrack(c), NEW reason \in Reasons, NEW o \in SendPairs,
         reason \notin NoHookReasons => c.pipe.next <= MaxTasks
  PROVE  Leads(c, Finish(c, reason, o))
BY FinishGood, FinishTidy DEF Leads, Rests, Tidy

LEMMA CancelTasksLeads ==
  ASSUME NEW c, Good(c), OnTrack(c), NEW K \in SUBSET Keys
  PROVE  Leads(c, CancelTasks(c, K))
BY CancelTasksGood, CancelTasksTidy DEF Leads, Rests, Tidy

LEMMA MaybeSettleLeads ==
  ASSUME NEW c, Good(c), OnTrack(c)
  PROVE  Leads(c, MaybeSettle(c))
BY MaybeSettleGood, SameTidy DEF Leads, Rests

\* A call of the pipeline, before its flush.
LEMMA WaitsLeads ==
  ASSUME NEW c, Good(c), OnTrack(c), NEW q, Waits(c.pipe, q)
  PROVE  LET d == [c EXCEPT !.pipe = q] IN
           /\ Good(d) /\ OnTrack(d) /\ Follows(c, d)
           /\ Tidy(c) /\ Calm(c) => Tidy(d) /\ Hush(c, d)
           /\ SameTasks(c.pipe, q) => Leads(c, d)
<1> DEFINE d == [c EXCEPT !.pipe = q]
<1>1. Serves(c.pipe, q) /\ q.next <= MaxTasks + 1
  BY WaitsServes, ControlFields DEF Good, Typed
<1>2. Good(d) /\ OnTrack(d) /\ Follows(c, d)
  BY <1>1, ServedGood
<1>3. Tidy(c) /\ Calm(c) => Tidy(d) /\ Hush(c, d) /\ (SameTasks(c.pipe, q) => Calm(d))
  BY WaitsTidy
<1> QED BY <1>2, <1>3 DEF Leads, Rests

LEMMA EnqueueGood ==
  ASSUME NEW c, Good(c), OnTrack(c), NEW key \in Keys, NEW continuous \in BOOLEAN,
         c.pipe.next <= MaxTasks
  PROVE  LET d == [c EXCEPT !.pipe = Enqueue(@, key, continuous)] IN
           /\ Good(d) /\ OnTrack(d) /\ Follows(c, d)
           /\ d.pipe = Enqueue(c.pipe, key, continuous) /\ d.run = c.run /\ d.owner = c.owner
<1> DEFINE q == Enqueue(c.pipe, key, continuous)
           d == [c EXCEPT !.pipe = q]
<1>1. Sound(c.pipe) /\ c.pipe.next \in Nat /\ c \in Control
  BY ControlFields, SoundFacts DEF Good, Typed
<1>2. Serves(c.pipe, q) /\ q.next <= c.pipe.next + 1
  BY <1>1, EnqueueServes
<1>3. q.next <= MaxTasks + 1
  <2>1. q.next \in Nat
    BY <1>2, SoundFacts DEF Serves
  <2> QED BY <1>1, <1>2, <2>1, BoundsAssumption
<1> HIDE DEF q
<1>4. Good(d) /\ OnTrack(d) /\ Follows(c, d)
  BY <1>2, <1>3, ServedGood
<1>5. d.pipe = q /\ d.run = c.run /\ d.owner = c.owner
  BY <1>1 DEF Control
<1>6. [c EXCEPT !.pipe = Enqueue(@, key, continuous)] = d
  BY DEF q
<1> QED BY <1>4, <1>5, <1>6 DEF q

\* A one-shot action behind a run that is over.
LEMMA OneShotLeads ==
  ASSUME NEW c, Good(c), OnTrack(c), Over(c), NEW key \in Keys, c.pipe.next <= MaxTasks,
         NEW o \in SendPairs
  PROVE  Leads(c, Flush([c EXCEPT !.pipe = Enqueue(@, key, FALSE)], o))
<1> DEFINE d == [c EXCEPT !.pipe = Enqueue(@, key, FALSE)]
<1>1. /\ Good(d) /\ OnTrack(d) /\ Follows(c, d)
      /\ d.pipe = Enqueue(c.pipe, key, FALSE) /\ d.run = c.run /\ d.owner = c.owner
  BY EnqueueGood
<1>2. Serves(c.pipe, d.pipe) /\ Moved(EnqueueAt(c.pipe, key, FALSE, FALSE), d.pipe)
  BY <1>1, EnqueueServes DEF Good, Typed
<1> HIDE DEF d
<1>3. Tidy(c) => Tidy(d) /\ Hush(c, d)
  <2>1. \A i \in TaskIds : IsActive(c.pipe, i) => d.owner[i] = c.owner[i]
    BY <1>1
  <2> QED BY <1>1, <1>2, <2>1, OneShotTidy
<1>4. Leads(c, Flush(d, o))
  BY <1>1, <1>3, FlushLeads
<1> QED BY <1>4 DEF d

LEMMA PauseRunLeads ==
  ASSUME NEW c, Good(c), OnTrack(c), c.pipe.next <= MaxTasks, NEW o \in SendPairs
  PROVE  LET d == PauseRun(c, o) IN
           Leads(c, d) /\ Over(d) /\ d.pipe.next <= c.pipe.next + 1
<1> DEFINE r == [c.run EXCEPT !.pauseRequested = TRUE]
           b == [c EXCEPT !.run = r, !.timer = c.timer]
           p == CancelTasks(b, {c.run.key})
           d == PauseRun(c, o)
<1>1. /\ c \in Control /\ c.run \in Run /\ c.timer \in Timer /\ Sound(c.pipe)
      /\ c.pipe.next \in Nat /\ c.run.key \in Keys
  BY ControlFields, SoundFacts DEF Good, Typed, Run
<1>2. CASE ~Running(c)
  <2>1. d = c
    BY <1>2 DEF PauseRun
  <2> HIDE DEF d
  <2> QED BY <1>1, <1>2, <2>1, LeadsReflexive DEF d, Over
<1>3. CASE Running(c)
  <2>1. [c EXCEPT !.run.pauseRequested = TRUE] = b
    BY <1>1 DEF Control, Run
  <2>2. /\ r \in Run /\ r.id = c.run.id /\ r.key = c.run.key /\ r.quota = c.run.quota
        /\ r.state = c.run.state /\ r.pauseRequested
        /\ r.dispatched = c.run.dispatched /\ r.completed = c.run.completed
        /\ r.stateKnown = c.run.stateKnown /\ r.settled = c.run.settled
        /\ r.reasons = c.run.reasons
    BY <1>1 DEF Run
  <2> HIDE DEF r
  <2>3. b.pipe = c.pipe /\ b.run = r /\ b.owner = c.owner
    BY <1>1 DEF Control
  <2>4. ~r.settled
    BY <1>3, <2>2 DEF Good, Timed
  <2>5. Good(b) /\ OnTrack(b) /\ Follows(c, b)
    BY <1>1, <2>2, <2>4, RunGood DEF Good, Covered
  <2>6. Over(b) /\ (Calm(c) => Calm(b)) /\ (Paced(c) => Paced(b))
    BY <2>2, <2>3 DEF Over, Calm, Paced, By
  <2>7. d = IF p.pipe.active # None /\ p.pipe.active.key = c.run.key THEN p
            ELSE Finish(p, "paused", o)
    BY <1>3, <2>1 DEF PauseRun
  <2> HIDE DEF b
  <2>8. {c.run.key} \in SUBSET Keys /\ b.run.key = c.run.key
    BY <1>1, <2>2, <2>3
  <2>9. /\ Good(p) /\ OnTrack(p) /\ Follows(b, p) /\ p.pipe = CancelKeys(c.pipe, {c.run.key})
        /\ p.run = b.run
    BY <2>3, <2>5, <2>8, CancelTasksGood
  <2>10. p.pipe.next = c.pipe.next
    BY <1>1, <2>8, <2>9, CancelKeysSound
  <2>11. Paced(b) /\ Calm(b) => Tidy(p) /\ Calm(p) /\ Hush(b, p)
    BY <2>5, <2>6, <2>8, CancelTasksTidy
  <2>12. Over(p)
    BY <2>6, <2>9 DEF Over, Running
  <2> HIDE DEF p, d
  <2>13. Leads(c, p)
    <3>1. Follows(c, p)
      BY <2>5, <2>9, FollowsTransitive
    <3>2. Tidy(c) /\ Calm(c) => Tidy(p) /\ Calm(p)
      BY <2>6, <2>11 DEF Tidy
    <3>3. Paced(b) /\ Calm(b) => Hush(c, p)
      BY <2>3, <2>6, <2>11, <2>12 DEF Hush
    <3>4. Tidy(c) /\ Calm(c) => Hush(c, p)
      BY <2>6, <3>3 DEF Tidy
    <3> QED BY <2>9, <3>1, <3>2, <3>4 DEF Leads, Rests
  <2>14. CASE d = p
    BY <1>1, <2>10, <2>12, <2>13, <2>14 DEF d
  <2>15. CASE d = Finish(p, "paused", o)
    <3>1. "paused" \in Reasons
      BY DEF Reasons
    <3>2. Leads(p, d) /\ ~Running(d) /\ d.pipe.next <= p.pipe.next + 1
      BY <2>9, <2>10, <2>15, <3>1, FinishLeads, FinishGood
    <3>3. Leads(c, d)
      BY <2>13, <3>2, LeadsTransitive
    <3> QED BY <2>10, <3>2, <3>3 DEF d, Over
  <2> QED BY <2>7, <2>14, <2>15
<1> QED BY <1>2, <1>3

\* A new run replaces a settled one.
LEMMA NewRunGood ==
  ASSUME NEW c, Good(c), c.run.settled, c.pipe.active = None,
         NEW key \in Keys, NEW quota \in Nat, NEW stopWhen \in BOOLEAN,
         c.run.id < MaxRuns
  PROVE  LET r == NewRun(c.run.id + 1, key, quota, stopWhen)
             d == [c EXCEPT !.run = r]
         IN  /\ Good(d) /\ OnTrack(d) /\ Running(d) /\ Calm(d)
             /\ d.pipe = c.pipe /\ d.run = r /\ d.owner = c.owner
             /\ r.id = c.run.id + 1 /\ r.key = key
             /\ ~r.pauseRequested /\ ~r.settled
             /\ Tidy(c) => Paced(d)
<1> DEFINE r == NewRun(c.run.id + 1, key, quota, stopWhen)
           d == [c EXCEPT !.run = r]
<1>1. /\ c \in Control /\ c.run \in Run /\ Sound(c.pipe) /\ MaxRuns \in Nat
      /\ c.hooked \subseteq 0 .. MaxRuns
  BY ControlFields, BoundsAssumption DEF Good, Typed
<1>2. /\ r \in Run /\ r.id = c.run.id + 1 /\ r.key = key /\ r.quota = quota
      /\ r.state = "running" /\ r.dispatched = 0 /\ r.completed = 0
      /\ ~r.settled /\ ~r.pauseRequested
  BY <1>1, BoundsAssumption DEF NewRun, Run
<1> HIDE DEF r
<1>3. /\ d \in Control /\ d.pipe = c.pipe /\ d.run = r /\ d.owner = c.owner
      /\ d.timer = c.timer /\ d.deadline = c.deadline /\ d.lifecycle = c.lifecycle
      /\ d.sent = c.sent /\ d.hooked = c.hooked
  BY <1>1, <1>2 DEF Control
<1> HIDE DEF d
<1>4. \A i \in TaskIds : c.owner[i] = None
  BY DEF Good, Owns
<1>5. ~c.deadline
  BY DEF Good, Timed
<1>6. ~InFlight(c.pipe) /\ ~Waiting(d) /\ c.pipe.pending = {}
  BY <1>1, <1>3, SoundFacts DEF InFlight, Waiting, Commands
<1>7. Typed(d) /\ Sends(d)
  BY <1>3 DEF Good, Typed, Sends
<1>8. Owns(d) /\ Timed(d)
  BY <1>2, <1>3, <1>4, <1>5 DEF Owns, Timed
<1>9. OneHook(d)
  <2>1. \A h \in c.hooked : h <= c.run.id /\ h \in Nat
    BY <1>1 DEF Good, OneHook
  <2>2. c.run.id \in Nat
    BY <1>1 DEF Run
  <2>3. \A h \in d.hooked : h <= d.run.id
    BY <1>2, <1>3, <2>1, <2>2
  <2>4. d.run.id \notin d.hooked
    BY <1>2, <1>3, <2>1, <2>2
  <2> QED BY <1>3, <1>4, <2>3, <2>4 DEF OneHook, By
<1>10. Counted(d) /\ OnTrack(d)
  BY <1>2, <1>3, <1>6 DEF Counted, OnTrack
<1>11. Covered(d) /\ Bracketed(d)
  BY <1>3, <1>6 DEF Good, Covered, Bracketed
<1>12. Tidy(c) => Paced(d)
  <2>1. ~Running(c)
    BY DEF Good, Timed
  <2> QED BY <1>3, <1>6, <2>1 DEF Tidy, Over, Silent, Paced, Tuned
<1>13. Running(d) /\ Calm(d)
  BY <1>2, <1>3, <1>6 DEF Running, Calm
<1> QED BY <1>2, <1>3, <1>7, <1>8, <1>9, <1>10, <1>11, <1>12, <1>13 DEF Good, d, r

LEMMA FirstTickGood ==
  ASSUME NEW c, Good(c), OnTrack(c), Running(c), ~c.run.pauseRequested,
         c.pipe.active = None, c.pipe.next <= MaxTasks, NEW wallTime \in BOOLEAN,
         NEW o \in SendPairs
  PROVE  LET q == CancelTasks([c EXCEPT !.deadline = wallTime], Keys)
             d == Flush([q EXCEPT !.pipe = Enqueue(@, c.run.key, TRUE)], o)
         IN  Good(d) /\ OnTrack(d) /\ Follows(c, d) /\ Tidy(d) /\ Calm(d)
<1> DEFINE b == [c EXCEPT !.deadline = wallTime]
           q == CancelTasks(b, Keys)
           e == [q EXCEPT !.pipe = Enqueue(@, c.run.key, TRUE)]
           d == Flush(e, o)
           p == CancelKeys(c.pipe, Keys)
           key == c.run.key
<1>1. c \in Control /\ c.run \in Run /\ Sound(c.pipe) /\ key \in Keys
  BY ControlFields DEF Good, Typed, Run
<1>2. /\ b \in Control /\ b.pipe = c.pipe /\ b.run = c.run /\ b.owner = c.owner
      /\ b.timer = c.timer /\ b.deadline = wallTime /\ b.lifecycle = c.lifecycle
      /\ b.sent = c.sent /\ b.hooked = c.hooked
  BY <1>1 DEF Control
<1> HIDE DEF b
<1>3. Typed(b) /\ Sends(b) /\ Owns(b) /\ OneHook(b)
  BY <1>2 DEF Good, Typed, Sends, Owns, OneHook, Running, By
<1>4. Timed(b) /\ Covered(b) /\ Bracketed(b)
  BY <1>2 DEF Good, Timed, Covered, Bracketed, Running
<1>5. Waiting(b) <=> Waiting(c)
  BY <1>2 DEF Waiting, By
<1>6. Counted(b) /\ OnTrack(b) /\ Follows(c, b)
  BY <1>2, <1>5 DEF Good, Counted, OnTrack, Running, Follows, By
<1>7. Good(b)
  BY <1>3, <1>4, <1>6 DEF Good
<1>8. /\ Good(q) /\ OnTrack(q) /\ Follows(b, q) /\ q.pipe = p /\ q.run = c.run
  BY <1>2, <1>6, <1>7, CancelTasksGood
<1>9. /\ Sound(p) /\ p.next = c.pipe.next /\ p.active = None
      /\ p.queue = {t \in c.pipe.queue : t.key \notin Keys}
      /\ p.continuousKeys = c.pipe.continuousKeys \ Keys
  BY <1>1, CancelKeysSound
<1> HIDE DEF q, p
<1>10. p.queue = {} /\ p.continuousKeys = {}
  <2>1. \A t \in c.pipe.queue : t.key \in Keys
    BY <1>1, SoundFacts DEF Task
  <2>2. c.pipe.continuousKeys \subseteq Keys
    BY <1>1, SoundFacts DEF Pipeline
  <2> QED BY <1>9, <2>1, <2>2
<1>11. Tuned(p, key) /\ Ticking(p)
  BY <1>9, <1>10 DEF Tuned, Ticking
<1>12. /\ Good(e) /\ OnTrack(e) /\ Follows(q, e)
       /\ e.pipe = Enqueue(p, key, TRUE) /\ e.run = c.run /\ e.owner = q.owner
  <2>1. q.pipe.next <= MaxTasks
    BY <1>8, <1>9
  <2>2. /\ Good(e) /\ OnTrack(e) /\ Follows(q, e)
        /\ e.pipe = Enqueue(q.pipe, key, TRUE) /\ e.run = q.run /\ e.owner = q.owner
    BY <1>1, <1>8, <2>1, EnqueueGood
  <2> QED BY <1>8, <2>2
<1>13. Moved(EnqueueAt(p, key, TRUE, FALSE), e.pipe) /\ Serves(p, e.pipe)
  <2>1. /\ Moved(EnqueueAt(p, key, TRUE, FALSE), Enqueue(p, key, TRUE))
        /\ Serves(p, Enqueue(p, key, TRUE))
    BY <1>1, <1>9, EnqueueServes
  <2> QED BY <1>12, <2>1
<1> HIDE DEF e
<1>14. Tuned(e.pipe, key) /\ Ticking(e.pipe)
  BY <1>1, <1>9, <1>11, <1>13, TickTempered
<1>15. ~InFlight(e.pipe)
  BY <1>9, <1>13 DEF Serves, InFlight
<1>16. Tidy(e)
  BY <1>12, <1>14, <1>15 DEF Tidy, Paced, Over, Running
<1>17. Good(d) /\ OnTrack(d) /\ Follows(e, d) /\ Tidy(d) /\ Calm(d)
  BY <1>12, <1>16, FlushGood, FlushTidy
<1> HIDE DEF d
<1>18. Follows(c, d)
  <2>1. Follows(c, q)
    BY <1>6, <1>8, FollowsTransitive
  <2>2. Follows(c, e)
    BY <1>12, <2>1, FollowsTransitive
  <2> QED BY <1>17, <2>2, FollowsTransitive
<1> QED BY <1>17, <1>18 DEF d, e, q, b

\* reset(): what is left when the pipeline is emptied.
LEMMA ClearedGood ==
  ASSUME NEW c, Good(c), ~Running(c), c.run.stateKnown => ~Waiting(c), NEW closed \in BOOLEAN
  PROVE  LET d == [c EXCEPT !.pipe = ResetPipeline(@),
                            !.owner = [i \in TaskIds |-> None],
                            !.timer = NoTimer, !.lifecycle = FALSE,
                            !.sent = IF closed THEN {} ELSE @]
         IN  Leads(c, d)
<1> DEFINE p == ResetPipeline(c.pipe)
           own == [i \in TaskIds |-> None]
           s == IF closed THEN {} ELSE c.sent
           d == [c EXCEPT !.pipe = p, !.owner = own, !.timer = NoTimer, !.lifecycle = FALSE,
                          !.sent = s]
<1>1. c \in Control /\ Sound(c.pipe) /\ c.sent \subseteq TaskIds /\ c.run \in Run
  BY ControlFields DEF Good, Typed
<1>2. /\ Sound(p) /\ p.next = c.pipe.next /\ p.queue = {} /\ p.active = None
      /\ p.pending = {} /\ p.continuousKeys = {}
  BY <1>1, ResetSound
<1>3. p \in Pipeline /\ NoTimer \in Timer /\ own \in [TaskIds -> Owner \cup {None}]
      /\ s \subseteq c.sent
  BY <1>1, <1>2, SoundFacts DEF NoTimer, Timer
<1>4. [c EXCEPT !.pipe = ResetPipeline(@), !.owner = [i \in TaskIds |-> None],
                !.timer = NoTimer, !.lifecycle = FALSE,
                !.sent = IF closed THEN {} ELSE @] = d
  BY <1>1 DEF Control
<1>5. \A i \in TaskIds : own[i] = None
  OBVIOUS
<1> HIDE DEF p, own, s
<1>6. /\ d \in Control /\ d.pipe = p /\ d.run = c.run /\ d.owner = own
      /\ d.timer = NoTimer /\ d.deadline = c.deadline /\ d.lifecycle = FALSE
      /\ d.sent = s /\ d.hooked = c.hooked
  BY <1>1, <1>3 DEF Control
<1> HIDE DEF d
<1>7. Typed(d) /\ Sends(d)
  BY <1>2, <1>3, <1>6 DEF Good, Typed, Sends, InQueue
<1>8. Owns(d) /\ OneHook(d) /\ Timed(d)
  BY <1>5, <1>6 DEF Good, Owns, OneHook, Timed, By, Running
<1>9. ~InFlight(p) /\ ~Waiting(d)
  BY <1>2, <1>6 DEF InFlight, Waiting
<1>10. Counted(d) /\ OnTrack(d)
  BY <1>6, <1>9 DEF Good, Counted, OnTrack, Running
<1>11. Covered(d) /\ Bracketed(d)
  BY <1>6, <1>9 DEF Covered, Bracketed
<1>12. Follows(c, d)
  BY <1>5, <1>6 DEF Follows, By, Running
<1>13. Tidy(d) /\ Calm(d) /\ Hush(c, d)
  BY <1>2, <1>6 DEF Tidy, Paced, Tuned, Silent, Calm, Over, Running, InFlight, Hush, NoNewTick
<1> QED BY <1>4, <1>7, <1>8, <1>10, <1>11, <1>12, <1>13 DEF Good, Leads, Rests

\* What Reset does to the control record.
AfterReset(c, lost, reason, closed, o) ==
  LET f == Finish([c EXCEPT !.run.stateKnown = @ /\ ~lost], reason, o)
      r == [f EXCEPT !.pipe = ResetPipeline(@),
                     !.owner = [i \in TaskIds |-> None],
                     !.timer = NoTimer, !.lifecycle = FALSE,
                     !.sent = IF closed THEN {} ELSE @]
  IN  IF f.threw THEN f ELSE MaybeSettle(r)

LEMMA ResetLeads ==
  ASSUME NEW c, Good(c), OnTrack(c), NEW reason \in NoHookReasons, NEW closed \in BOOLEAN,
         NEW o \in SendPairs, NEW lost \in BOOLEAN,
         lost \/ c.run.settled \/ c.pipe.active = None
  PROVE  Leads(c, AfterReset(c, lost, reason, closed, o))
<1> DEFINE k == c.run.stateKnown /\ ~lost
           u == [c.run EXCEPT !.stateKnown = k]
           b == [c EXCEPT !.run = u, !.timer = c.timer]
           f == Finish(b, reason, o)
           r == [f EXCEPT !.pipe = ResetPipeline(@),
                          !.owner = [i \in TaskIds |-> None],
                          !.timer = NoTimer, !.lifecycle = FALSE,
                          !.sent = IF closed THEN {} ELSE @]
<1>1. c \in Control /\ c.run \in Run /\ c.timer \in Timer /\ reason \in Reasons
  BY ControlFields DEF Good, Typed, NoHookReasons, Reasons
<1>2. [c EXCEPT !.run.stateKnown = @ /\ ~lost] = b
  BY <1>1 DEF Control, Run
<1>3. k \in BOOLEAN /\ (k => c.run.stateKnown) /\ (k => ~lost)
  BY <1>1 DEF Run
<1> HIDE DEF k
<1>4. /\ u \in Run /\ u.id = c.run.id /\ u.key = c.run.key /\ u.quota = c.run.quota
      /\ u.state = c.run.state /\ u.pauseRequested = c.run.pauseRequested
      /\ u.dispatched = c.run.dispatched /\ u.completed = c.run.completed
      /\ u.stateKnown = k /\ u.settled = c.run.settled /\ u.reasons = c.run.reasons
  BY <1>1, <1>3 DEF Run
<1> HIDE DEF u
<1>5. /\ b.pipe = c.pipe /\ b.run = u /\ b.owner = c.owner
  BY <1>1 DEF Control
<1>6. c.run.settled => ~Running(c) /\ \A i \in TaskIds : c.owner[i] = None
  BY DEF Good, Timed, Owns
<1>7. Good(b) /\ OnTrack(b) /\ Follows(c, b)
  <2>1. u.stateKnown => c.run.stateKnown
    BY <1>3, <1>4
  <2>2. InFlight(c.pipe) => c.timer.armed /\ c.timer.task = c.pipe.active.id
    BY DEF Good, Covered
  <2> QED BY <1>1, <1>4, <1>6, <2>1, <2>2, RunGood
<1>8. Rests(c, b)
  BY <1>4, <1>5, SameTidy DEF Rests
<1> HIDE DEF b
<1>9. Leads(c, b)
  BY <1>7, <1>8 DEF Leads
<1>10. /\ Leads(b, f) /\ ~Running(f)
       /\ b.pipe.active = None => f.pipe.active = None
  BY <1>1, <1>7, FinishLeads, FinishGood
<1> HIDE DEF f
<1>11. Leads(c, f) /\ Follows(b, f) /\ Good(f) /\ OnTrack(f)
  BY <1>9, <1>10, LeadsTransitive DEF Leads
<1>12. f.run.stateKnown => ~Waiting(f)
  <2> SUFFICES ASSUME f.run.stateKnown
               PROVE  ~Waiting(f)
    OBVIOUS
  <2>1. c.run.settled \/ c.pipe.active = None
    BY <1>3, <1>4, <1>5, <1>11 DEF Follows
  <2>2. CASE c.run.settled
    <3>1. f.run.settled
      BY <1>4, <1>5, <1>11, <2>2 DEF Follows
    <3>2. \A i \in TaskIds : ~By(f, i, "action")
      BY <1>11, <3>1 DEF Good, Owns, By
    <3>3. InFlight(f.pipe) => f.pipe.active.id \in TaskIds
      BY <1>11, ControlFields, SoundFacts DEF Good, InFlight
    <3> QED BY <3>2, <3>3 DEF Waiting
  <2>3. CASE c.pipe.active = None
    BY <1>5, <1>10, <2>3 DEF Waiting, InFlight
  <2> QED BY <2>1, <2>2, <2>3
<1>13. Leads(f, r)
  BY <1>10, <1>11, <1>12, ClearedGood
<1> HIDE DEF r
<1>14. Leads(f, MaybeSettle(r))
  BY <1>13, MaybeSettleLeads, LeadsTransitive DEF Leads
<1>15. Leads(c, MaybeSettle(r))
  BY <1>11, <1>14, LeadsTransitive
<1> QED BY <1>2, <1>11, <1>15 DEF f, r, AfterReset

LEMMA OwnerFacts ==
  ASSUME NEW c, Good(c), NEW i \in TaskIds
  PROVE  /\ \A s \in {"action", "lifecycle"} : OwnedBy(c, i, s) <=> By(c, i, s)
         /\ OwnedByRun(c, i) <=> By(c, i, "action") \/ By(c, i, "lifecycle")
<1>1. c.owner[i] \in Owner \cup {None} /\ c.run.id \in 0 .. MaxRuns
  BY ControlFields DEF Good, Run
<1>2. \A s \in {"action", "lifecycle"} : [run |-> c.run.id, source |-> s] # None
  BY <1>1, OwnerAssumption DEF Owner
<1>3. c.owner[i] # None => c.owner[i].run = c.run.id
  BY DEF Good, Owns
<1> QED BY <1>1, <1>2, <1>3 DEF OwnedBy, By, OwnedByRun, Owner

LEMMA CompleteRun ==
  ASSUME NEW c, Good(c), InFlight(c.pipe), NEW t \in Timer, NEW continues \in BOOLEAN
  PROVE  LET b == CompleteActive([c EXCEPT !.timer = t], continues) IN
           b \in Control /\ b.run = c.run
<1> DEFINE p == MarkApplied(CompleteTask(c.pipe, c.pipe.active.id, continues), c.pipe.active.id)
           l == c.lifecycle /\ c.pipe.active.key # ResetKey
           b == [c EXCEPT !.timer = t, !.pipe = p, !.lifecycle = l]
<1>1. c \in Control /\ Sound(c.pipe)
  BY ControlFields DEF Good, Typed
<1>2. CompleteActive([c EXCEPT !.timer = t], continues) = b
  BY <1>1 DEF CompleteActive, Control
<1>3. CanComplete(c.pipe, c.pipe.active.id) /\ c.pipe.pending = {}
  BY DEF InFlight, CanComplete, IsActive
<1>4. p \in Pipeline
  BY <1>1, <1>3, StageSound, SoundFacts
<1>5. l \in BOOLEAN
  BY <1>1 DEF Control
<1> HIDE DEF p, l
<1> QED BY <1>1, <1>2, <1>4, <1>5 DEF Control

\* The result of an action that no tick of the run is waiting for.
LEMMA CompleteLeads ==
  ASSUME NEW c, Good(c), OnTrack(c), InFlight(c.pipe), ~By(c, c.pipe.active.id, "action"),
         NEW t \in Timer, NEW continues \in BOOLEAN
  PROVE  LET d == CompleteActive([c EXCEPT !.timer = t], continues) IN
           /\ Leads(c, d) /\ d.pipe.next = c.pipe.next
           /\ CanRender(d.pipe, c.pipe.active.id) /\ d.pipe.pending = {} /\ d.pipe.active # None
<1> DEFINE b == CompleteActive([c EXCEPT !.timer = t], continues)
           d == [b EXCEPT !.run = c.run]
<1>1. c \in Control /\ c.run \in Run
  BY ControlFields DEF Good, Typed
<1>2. d = b
  <2>1. b \in Control /\ b.run = c.run
    BY CompleteRun
  <2> HIDE DEF b
  <2> QED BY <2>1 DEF Control
<1>3. ~Waiting(c)
  BY DEF Waiting
<1>4. /\ c.run.completed <= c.run.dispatched
      /\ c.run.stateKnown => c.run.dispatched # c.run.completed + 1
  BY <1>3 DEF Good, Counted
<1>5. Running(c) => /\ c.run.dispatched # c.run.completed + 1
                    /\ c.run.quota # 0 => c.run.completed < c.run.quota
  BY <1>3 DEF OnTrack
<1>6. /\ Good(d) /\ Follows(c, d)
      /\ (/\ c.run.dispatched # c.run.completed + 1
          /\ (c.run.quota # 0 => c.run.completed < c.run.quota)) => OnTrack(d)
      /\ d.pipe = MarkApplied(CompleteTask(c.pipe, c.pipe.active.id, continues), c.pipe.active.id)
      /\ d.run = c.run /\ d.owner = c.owner
      /\ d.pipe.next = c.pipe.next /\ CanRender(d.pipe, c.pipe.active.id)
      /\ d.pipe.pending = {} /\ d.pipe.active # None
  BY <1>1, <1>4, CompleteGood
<1> HIDE DEF d, b
<1>7. OnTrack(d)
  BY <1>5, <1>6 DEF OnTrack, Running
<1>8. Rests(c, d)
  BY <1>6, CompleteTidy DEF Rests
<1> QED BY <1>2, <1>6, <1>7, <1>8 DEF Leads, b

LEMMA FirstReasonType ==
  ASSUME NEW R \in SUBSET Reasons, R # {}
  PROVE  FirstReason(R) \in Reasons
<1>1. R \cap {"condition-error", "action-error"} # {} =>
        (CHOOSE x \in R \cap {"condition-error", "action-error"} : TRUE)
          \in R \cap {"condition-error", "action-error"}
  OBVIOUS
<1>2. (CHOOSE x \in R : TRUE) \in R
  OBVIOUS
<1> QED BY <1>1, <1>2 DEF FirstReason

\* A tick is counted and every reason it gives to stop is taken up.
LEMMA TickLeads ==
  ASSUME NEW c, Good(c), OnTrack(c), InFlight(c.pipe), By(c, c.pipe.active.id, "action"),
         c.pipe.next <= MaxTasks, NEW t \in Timer, NEW continues \in BOOLEAN,
         NEW result, NEW value, NEW o \in SendPairs
  PROVE  Leads(c, ObserveTick(CompleteActive([c EXCEPT !.timer = t], continues), result, value, o))
<1> DEFINE b == CompleteActive([c EXCEPT !.timer = t], continues)
           r == [c.run EXCEPT !.completed = @ + 1]
           e == [b EXCEPT !.run = r]
           R == TickReasons(r, result, value)
           f == Finish(e, FirstReason(R), o)
           g == [f EXCEPT !.run.reasons = @ \cup R]
           d == ObserveTick(b, result, value, o)
<1>1. c \in Control /\ c.run \in Run /\ c.pipe.next \in Nat
  BY ControlFields, SoundFacts DEF Good, Typed
<1>2. [b EXCEPT !.run.completed = @ + 1] = e
  <2>1. b \in Control /\ b.run = c.run
    BY CompleteRun
  <2> HIDE DEF b
  <2> QED BY <2>1 DEF Control
<1>3. Waiting(c)
  BY DEF Waiting
<1>4. c.run.dispatched = c.run.completed + 1
  BY <1>3 DEF Good, Counted
<1>5. ~c.run.settled
  <2>1. c.pipe.active.id \in TaskIds
    BY ControlFields, SoundFacts DEF InFlight, Good
  <2> QED BY <2>1 DEF Good, Owns, By
<1>6. /\ r \in Run /\ r.id = c.run.id /\ r.key = c.run.key /\ r.quota = c.run.quota
      /\ r.state = c.run.state /\ r.pauseRequested = c.run.pauseRequested
      /\ r.dispatched = c.run.dispatched /\ r.completed = c.run.completed + 1
      /\ r.stateKnown = c.run.stateKnown /\ r.settled = c.run.settled
      /\ r.reasons = c.run.reasons
  BY <1>1 DEF Run
<1> HIDE DEF r
<1>7. r.completed <= r.dispatched /\ r.dispatched # r.completed + 1 /\ r.completed \in Nat
      /\ r.quota \in Nat
  BY <1>1, <1>4, <1>6 DEF Run
<1>8. /\ Good(e) /\ Follows(c, e)
      /\ (r.quota # 0 => r.completed < r.quota) => OnTrack(e)
      /\ e.pipe = MarkApplied(CompleteTask(c.pipe, c.pipe.active.id, continues), c.pipe.active.id)
      /\ e.run = r /\ e.pipe.next = c.pipe.next
  BY <1>5, <1>6, <1>7, CompleteGood
<1>9. d = FinishAll(e, R, o)
  BY <1>2, <1>8 DEF ObserveTick
<1>10. R \in SUBSET Reasons /\ (R = {} => (r.quota # 0 => r.completed < r.quota))
  <2>1. R \in SUBSET Reasons
    BY DEF TickReasons, Reasons
  <2>2. QuotaReached(r) => "max-steps" \in R
    BY DEF TickReasons
  <2> QED BY <1>7, <2>1, <2>2 DEF QuotaReached
<1> HIDE DEF b, e, R, d
<1>11. Tidy(c) => Tidy(e) /\ Calm(e) /\ Hush(c, e)
  BY <1>6, <1>8, CompleteTidy
<1>12. CASE R = {}
  <2>1. d = e
    BY <1>9, <1>12 DEF FinishAll
  <2> QED BY <1>8, <1>10, <1>11, <1>12, <2>1 DEF Leads, Rests, d, b
<1>13. CASE R # {}
  <2>1. d = g
    BY <1>5, <1>6, <1>8, <1>9, <1>13 DEF FinishAll
  <2>2. FirstReason(R) \in Reasons
    BY <1>10, <1>13, FirstReasonType
  <2>3. Good(f) /\ OnTrack(f) /\ Follows(e, f)
    BY <1>8, <2>2, FinishGood
  <2>4. Tidy(e) /\ Calm(e) => Tidy(f) /\ Calm(f) /\ Hush(e, f)
    BY <1>8, <2>2, FinishTidy DEF Tidy
  <2> HIDE DEF f
  <2>5. Follows(c, f)
    BY <1>8, <2>3, FollowsTransitive
  <2>6. Good(g) /\ OnTrack(g) /\ Follows(c, g)
    BY <1>5, <1>10, <2>3, <2>5, ReasonsGood
  <2>7. /\ g.pipe = f.pipe /\ g.owner = f.owner /\ g.run.key = f.run.key
        /\ g.run.state = f.run.state /\ g.run.pauseRequested = f.run.pauseRequested
    BY <2>3 DEF Good, Typed, Control, Run
  <2> HIDE DEF g
  <2>8. (Tidy(f) => Tidy(g)) /\ (Calm(f) => Calm(g)) /\ Hush(f, g)
    BY <2>7, SameTidy
  <2>9. Rests(c, g)
    BY <1>11, <2>4, <2>8, HushTransitive DEF Rests
  <2> QED BY <2>1, <2>6, <2>9 DEF Leads, d, b
<1> QED BY <1>12, <1>13

LEMMA ObserveLeads ==
  ASSUME NEW c, Good(c), OnTrack(c), InFlight(c.pipe), c.pipe.next <= MaxTasks,
         NEW result, NEW value, NEW o \in SendPairs
  PROVE  Leads(c, Observe(c, result, value, o))
<1> DEFINE t == c.pipe.active
           tm == ReleaseTimer(c, t)
           k == result # "done"
           b == CompleteActive([c EXCEPT !.timer = tm], k)
           tick == ObserveTick(b, result, value, o)
           ended == Finish(b, "action-error", o)
           seen == IF OwnedBy(c, t.id, "action") THEN tick
                   ELSE IF OwnedBy(c, t.id, "lifecycle") /\ result = "error"
                   THEN ended ELSE b
           d == Observe(c, result, value, o)
<1>1. /\ Sound(c.pipe) /\ t \in Task /\ t.id \in TaskIds /\ t.key \in Keys
      /\ c.timer \in Timer /\ k \in BOOLEAN
  BY ControlFields, SoundFacts DEF Good, InFlight, Task
<1>2. tm \in Timer
  BY <1>1 DEF ReleaseTimer, Timer, NoTimer
<1>3. OwnedBy(c, t.id, "action") <=> By(c, t.id, "action")
  BY <1>1, OwnerFacts
<1>4. d = IF result = "ok" THEN seen ELSE CancelTasks(seen, {t.key})
  BY DEF Observe
<1> HIDE DEF tm, k
<1>5. By(c, t.id, "action") => Leads(c, tick)
  BY <1>1, <1>2, TickLeads
<1>6. ~By(c, t.id, "action") => Leads(c, b) /\ b.pipe.next = c.pipe.next
  BY <1>1, <1>2, CompleteLeads
<1> HIDE DEF b, tick, d
<1>7. ~By(c, t.id, "action") => Leads(c, ended)
  <2>1. "action-error" \in Reasons
    BY DEF Reasons
  <2> SUFFICES ASSUME ~By(c, t.id, "action")
               PROVE  Leads(c, ended)
    OBVIOUS
  <2>2. Leads(b, ended)
    BY <1>6, <2>1, FinishLeads DEF Leads
  <2> HIDE DEF ended
  <2> QED BY <1>6, <2>2, LeadsTransitive
<1> HIDE DEF ended
<1>8. Leads(c, seen)
  BY <1>3, <1>5, <1>6, <1>7
<1> HIDE DEF seen
<1>9. Leads(c, CancelTasks(seen, {t.key}))
  <2>1. {t.key} \in SUBSET Keys
    BY <1>1
  <2>2. Leads(seen, CancelTasks(seen, {t.key}))
    BY <1>8, <2>1, CancelTasksLeads DEF Leads
  <2> QED BY <1>8, <2>2, LeadsTransitive
<1>10. Leads(c, d)
  BY <1>4, <1>8, <1>9
<1> QED BY <1>10 DEF d

\* The active task leaves; what its run still waits for may settle it.
LEMMA FreeLeads ==
  ASSUME NEW c, NEW f, Leads(c, f), NEW id \in TaskIds, CanRender(f.pipe, id),
         f.pipe.next <= MaxTasks, NEW o \in SendPairs
  PROVE  LET d == [f EXCEPT !.pipe = MarkRendered(@, id), !.owner[id] = None] IN
           /\ Leads(c, Flush(MaybeSettle(d), o))
           /\ Leads(c, MaybeSettle(Flush(d, o)))
<1> DEFINE d == [f EXCEPT !.pipe = MarkRendered(@, id), !.owner[id] = None]
           e == MaybeSettle(d)
           g == Flush(d, o)
<1>1. Good(f) /\ OnTrack(f) /\ Follows(c, f) /\ Rests(c, f)
  BY DEF Leads
<1>2. Good(d) /\ OnTrack(d) /\ Follows(f, d)
  BY <1>1, FreeGood
<1>3. Tidy(f) => Tidy(d) /\ Hush(f, d)
  BY <1>1, FreeTidy
<1> HIDE DEF d
<1>4. Follows(c, d) /\ (Tidy(c) /\ Calm(c) => Tidy(d) /\ Hush(c, d))
  BY <1>1, <1>2, <1>3, FollowsTransitive, HushTransitive DEF Rests
<1>5. Leads(c, Flush(e, o))
  <2>1. Good(e) /\ OnTrack(e) /\ Follows(d, e)
    BY <1>2, MaybeSettleGood
  <2>2. (Tidy(d) => Tidy(e)) /\ Hush(d, e)
    BY <1>2, MaybeSettleGood, SameTidy
  <2> HIDE DEF e
  <2>3. Follows(c, e) /\ (Tidy(c) /\ Calm(c) => Tidy(e) /\ Hush(c, e))
    BY <1>4, <2>1, <2>2, FollowsTransitive, HushTransitive
  <2> QED BY <2>1, <2>3, FlushLeads
<1>6. Leads(c, g)
  BY <1>2, <1>4, FlushLeads
<1> HIDE DEF g
<1>7. Leads(g, MaybeSettle(g))
  BY <1>6, MaybeSettleLeads DEF Leads
<1>8. Leads(c, MaybeSettle(g))
  BY <1>6, <1>7, LeadsTransitive
<1> QED BY <1>5, <1>8 DEF d, e, g

LEMMA RenderLeads ==
  ASSUME NEW c, Good(c), OnTrack(c), NEW id \in TaskIds, CanRender(c.pipe, id),
         c.pipe.next < MaxTasks, NEW keep \in BOOLEAN, NEW o \in SendPairs
  PROVE  LET f == IF keep THEN c ELSE Finish(c, "render-error", o)
             d == [f EXCEPT !.pipe = MarkRendered(@, id), !.owner[id] = None]
         IN  Leads(c, Flush(MaybeSettle(d), o))
<1> DEFINE f == IF keep THEN c ELSE Finish(c, "render-error", o)
<1>1. Sound(c.pipe) /\ c.pipe.next \in Nat /\ c.pipe.active # None /\ c.pipe.pending = {}
  <2>1. Sound(c.pipe)
    BY DEF Good, Typed
  <2> QED BY <2>1, SoundFacts DEF CanRender, IsActive, Commands
<1>2. CASE keep
  <2>1. f = c
    BY <1>2
  <2> HIDE DEF f
  <2>2. Leads(c, f) /\ CanRender(f.pipe, id) /\ f.pipe.next <= MaxTasks
    BY <1>1, <2>1, LeadsReflexive, BoundsAssumption
  <2> QED BY <2>2, FreeLeads DEF f
<1>3. CASE ~keep
  <2>1. f = Finish(c, "render-error", o)
    BY <1>3
  <2>2. "render-error" \in Reasons /\ c.pipe.next <= MaxTasks
    BY <1>1, BoundsAssumption DEF Reasons
  <2> HIDE DEF f
  <2>3. Leads(c, f)
    BY <2>1, <2>2, FinishLeads
  <2>4. f.pipe.active = c.pipe.active /\ f.pipe.next <= c.pipe.next + 1
    BY <1>1, <2>1, <2>2, FinishGood
  <2>5. f.pipe.next \in Nat
    BY <2>3, SoundFacts DEF Leads, Good, Typed
  <2>6. CanRender(f.pipe, id) /\ f.pipe.next <= MaxTasks
    BY <1>1, <2>4, <2>5, BoundsAssumption DEF CanRender, IsActive
  <2> QED BY <2>3, <2>6, FreeLeads DEF f
<1> QED BY <1>2, <1>3

\* An overdue action: what it did to the run is unknown.
LEMMA TimeoutEndsLeads ==
  ASSUME NEW c, Good(c), OnTrack(c), InFlight(c.pipe), NEW o \in SendPairs
  PROVE  LET id == c.pipe.active.id
             b == CompleteActive([c EXCEPT !.timer = NoTimer], FALSE)
             d == IF OwnedByRun(b, id)
                  THEN Finish([b EXCEPT !.run.stateKnown = FALSE], "action-timeout", o)
                  ELSE CancelTasks(b, {c.pipe.active.key})
         IN  /\ Leads(c, d) /\ CanRender(d.pipe, id) /\ d.pipe.next = c.pipe.next
<1> DEFINE id == c.pipe.active.id
           key == c.pipe.active.key
           b == CompleteActive([c EXCEPT !.timer = NoTimer], FALSE)
           r == [c.run EXCEPT !.stateKnown = FALSE]
           e == [b EXCEPT !.run = r]
           f == Finish(e, "action-timeout", o)
           g == CancelTasks(b, {key})
           d == IF OwnedByRun(b, id) THEN Finish([b EXCEPT !.run.stateKnown = FALSE], "action-timeout", o)
                ELSE g
<1>1. /\ c \in Control /\ c.run \in Run /\ Sound(c.pipe) /\ id \in TaskIds /\ key \in Keys
      /\ NoTimer \in Timer /\ {key} \in SUBSET Keys
  BY ControlFields, SoundFacts DEF Good, Typed, InFlight, Task, NoTimer, Timer
<1>2. b \in Control /\ b.run = c.run
  BY <1>1, CompleteRun
<1>3. [b EXCEPT !.run.stateKnown = FALSE] = e
  <2> HIDE DEF b
  <2> QED BY <1>2 DEF Control
<1>4. /\ r \in Run /\ r.id = c.run.id /\ r.key = c.run.key /\ r.quota = c.run.quota
      /\ r.state = c.run.state /\ r.pauseRequested = c.run.pauseRequested
      /\ r.dispatched = c.run.dispatched /\ r.completed = c.run.completed
      /\ ~r.stateKnown /\ r.settled = c.run.settled /\ r.reasons = c.run.reasons
  BY <1>1 DEF Run
<1> HIDE DEF r
<1>5. c.run.completed <= c.run.dispatched
  BY DEF Good, Counted
<1>6. /\ Good(e) /\ Follows(c, e)
      /\ e.pipe = MarkApplied(CompleteTask(c.pipe, c.pipe.active.id, FALSE), c.pipe.active.id)
      /\ e.run = r
      /\ e.pipe.next = c.pipe.next /\ CanRender(e.pipe, c.pipe.active.id)
      /\ e.pipe.pending = {} /\ e.pipe.active # None
  <2>1. /\ r.completed = c.run.completed \/ (r.completed = c.run.completed + 1 /\ ~c.run.settled)
        /\ r.completed <= r.dispatched
    BY <1>4, <1>5
  <2>2. /\ r.stateKnown => c.run.stateKnown
        /\ r.stateKnown => r.dispatched # r.completed + 1
    BY <1>4
  <2> DEFINE k == FALSE
             a == MarkApplied(CompleteTask(c.pipe, c.pipe.active.id, k), c.pipe.active.id)
             d0 == [CompleteActive([c EXCEPT !.timer = NoTimer], k) EXCEPT !.run = r]
  <2>3. k \in BOOLEAN
    OBVIOUS
  <2> HIDE DEF k
  <2>4. /\ Good(d0) /\ Follows(c, d0) /\ d0.pipe = a
        /\ d0.run = r
        /\ d0.pipe.next = c.pipe.next /\ CanRender(d0.pipe, c.pipe.active.id)
        /\ d0.pipe.pending = {} /\ d0.pipe.active # None
    BY <1>1, <1>4, <2>1, <2>2, <2>3, CompleteGood
  <2> QED BY <2>4 DEF k
<1>7. /\ b.owner = c.owner
  BY <1>1 DEF CompleteActive, Control
<1>8. OwnedByRun(b, id) <=> OwnedByRun(c, id)
  <2> HIDE DEF b
  <2> QED BY <1>2, <1>7 DEF OwnedByRun
<1>9. OwnedByRun(c, id) <=> By(c, id, "action") \/ By(c, id, "lifecycle")
  BY <1>1, OwnerFacts
<1>10. ~By(c, id, "action") =>
         /\ Leads(c, b) /\ b.pipe.next = c.pipe.next
         /\ CanRender(b.pipe, id) /\ b.pipe.pending = {} /\ b.pipe.active # None
  BY <1>1, CompleteLeads
<1> HIDE DEF b, e
<1>11. CASE OwnedByRun(c, id)
  <2>1. d = f
    BY <1>3, <1>8, <1>11
  <2>2. "action-timeout" \in Reasons /\ "action-timeout" \in NoHookReasons
    BY DEF Reasons, NoHookReasons
  <2>3. /\ Good(f) /\ OnTrack(f) /\ Follows(e, f) /\ f.pipe.next = e.pipe.next
        /\ f.pipe.active = e.pipe.active
    BY <1>6, <2>2, FinishGood
  <2>4. Tidy(c) => Tidy(e) /\ Calm(e) /\ Hush(c, e)
    BY <1>4, <1>6, CompleteTidy
  <2>5. Tidy(e) /\ Calm(e) => Tidy(f) /\ Calm(f) /\ Hush(e, f)
    BY <1>6, <2>2, FinishTidy DEF Tidy
  <2> HIDE DEF f, d
  <2>6. Follows(c, f)
    BY <1>6, <2>3, FollowsTransitive
  <2>7. Rests(c, f)
    BY <2>4, <2>5, HushTransitive DEF Rests
  <2>8. CanRender(f.pipe, id)
    BY <1>6, <2>3 DEF CanRender, IsActive
  <2> QED BY <1>6, <2>1, <2>3, <2>6, <2>7, <2>8 DEF Leads, d, b
<1>12. CASE ~OwnedByRun(c, id)
  <2>1. d = g
    BY <1>8, <1>12
  <2>2. Leads(c, b) /\ b.pipe.next = c.pipe.next /\ CanRender(b.pipe, id) /\ Good(b) /\ OnTrack(b)
    BY <1>9, <1>10, <1>12 DEF Leads
  <2>3. Leads(b, g)
    BY <1>1, <2>2, CancelTasksLeads
  <2>4. g.pipe = CancelKeys(b.pipe, {key})
    BY <1>1, <2>2, CancelTasksGood
  <2>5. g.pipe.active = b.pipe.active /\ g.pipe.next = b.pipe.next
    BY <1>1, <2>2, <2>4, CancelKeysSound DEF Good, Typed
  <2> HIDE DEF g, d
  <2>6. Leads(c, g)
    BY <2>2, <2>3, LeadsTransitive
  <2>7. CanRender(g.pipe, id)
    BY <2>2, <2>5 DEF CanRender, IsActive
  <2> QED BY <2>1, <2>2, <2>5, <2>6, <2>7 DEF d, b, g
<1> QED BY <1>11, <1>12

LEMMA TimeoutLeads ==
  ASSUME NEW c, Good(c), OnTrack(c), InFlight(c.pipe), c.pipe.next <= MaxTasks,
         NEW o \in SendPairs
  PROVE  LET id == c.pipe.active.id
             b == CompleteActive([c EXCEPT !.timer = NoTimer], FALSE)
             d == IF OwnedByRun(b, id)
                  THEN Finish([b EXCEPT !.run.stateKnown = FALSE], "action-timeout", o)
                  ELSE CancelTasks(b, {c.pipe.active.key})
             l == CancelTasks(d, Keys)
         IN  Leads(c, MaybeSettle(Flush([l EXCEPT !.pipe = MarkRendered(@, id),
                                                  !.owner[id] = None], o)))
<1> DEFINE id == c.pipe.active.id
           b == CompleteActive([c EXCEPT !.timer = NoTimer], FALSE)
           d == IF OwnedByRun(b, id)
                THEN Finish([b EXCEPT !.run.stateKnown = FALSE], "action-timeout", o)
                ELSE CancelTasks(b, {c.pipe.active.key})
           l == CancelTasks(d, Keys)
<1>1. id \in TaskIds
  BY ControlFields, SoundFacts DEF Good, InFlight
<1>2. Leads(c, d) /\ CanRender(d.pipe, id) /\ d.pipe.next = c.pipe.next
  BY TimeoutEndsLeads
<1> HIDE DEF d
<1>3. Leads(d, l) /\ l.pipe = CancelKeys(d.pipe, Keys)
  BY <1>2, CancelTasksLeads, CancelTasksGood DEF Leads
<1>4. l.pipe.active = d.pipe.active /\ l.pipe.next = d.pipe.next
  BY <1>2, <1>3, CancelKeysSound DEF Leads, Good, Typed
<1> HIDE DEF l
<1>5. Leads(c, l)
  BY <1>2, <1>3, LeadsTransitive
<1>6. CanRender(l.pipe, id) /\ l.pipe.next <= MaxTasks
  BY <1>2, <1>4 DEF CanRender, IsActive
<1>7. Leads(c, MaybeSettle(Flush([l EXCEPT !.pipe = MarkRendered(@, id), !.owner[id] = None], o)))
  BY <1>1, <1>5, <1>6, FreeLeads
<1> QED BY <1>7 DEF l, d
-----------------------------------------------------------------------------
(* The actions.                                                            *)

IInv ==
  /\ Good(Ctl) /\ OnTrack(Ctl)
  /\ barriers \subseteq TaskIds /\ hookDeclared \in BOOLEAN

\* A step that starts no run.
Led ==
  Leads(Ctl, Ctl') /\ barriers' \subseteq TaskIds /\ hookDeclared' \in BOOLEAN

\* What the variables keep of the record when the call returns or throws.
Caught(c) ==
  [pipe |-> c.pipe, run |-> c.run, owner |-> c.owner, timer |-> c.timer,
   deadline |-> c.deadline, lifecycle |-> c.lifecycle, sent |-> c.sent,
   hooked |-> c.hooked, threw |-> FALSE]

LEMMA ThrewLeads ==
  ASSUME NEW c, Good(c)
  PROVE  LET d == Caught(c) IN
           /\ Good(d) /\ (OnTrack(c) => OnTrack(d)) /\ Follows(c, d)
           /\ (Tidy(c) => Tidy(d)) /\ (Calm(c) => Calm(d)) /\ Hush(c, d)
           /\ d.run = c.run
<1> DEFINE d == Caught(c)
<1>1. c \in Control
  BY DEF Good, Typed
<1>2. /\ d \in Control /\ d.pipe = c.pipe /\ d.run = c.run /\ d.owner = c.owner
      /\ d.timer = c.timer /\ d.deadline = c.deadline /\ d.lifecycle = c.lifecycle
      /\ d.sent = c.sent /\ d.hooked = c.hooked
  BY <1>1 DEF Control, Caught
<1> HIDE DEF d
<1>3. Typed(d) /\ Sends(d) /\ Owns(d) /\ OneHook(d)
  BY <1>2 DEF Good, Typed, Sends, Owns, OneHook, Running, By
<1>4. Timed(d) /\ Covered(d) /\ Bracketed(d)
  BY <1>2 DEF Good, Timed, Covered, Bracketed, Running
<1>5. Waiting(d) <=> Waiting(c)
  BY <1>2 DEF Waiting, By
<1>6. Counted(d) /\ (OnTrack(c) => OnTrack(d)) /\ Follows(c, d)
  BY <1>2, <1>5 DEF Good, Counted, OnTrack, Running, Follows, By
<1>7. (Tidy(c) => Tidy(d)) /\ (Calm(c) => Calm(d)) /\ Hush(c, d)
  BY <1>2, SameTidy
<1> QED BY <1>2, <1>3, <1>4, <1>6, <1>7 DEF Good, d

LEMMA BecomesFields ==
  ASSUME NEW c, Becomes(c)
  PROVE  Ctl' = Caught(c)
BY DEF Ctl, Becomes, Caught

LEMMA BecomesLeads ==
  ASSUME NEW c, Leads(Ctl, c), Becomes(c)
  PROVE  Leads(Ctl, Ctl') /\ hookDeclared' = hookDeclared
<1> DEFINE d == Caught(c)
<1>1. Good(c) /\ OnTrack(c)
  BY DEF Leads
<1>2. Leads(c, d)
  BY <1>1, ThrewLeads DEF Leads, Rests
<1> HIDE DEF d
<1>3. Leads(Ctl, d) /\ Good(d) /\ OnTrack(d)
  BY <1>2, LeadsTransitive DEF Leads
<1>4. Ctl' = d
  BY BecomesFields DEF d
<1> QED BY <1>3, <1>4 DEF Becomes

LEMMA CtlFields ==
  ASSUME IInv
  PROVE  /\ Good(Ctl) /\ OnTrack(Ctl)
         /\ Ctl.pipe = pipe /\ Ctl.run = run /\ Ctl.owner = owner /\ Ctl.timer = timer
         /\ Ctl.deadline = deadline /\ Ctl.lifecycle = lifecycle /\ Ctl.sent = sent
         /\ Ctl.hooked = hooked
         /\ Sound(pipe) /\ pipe \in Pipeline /\ run \in Run /\ timer \in Timer
         /\ pipe.next \in Nat /\ MaxTasks \in Nat
         /\ sent \subseteq TaskIds
<1>1. Good(Ctl) /\ OnTrack(Ctl)
  BY DEF IInv
<1>2. /\ Ctl.pipe = pipe /\ Ctl.run = run /\ Ctl.owner = owner /\ Ctl.timer = timer
      /\ Ctl.deadline = deadline /\ Ctl.lifecycle = lifecycle /\ Ctl.sent = sent
      /\ Ctl.hooked = hooked
  BY DEF Ctl
<1> HIDE DEF Ctl
<1>3. Sound(pipe) /\ pipe \in Pipeline /\ run \in Run /\ timer \in Timer /\ sent \subseteq TaskIds
  BY <1>1, <1>2, ControlFields DEF Good
<1>4. pipe.next \in Nat
  BY <1>3, SoundFacts
<1> QED BY <1>1, <1>2, <1>3, <1>4, BoundsAssumption

LEMMA ReasonsAre ==
  /\ NoHookReasons \subseteq Reasons
  /\ {"stopped", "paused", "wall-time", "condition", "condition-error"} \subseteq Reasons
BY DEF NoHookReasons, Reasons

LEMMA FinishStep ==
  ASSUME IInv, NEW reason \in {"stopped", "wall-time"}, NEW o \in SendPairs, Room,
         Becomes(Finish(Ctl, reason, o)), UNCHANGED barriers
  PROVE  Led
<1> DEFINE d == Finish(Ctl, reason, o)
<1>1. Good(Ctl) /\ OnTrack(Ctl) /\ Ctl.pipe.next <= MaxTasks /\ reason \in Reasons
  BY CtlFields, ReasonsAre DEF Room
<1>2. Leads(Ctl, d)
  BY <1>1, FinishLeads
<1> HIDE DEF d
<1>3. Leads(Ctl, Ctl') /\ hookDeclared' = hookDeclared
  BY <1>2, BecomesLeads DEF d
<1> QED BY <1>3 DEF Led, IInv

LEMMA StopStep ==
  ASSUME IInv, NEW o \in SendPairs, Stop(o) \/ WallTime(o)
  PROVE  Led
BY FinishStep DEF Stop, WallTime

LEMMA PauseStep ==
  ASSUME IInv, NEW o \in SendPairs, Pause(o)
  PROVE  Led
<1> DEFINE d == PauseRun(Ctl, o)
<1>1. Good(Ctl) /\ OnTrack(Ctl) /\ Ctl.pipe.next <= MaxTasks
  BY CtlFields DEF Pause, Room
<1>2. Leads(Ctl, d) /\ Becomes(d)
  BY <1>1, PauseRunLeads DEF Pause
<1> HIDE DEF d
<1>3. Leads(Ctl, Ctl') /\ hookDeclared' = hookDeclared
  BY <1>2, BecomesLeads
<1> QED BY <1>3 DEF Led, IInv, Pause

LEMMA RequestOneShotStep ==
  ASSUME IInv, NEW key \in OneShotKeys, NEW o \in SendPairs, RequestOneShot(key, o)
  PROVE  Led
<1> DEFINE c == PauseRun(Ctl, o)
           d == Flush([c EXCEPT !.pipe = Enqueue(@, key, FALSE)], o)
           e == IF c.threw THEN c ELSE d
<1>1. /\ Good(Ctl) /\ OnTrack(Ctl) /\ Ctl.pipe.next < MaxTasks /\ Ctl.pipe.next \in Nat
      /\ MaxTasks \in Nat
  BY CtlFields DEF RequestOneShot, Room
<1>2. Leads(Ctl, c) /\ Over(c) /\ c.pipe.next <= Ctl.pipe.next + 1
  BY <1>1, PauseRunLeads
<1>3. Becomes(e) /\ UNCHANGED barriers
  BY DEF RequestOneShot
<1>4. key \in Keys
  BY KeysAssumption
<1> HIDE DEF c
<1>5. c.pipe.next <= MaxTasks
  <2>1. c.pipe.next \in Nat
    BY <1>2, SoundFacts DEF Leads, Good, Typed
  <2> QED BY <1>1, <1>2, <2>1
<1>6. Leads(c, d)
  BY <1>2, <1>4, <1>5, OneShotLeads DEF Leads
<1> HIDE DEF d
<1>7. Leads(Ctl, d)
  BY <1>2, <1>6, LeadsTransitive
<1>8. Leads(Ctl, e)
  BY <1>2, <1>7
<1> HIDE DEF e
<1>9. Leads(Ctl, Ctl') /\ hookDeclared' = hookDeclared
  BY <1>3, <1>8, BecomesLeads
<1> QED BY <1>3, <1>9 DEF Led, IInv

LEMMA RequestActionStep ==
  ASSUME IInv, NEW key \in OneShotKeys, NEW o \in SendPairs, RequestAction(key, FALSE, o)
  PROVE  Led
<1> DEFINE b == CancelTasks(Ctl, Keys)
           c == Finish(b, "stopped", o)
           d == Flush([c EXCEPT !.pipe = Enqueue(@, key, FALSE)], o)
           e == IF c.threw THEN c ELSE d
<1>1. /\ Good(Ctl) /\ OnTrack(Ctl) /\ Ctl.pipe.next < MaxTasks /\ Ctl.pipe.next \in Nat
      /\ MaxTasks \in Nat /\ Sound(Ctl.pipe)
  BY CtlFields DEF RequestAction, Room
<1>2. Becomes(e) /\ UNCHANGED barriers
  BY DEF RequestAction
<1>3. key \in Keys /\ "stopped" \in Reasons
  BY KeysAssumption, ReasonsAre
<1>4. Leads(Ctl, b) /\ b.pipe = CancelKeys(Ctl.pipe, Keys)
  BY <1>1, CancelTasksLeads, CancelTasksGood
<1>5. b.pipe.next = Ctl.pipe.next
  BY <1>1, <1>4, CancelKeysSound
<1> HIDE DEF b
<1>6. Leads(b, c) /\ ~Running(c) /\ c.pipe.next <= b.pipe.next + 1
  BY <1>1, <1>3, <1>4, <1>5, FinishLeads, FinishGood DEF Leads
<1> HIDE DEF c
<1>7. c.pipe.next <= MaxTasks
  <2>1. c.pipe.next \in Nat
    BY <1>6, SoundFacts DEF Leads, Good, Typed
  <2> QED BY <1>1, <1>5, <1>6, <2>1
<1>8. Leads(c, d)
  BY <1>3, <1>6, <1>7, OneShotLeads DEF Leads, Over
<1> HIDE DEF d
<1>9. Leads(Ctl, c) /\ Leads(Ctl, d)
  BY <1>4, <1>6, <1>8, LeadsTransitive
<1>10. Leads(Ctl, e)
  BY <1>9
<1> HIDE DEF e
<1>11. Leads(Ctl, Ctl') /\ hookDeclared' = hookDeclared
  BY <1>2, <1>10, BecomesLeads
<1> QED BY <1>2, <1>11 DEF Led, IInv

\* A continuous action of the user: nothing but the ticks is disturbed.
Kept ==
  /\ Good(Ctl') /\ OnTrack(Ctl') /\ Follows(Ctl, Ctl')
  /\ barriers' \subseteq TaskIds /\ hookDeclared' \in BOOLEAN

LEMMA RequestTickStep ==
  ASSUME IInv, NEW key \in OneShotKeys, NEW o \in SendPairs, RequestAction(key, TRUE, o)
  PROVE  Kept
<1> DEFINE b == [Ctl EXCEPT !.pipe = Enqueue(@, key, TRUE)]
           d == Flush(b, o)
           e == IF Ctl.threw THEN Ctl ELSE d
<1>1. Good(Ctl) /\ OnTrack(Ctl) /\ Ctl.pipe.next <= MaxTasks
  BY CtlFields DEF RequestAction, Room
<1>2. Becomes(e) /\ UNCHANGED barriers
  BY DEF RequestAction
<1>3. key \in Keys
  BY KeysAssumption
<1>4. Good(b) /\ OnTrack(b) /\ Follows(Ctl, b)
  BY <1>1, <1>3, EnqueueGood
<1> HIDE DEF b
<1>5. Good(d) /\ OnTrack(d) /\ Follows(b, d)
  BY <1>4, FlushGood
<1> HIDE DEF d
<1>6. Good(e) /\ OnTrack(e) /\ Follows(Ctl, e)
  BY <1>1, <1>4, <1>5, FollowsTransitive, FollowsReflexive
<1> HIDE DEF e
<1>7. /\ Good(Caught(e)) /\ OnTrack(Caught(e)) /\ Follows(e, Caught(e)) /\ Ctl' = Caught(e)
  BY <1>2, <1>6, ThrewLeads, BecomesFields
<1>8. Follows(Ctl, Ctl')
  BY <1>6, <1>7, FollowsTransitive
<1>9. hookDeclared' = hookDeclared
  BY <1>2 DEF Becomes
<1> QED BY <1>2, <1>7, <1>8, <1>9 DEF Kept, IInv

\* A run starts.
Born ==
  /\ Good(Ctl') /\ OnTrack(Ctl') /\ (Tidy(Ctl) => Tidy(Ctl') /\ Calm(Ctl'))
  /\ run'.id = run.id + 1
  /\ barriers' \subseteq TaskIds /\ hookDeclared' \in BOOLEAN

LEMMA StartStep ==
  ASSUME IInv, NEW key \in RunKeys, NEW quota \in Quotas, NEW stopWhen \in BOOLEAN,
         NEW wallTime \in BOOLEAN, NEW value, NEW o \in SendPairs,
         Start(key, quota, stopWhen, wallTime, value, o)
  PROVE  Born
<1> DEFINE r == NewRun(run.id + 1, key, quota, stopWhen)
           c == [Ctl EXCEPT !.run = r]
           q == CancelTasks([c EXCEPT !.deadline = wallTime], Keys)
           reason == IF value = "error" THEN "condition-error" ELSE "condition"
           f == Finish(c, reason, o)
           g == Flush([q EXCEPT !.pipe = Enqueue(@, key, TRUE)], o)
           e == IF value # "false" THEN f ELSE g
<1>1. /\ Good(Ctl) /\ OnTrack(Ctl) /\ Ctl.pipe = pipe /\ Ctl.run = run
      /\ pipe.next <= MaxTasks /\ run.settled /\ pipe.active = None /\ run.id < MaxRuns
  BY CtlFields DEF Start, Room
<1>2. Becomes(e) /\ UNCHANGED barriers
  BY DEF Start
<1>3. key \in Keys /\ quota \in Nat /\ reason \in Reasons
  BY KeysAssumption, BoundsAssumption, ReasonsAre
<1>4. /\ Good(c) /\ OnTrack(c) /\ Running(c) /\ Calm(c)
      /\ c.pipe = pipe /\ c.run = r /\ r.id = run.id + 1 /\ r.key = key
      /\ ~r.pauseRequested /\ (Tidy(Ctl) => Paced(c))
  <2> DEFINE u == NewRun(Ctl.run.id + 1, key, quota, stopWhen)
             v == [Ctl EXCEPT !.run = u]
  <2>1. /\ Good(v) /\ OnTrack(v) /\ Running(v) /\ Calm(v)
        /\ v.pipe = Ctl.pipe /\ v.run = u /\ u.id = Ctl.run.id + 1 /\ u.key = key
        /\ ~u.pauseRequested /\ (Tidy(Ctl) => Paced(v))
    BY <1>1, <1>3, NewRunGood
  <2>2. u = r /\ v = c
    BY <1>1
  <2> QED BY <1>1, <2>1, <2>2
<1> HIDE DEF r, c, reason
<1>5. /\ Good(f) /\ OnTrack(f) /\ Follows(c, f)
      /\ (Paced(c) => Tidy(f) /\ Calm(f))
  BY <1>1, <1>3, <1>4, FinishGood, FinishTidy
<1>6. Good(g) /\ OnTrack(g) /\ Follows(c, g) /\ Tidy(g) /\ Calm(g)
  <2> DEFINE w == Flush([q EXCEPT !.pipe = Enqueue(@, c.run.key, TRUE)], o)
  <2>1. Good(w) /\ OnTrack(w) /\ Follows(c, w) /\ Tidy(w) /\ Calm(w)
    BY <1>1, <1>4, FirstTickGood
  <2>2. w = g
    BY <1>4
  <2> QED BY <2>1, <2>2
<1> HIDE DEF f, g
<1>7. Good(e) /\ OnTrack(e) /\ Follows(c, e) /\ (Tidy(Ctl) => Tidy(e) /\ Calm(e))
  BY <1>4, <1>5, <1>6
<1> HIDE DEF e
<1>8. /\ Good(Caught(e)) /\ OnTrack(Caught(e)) /\ Ctl' = Caught(e)
      /\ (Tidy(e) => Tidy(Caught(e))) /\ (Calm(e) => Calm(Caught(e)))
  BY <1>2, <1>7, ThrewLeads, BecomesFields
<1>9. run'.id = run.id + 1 /\ hookDeclared' = hookDeclared
  BY <1>2, <1>4, <1>7 DEF Becomes, Follows
<1> QED BY <1>2, <1>7, <1>8, <1>9 DEF Born, IInv

-----------------------------------------------------------------------------
(* The actions of the session, the environment and the timer.              *)

LEMMA CancelContinuousStep ==
  ASSUME IInv, NEW K \in SUBSET Keys, CancelContinuous(K)
  PROVE  Led
<1>1. Leads(Ctl, CancelTasks(Ctl, K)) /\ Becomes(CancelTasks(Ctl, K))
  BY CtlFields, CancelTasksLeads DEF CancelContinuous
<1>2. Leads(Ctl, Ctl') /\ hookDeclared' = hookDeclared
  BY <1>1, BecomesLeads
<1> QED BY <1>2 DEF Led, IInv, CancelContinuous

LEMMA PipeCallStep ==
  ASSUME IInv, NEW p, Waits(pipe, p), NEW o \in SendPairs, PipeCall(p, o)
  PROVE  Led
<1> DEFINE d == [Ctl EXCEPT !.pipe = p]
           f == Flush(d, o)
<1>1. Good(Ctl) /\ OnTrack(Ctl) /\ Waits(Ctl.pipe, p) /\ Becomes(f) /\ UNCHANGED barriers
  BY CtlFields DEF PipeCall
<1>2. /\ Good(d) /\ OnTrack(d) /\ Follows(Ctl, d)
      /\ Tidy(Ctl) /\ Calm(Ctl) => Tidy(d) /\ Hush(Ctl, d)
  BY <1>1, WaitsLeads
<1> HIDE DEF d
<1>3. Leads(Ctl, f)
  BY <1>2, FlushLeads
<1> HIDE DEF f
<1>4. Leads(Ctl, Ctl') /\ hookDeclared' = hookDeclared
  BY <1>1, <1>3, BecomesLeads
<1> QED BY <1>1, <1>4 DEF Led, IInv

LEMMA ReleaseStep ==
  ASSUME IInv, NEW o \in SendPairs,
         ReleaseBoundary(o) \/ \E r \in SyncIds : RecordSyncEnd(r, o) \/ AbortStateSync(r, o)
  PROVE  Led
<1>1. /\ pipe.holds > 0 => Waits(pipe, ReleaseHold(pipe))
      /\ \A r \in SyncIds : Waits(pipe, SyncEnd(pipe, r)) /\ Waits(pipe, AbortSync(pipe, r))
  BY CtlFields, GateCallsWait
<1>2. CASE ReleaseBoundary(o)
  BY <1>1, <1>2, PipeCallStep DEF ReleaseBoundary
<1>3. ASSUME NEW r \in SyncIds, RecordSyncEnd(r, o) PROVE Led
  BY <1>1, <1>3, PipeCallStep DEF RecordSyncEnd
<1>4. ASSUME NEW r \in SyncIds, AbortStateSync(r, o) PROVE Led
  BY <1>1, <1>4, PipeCallStep DEF AbortStateSync
<1> QED BY <1>2, <1>3, <1>4

\* Holds and the begin of a boundary dispatch nothing.
LEMMA GateStep ==
  ASSUME IInv, NEW p, Waits(pipe, p), SameTasks(pipe, p),
         Becomes([Ctl EXCEPT !.pipe = p]), UNCHANGED barriers
  PROVE  Led
<1> DEFINE d == [Ctl EXCEPT !.pipe = p]
<1>1. Good(Ctl) /\ OnTrack(Ctl) /\ Waits(Ctl.pipe, p) /\ SameTasks(Ctl.pipe, p)
  BY CtlFields
<1>2. Leads(Ctl, d)
  BY <1>1, WaitsLeads
<1> HIDE DEF d
<1>3. Leads(Ctl, Ctl') /\ hookDeclared' = hookDeclared
  BY <1>2, BecomesLeads DEF d
<1> QED BY <1>3 DEF Led, IInv

LEMMA HoldStep ==
  ASSUME IInv,
         HoldActionBoundary \/ \E r \in SyncIds : RequestStateSync(r) \/ RecordSyncBegin(r)
  PROVE  Led
<1>1. /\ Waits(pipe, HoldDispatch(pipe))
      /\ \A r \in SyncIds : Waits(pipe, RequestSync(pipe, r)) /\ Waits(pipe, SyncBegin(pipe, r))
  BY CtlFields, GateCallsWait
<1>2. /\ SameTasks(pipe, HoldDispatch(pipe))
      /\ \A r \in SyncIds : /\ SameTasks(pipe, RequestSync(pipe, r))
                            /\ SameTasks(pipe, SyncBegin(pipe, r))
  BY CtlFields DEF HoldDispatch, RequestSync, SyncBegin, SameTasks, Pipeline
<1>3. CASE HoldActionBoundary
  <2> DEFINE p == HoldDispatch(pipe)
  <2>1. Ctl.pipe = pipe
    BY CtlFields
  <2>2. Becomes([Ctl EXCEPT !.pipe = p]) /\ UNCHANGED barriers
    BY <1>3, <2>1 DEF HoldActionBoundary
  <2> HIDE DEF p
  <2> QED BY <1>1, <1>2, <2>2, GateStep DEF p
<1>4. ASSUME NEW r \in SyncIds, RequestStateSync(r) PROVE Led
  <2> DEFINE p == RequestSync(pipe, r)
  <2>1. Ctl.pipe = pipe
    BY CtlFields
  <2>2. Becomes([Ctl EXCEPT !.pipe = p]) /\ UNCHANGED barriers
    BY <1>4, <2>1 DEF RequestStateSync
  <2> HIDE DEF p
  <2> QED BY <1>1, <1>2, <2>2, GateStep DEF p
<1>5. ASSUME NEW r \in SyncIds, RecordSyncBegin(r) PROVE Led
  <2> DEFINE p == SyncBegin(pipe, r)
  <2>1. Ctl.pipe = pipe
    BY CtlFields
  <2>2. Becomes([Ctl EXCEPT !.pipe = p]) /\ UNCHANGED barriers
    BY <1>5, <2>1 DEF RecordSyncBegin
  <2> HIDE DEF p
  <2> QED BY <1>1, <1>2, <2>2, GateStep DEF p
<1> QED BY <1>3, <1>4, <1>5

LEMMA ResetStep ==
  ASSUME IInv, NEW reason \in {"disconnected", "validation-error"}, NEW closed \in BOOLEAN,
         NEW o \in SendPairs, Reset(reason, closed, o)
  PROVE  Led
<1> DEFINE lost == ~run.settled /\ pipe.active # None
           f == Finish([Ctl EXCEPT !.run.stateKnown = @ /\ ~lost], reason, o)
           r == [f EXCEPT !.pipe = ResetPipeline(@),
                          !.owner = [i \in TaskIds |-> None],
                          !.timer = NoTimer, !.lifecycle = FALSE,
                          !.sent = IF closed THEN {} ELSE @]
           d == IF f.threw THEN f ELSE MaybeSettle(r)
<1>1. Good(Ctl) /\ OnTrack(Ctl) /\ Ctl.pipe = pipe /\ Ctl.run = run
  BY CtlFields
<1>2. Becomes(d) /\ UNCHANGED barriers
  BY DEF Reset
<1>3. reason \in NoHookReasons /\ lost \in BOOLEAN /\ (lost \/ Ctl.run.settled \/ Ctl.pipe.active = None)
  BY <1>1 DEF NoHookReasons
<1> HIDE DEF lost
<1>4. Leads(Ctl, d)
  <2>1. Leads(Ctl, AfterReset(Ctl, lost, reason, closed, o))
    BY <1>1, <1>3, ResetLeads
  <2>2. AfterReset(Ctl, lost, reason, closed, o) = d
    BY DEF AfterReset
  <2> QED BY <2>1, <2>2
<1> HIDE DEF d
<1>5. Leads(Ctl, Ctl') /\ hookDeclared' = hookDeclared
  BY <1>2, <1>4, BecomesLeads
<1> QED BY <1>2, <1>5 DEF Led, IInv

LEMMA StutterStep ==
  ASSUME IInv, UNCHANGED vars
  PROVE  Led
<1>1. Ctl' = Ctl /\ barriers' = barriers /\ hookDeclared' = hookDeclared
  BY DEF vars, Ctl
<1>2. Leads(Ctl, Ctl)
  BY CtlFields, LeadsReflexive
<1> HIDE DEF Ctl
<1> QED BY <1>1, <1>2 DEF Led, IInv

LEMMA ActionResultStep ==
  ASSUME IInv, NEW id \in sent, NEW result, NEW value, NEW o \in SendPairs,
         ActionResult(id, result, value, o)
  PROVE  Led
<1>1. CASE ~CanComplete(pipe, id)
  BY <1>1, StutterStep DEF ActionResult
<1>2. CASE CanComplete(pipe, id)
  <2>1. Becomes(Observe(Ctl, result, value, o)) /\ barriers' = barriers \cup {id} /\ Room
    BY <1>2 DEF ActionResult
  <2>2. id \in TaskIds /\ id \notin pipe.pending
    BY CtlFields DEF Good, Sends
  <2>3. InFlight(pipe)
    BY <1>2, <2>2, CtlFields, SoundFacts DEF InFlight, CanComplete, IsActive, Commands
  <2>4. /\ Good(Ctl) /\ OnTrack(Ctl) /\ InFlight(Ctl.pipe) /\ Ctl.pipe.next <= MaxTasks
    BY <2>1, <2>3, CtlFields DEF Room
  <2>5. Leads(Ctl, Observe(Ctl, result, value, o))
    BY <2>4, ObserveLeads
  <2>6. Leads(Ctl, Ctl') /\ hookDeclared' = hookDeclared
    BY <2>1, <2>5, BecomesLeads
  <2> QED BY <2>1, <2>2, <2>6 DEF Led, IInv
<1> QED BY <1>1, <1>2

LEMMA ActionRenderedStep ==
  ASSUME IInv, NEW id \in barriers, NEW ok \in BOOLEAN, NEW o \in SendPairs,
         ActionRendered(id, ok, o)
  PROVE  Led
<1>1. id \in TaskIds /\ barriers' \subseteq TaskIds /\ Room
  BY DEF ActionRendered, IInv
<1>2. /\ Good(Ctl) /\ OnTrack(Ctl) /\ Ctl.pipe = pipe /\ Ctl.pipe.next < MaxTasks
  BY <1>1, CtlFields DEF Room
<1>3. CASE ~CanRender(pipe, id)
  <2>1. Becomes(Ctl)
    BY <1>3 DEF ActionRendered
  <2>2. Leads(Ctl, Ctl') /\ hookDeclared' = hookDeclared
    BY <1>2, <2>1, LeadsReflexive, BecomesLeads
  <2> QED BY <1>1, <2>2 DEF Led, IInv
<1>4. CASE CanRender(pipe, id)
  <2> DEFINE keep == ok \/ ~OwnedByRun(Ctl, id)
             f == IF keep THEN Ctl ELSE Finish(Ctl, "render-error", o)
             d == [f EXCEPT !.pipe = MarkRendered(@, id), !.owner[id] = None]
             e == Flush(MaybeSettle(d), o)
  <2>1. Becomes(e)
    BY <1>4 DEF ActionRendered
  <2>2. keep \in BOOLEAN
    OBVIOUS
  <2> HIDE DEF keep
  <2>3. CanRender(Ctl.pipe, id)
    BY <1>2, <1>4
  <2>4. Leads(Ctl, e)
    BY <1>1, <1>2, <2>2, <2>3, RenderLeads
  <2> HIDE DEF e
  <2>5. Leads(Ctl, Ctl') /\ hookDeclared' = hookDeclared
    BY <2>1, <2>4, BecomesLeads
  <2> QED BY <1>1, <2>5 DEF Led, IInv
<1> QED BY <1>3, <1>4

LEMMA ActionTimeoutStep ==
  ASSUME IInv, NEW o \in SendPairs, ActionTimeout(o)
  PROVE  Led
<1> DEFINE id == Ctl.pipe.active.id
           b == CompleteActive([Ctl EXCEPT !.timer = NoTimer], FALSE)
           d == IF OwnedByRun(b, id)
                THEN Finish([b EXCEPT !.run.stateKnown = FALSE], "action-timeout", o)
                ELSE CancelTasks(b, {Ctl.pipe.active.key})
           l == CancelTasks(d, Keys)
           e == MaybeSettle(Flush([l EXCEPT !.pipe = MarkRendered(@, id),
                                            !.owner[id] = None], o))
<1>1. /\ Good(Ctl) /\ OnTrack(Ctl) /\ Ctl.pipe = pipe /\ Ctl.pipe.next <= MaxTasks
  BY CtlFields DEF ActionTimeout, Room
<1>2. InFlight(Ctl.pipe) /\ id = timer.task
  BY <1>1 DEF ActionTimeout, InFlight, CanComplete, IsActive
<1>3. Becomes(e) /\ UNCHANGED barriers
  BY <1>1, <1>2 DEF ActionTimeout
<1>4. Leads(Ctl, e)
  BY <1>1, <1>2, TimeoutLeads
<1> HIDE DEF e
<1>5. Leads(Ctl, Ctl') /\ hookDeclared' = hookDeclared
  BY <1>3, <1>4, BecomesLeads
<1> QED BY <1>3, <1>5 DEF Led, IInv

\* The timer may change as long as it covers the action in flight.
LEMMA RetimeStep ==
  ASSUME IInv, NEW t \in Timer, InFlight(pipe) => t.armed /\ t.task = pipe.active.id,
         NEW d, d = [Ctl EXCEPT !.run = run, !.timer = t], Becomes(d), UNCHANGED barriers
  PROVE  Led
<1>1. /\ Good(Ctl) /\ OnTrack(Ctl) /\ Ctl.pipe = pipe /\ Ctl.run = run /\ run \in Run
      /\ Ctl \in Control
  BY CtlFields DEF Good, Typed
<1>2. ~Running(Ctl) \/ ~Ctl.run.settled
  BY <1>1 DEF Good, Timed
<1>3. Ctl.run.settled => ~Running(Ctl) /\ \A i \in TaskIds : Ctl.owner[i] = None
  BY <1>1, <1>2 DEF Good, Owns
<1>4. Good(d) /\ OnTrack(d) /\ Follows(Ctl, d)
  BY <1>1, <1>3, RunGood
<1>5. d.pipe = Ctl.pipe /\ d.run = Ctl.run /\ d.owner = Ctl.owner
  BY <1>1 DEF Control
<1>6. Rests(Ctl, d)
  BY <1>5, SameTidy DEF Rests
<1>7. Leads(Ctl, d)
  BY <1>4, <1>6 DEF Leads
<1>8. Leads(Ctl, Ctl') /\ hookDeclared' = hookDeclared
  BY <1>7, BecomesLeads
<1> QED BY <1>8 DEF Led, IInv

LEMMA TimerSteps ==
  ASSUME IInv, NEW early \in BOOLEAN, TimerRearms \/ TimerIdles \/ SetActionTimeout(early)
  PROVE  Led
<1>1. /\ Good(Ctl) /\ Ctl.pipe = pipe /\ Ctl.run = run /\ Ctl.timer = timer
      /\ Ctl \in Control /\ run \in Run /\ timer \in Timer /\ Sound(pipe)
  BY CtlFields DEF Good, Typed
<1>2. InFlight(pipe) => /\ timer.armed /\ timer.task = pipe.active.id
                        /\ CanComplete(pipe, timer.task) /\ timer.task # None
  BY <1>1, SoundFacts, NoneAssumption DEF Good, Covered, InFlight, CanComplete, IsActive, TaskId
<1>3. CASE TimerRearms
  <2> DEFINE t == [timer EXCEPT !.early = FALSE]
             d == [Ctl EXCEPT !.run = run, !.timer = t]
  <2>1. t \in Timer /\ t.armed = timer.armed /\ t.task = timer.task
    BY <1>1 DEF Timer
  <2>2. [Ctl EXCEPT !.timer.early = FALSE] = d
    BY <1>1 DEF Control
  <2>3. Becomes(d) /\ UNCHANGED barriers
    BY <1>3, <2>2 DEF TimerRearms
  <2> HIDE DEF t
  <2> QED BY <1>2, <2>1, <2>3, RetimeStep
<1>4. CASE TimerIdles
  <2> DEFINE d == [Ctl EXCEPT !.run = run, !.timer = NoTimer]
  <2>1. NoTimer \in Timer
    BY DEF NoTimer, Timer
  <2>2. ~InFlight(pipe)
    BY <1>2, <1>4 DEF TimerIdles
  <2>3. [Ctl EXCEPT !.timer = NoTimer] = d
    BY <1>1 DEF Control
  <2>4. Becomes(d) /\ UNCHANGED barriers
    BY <1>4, <2>3 DEF TimerIdles
  <2> HIDE DEF NoTimer
  <2> QED BY <2>1, <2>2, <2>4, RetimeStep
<1>5. CASE SetActionTimeout(early)
  <2> DEFINE t == [armed |-> TRUE, task |-> pipe.active.id, early |-> early]
             d == [Ctl EXCEPT !.run = run, !.timer = t]
  <2>1. pipe.active.id \in TaskIds
    BY <1>1, <1>5, SoundFacts, ControlFields DEF Good, SetActionTimeout
  <2>2. t \in Timer /\ t.armed /\ t.task = pipe.active.id
    BY <2>1 DEF Timer
  <2>3. [Ctl EXCEPT !.timer = t] = d
    BY <1>1 DEF Control
  <2>4. Becomes(d) /\ UNCHANGED barriers
    BY <1>5, <2>3 DEF SetActionTimeout
  <2> HIDE DEF t
  <2> QED BY <2>2, <2>4, RetimeStep
<1> QED BY <1>3, <1>4, <1>5
-----------------------------------------------------------------------------
(* Every step.                                                             *)

LEMMA InitIInv ==
  ASSUME Init
  PROVE  IInv /\ Tidy(Ctl) /\ Calm(Ctl)
<1>1. /\ Ctl.pipe = EmptyPipeline /\ Ctl.run = NoRun
      /\ Ctl.owner = [i \in TaskIds |-> None] /\ Ctl.timer = NoTimer
      /\ Ctl.deadline = FALSE /\ Ctl.lifecycle = FALSE /\ Ctl.sent = {} /\ Ctl.hooked = {}
      /\ barriers = {} /\ hookDeclared \in BOOLEAN
  BY DEF Init, Ctl
<1>2. EmptyPipeline \in Pipeline /\ Sound(EmptyPipeline)
  <2>1. EmptyPipeline \in Pipeline
    BY DEF EmptyPipeline, Pipeline, TaskId
  <2>2. Core(EmptyPipeline, {})
    BY <2>1 DEF Core, EmptyPipeline, Accounted, Disjoint, Commands, OnePerKey, InQueue,
                IsActive, TaskId
  <2> QED BY <2>1, <2>2 DEF Sound
<1>3. /\ EmptyPipeline.next = 1 /\ EmptyPipeline.active = None /\ EmptyPipeline.queue = {}
      /\ EmptyPipeline.pending = {} /\ EmptyPipeline.continuousKeys = {}
  BY DEF EmptyPipeline
<1>4. /\ NoRun \in Run /\ NoRun.id = 0 /\ NoRun.key = StopKey /\ NoRun.quota = 0
      /\ NoRun.state = "stopped" /\ NoRun.settled /\ NoRun.completed = 0
      /\ NoRun.dispatched = 0
  <2> DEFINE r == NewRun(0, StopKey, 0, FALSE)
  <2>1. 0 \in 0 .. MaxRuns /\ StopKey \in Keys
    BY KeysAssumption, BoundsAssumption
  <2>2. /\ r \in Run /\ r.id = 0 /\ r.key = StopKey /\ r.quota = 0
        /\ r.completed = 0 /\ r.dispatched = 0
    BY <2>1 DEF NewRun, Run
  <2> HIDE DEF r
  <2>3. NoRun = [r EXCEPT !.state = "stopped", !.settled = TRUE]
    BY DEF NoRun, r
  <2> QED BY <2>2, <2>3 DEF Run
<1>5. NoTimer \in Timer
  BY DEF NoTimer, Timer
<1>6. Ctl \in Control
  <2>1. [i \in TaskIds |-> None] \in [TaskIds -> Owner \cup {None}]
    OBVIOUS
  <2> QED BY <1>1, <1>2, <1>4, <1>5, <2>1 DEF Ctl, Control
<1> HIDE DEF Ctl
<1>7. Typed(Ctl)
  BY <1>1, <1>2, <1>3, <1>6, BoundsAssumption DEF Typed
<1>8. Sends(Ctl) /\ Owns(Ctl) /\ OneHook(Ctl) /\ Timed(Ctl)
  BY <1>1, <1>3, <1>4 DEF Sends, Owns, OneHook, Timed, Running, By
<1>9. ~InFlight(Ctl.pipe) /\ ~Waiting(Ctl)
  BY <1>1, <1>3 DEF InFlight, Waiting
<1>10. Counted(Ctl) /\ Covered(Ctl) /\ Bracketed(Ctl) /\ OnTrack(Ctl)
  BY <1>1, <1>4, <1>9 DEF Counted, Covered, Bracketed, OnTrack, Running
<1>11. Tidy(Ctl) /\ Calm(Ctl)
  BY <1>1, <1>3, <1>4, <1>9 DEF Tidy, Paced, Tuned, Over, Running, Silent, Calm
<1> QED BY <1>1, <1>7, <1>8, <1>10, <1>11 DEF IInv, Good

LEMMA NextStep ==
  ASSUME IInv, [Next]_vars
  PROVE  Led \/ Born \/ (Kept /\ "continuous-action" \in PublicExtras)
<1> DEFINE Step == Led \/ Born \/ (Kept /\ "continuous-action" \in PublicExtras)
<1>1. CASE UserStep
  BY <1>1, StartStep, RequestActionStep, RequestOneShotStep, PauseStep, StopStep DEF UserStep
<1>2. CASE ExtraStep
  <2>1. ASSUME NEW o \in SendPairs, NEW k \in OneShotKeys, RequestAction(k, TRUE, o),
               "continuous-action" \in PublicExtras
        PROVE  Step
    BY <2>1, RequestTickStep
  <2>2. ASSUME NEW K \in {{k} : k \in Keys} \cup {Keys}, CancelContinuous(K)
        PROVE  Step
    <3>1. K \in SUBSET Keys
      OBVIOUS
    <3> QED BY <2>2, <3>1, CancelContinuousStep
  <2> QED BY <1>2, <2>1, <2>2 DEF ExtraStep
<1>3. CASE SessionStep
  <2>1. ASSUME NEW o \in SendPairs, NEW closed \in BOOLEAN, Reset("disconnected", closed, o)
        PROVE  Step
    BY <2>1, ResetStep
  <2>2. ASSUME NEW o \in SendPairs, Reset("validation-error", FALSE, o)
        PROVE  Step
    BY <2>2, ResetStep
  <2> QED BY <1>3, <2>1, <2>2, HoldStep, ReleaseStep DEF SessionStep
<1>4. CASE EnvironmentStep
  BY <1>4, ActionResultStep, ActionRenderedStep, ActionTimeoutStep, StopStep DEF EnvironmentStep
<1>5. CASE TimerStep
  BY <1>5, TimerSteps DEF TimerStep
<1>6. CASE UNCHANGED vars
  BY <1>6, StutterStep
<1> QED BY <1>1, <1>2, <1>3, <1>4, <1>5, <1>6 DEF Next

LEMMA StepFacts ==
  ASSUME IInv, [Next]_vars
  PROVE  /\ Good(Ctl') /\ OnTrack(Ctl') /\ barriers' \subseteq TaskIds /\ hookDeclared' \in BOOLEAN
         /\ Follows(Ctl, Ctl') \/ run'.id = run.id + 1
BY NextStep DEF Led, Born, Kept, Leads

LEMMA TidyStep ==
  ASSUME "continuous-action" \notin PublicExtras, IInv, Tidy(Ctl), Calm(Ctl), [Next]_vars
  PROVE  /\ Tidy(Ctl') /\ Calm(Ctl')
         /\ Hush(Ctl, Ctl') \/ run'.id = run.id + 1
BY NextStep DEF Led, Born, Leads, Rests

LEMMA Invariance ==
  Spec => []IInv
<1>1. Init => IInv
  BY InitIInv
<1>2. IInv /\ [Next]_vars => IInv'
  BY StepFacts DEF IInv
<1> QED BY <1>1, <1>2, PTL DEF Spec

Orderly == IInv /\ Tidy(Ctl) /\ Calm(Ctl)

LEMMA OrderlyInvariance ==
  ASSUME "continuous-action" \notin PublicExtras
  PROVE  Spec => []Orderly
<1>1. Init => Orderly
  BY InitIInv DEF Orderly
<1>2. Orderly /\ [Next]_vars => Orderly'
  BY StepFacts, TidyStep DEF Orderly, IInv
<1> QED BY <1>1, <1>2, PTL DEF Spec
-----------------------------------------------------------------------------
(* The theorems.                                                           *)

LEMMA WaitingIs ==
  ASSUME IInv
  PROVE  /\ InFlight(pipe) => pipe.active.id \in TaskIds
         /\ Waiting(Ctl) <=> /\ Dispatched /\ OwnedBy(Ctl, pipe.active.id, "action")
                             /\ pipe.pending = {}
<1>1. Good(Ctl) /\ Ctl.pipe = pipe /\ Sound(pipe)
  BY CtlFields
<1>2. InFlight(pipe) => pipe.active.id \in TaskIds
  BY <1>1, SoundFacts, ControlFields DEF InFlight, Good
<1>3. InFlight(pipe) <=> Dispatched /\ pipe.pending = {}
  BY DEF InFlight, Dispatched
<1>4. InFlight(pipe) =>
        (OwnedBy(Ctl, pipe.active.id, "action") <=> By(Ctl, pipe.active.id, "action"))
  BY <1>1, <1>2, OwnerFacts
<1> QED BY <1>1, <1>2, <1>3, <1>4 DEF Waiting

\* Every variable of the controller has its type.
THEOREM TypeCorrect == Spec => []TypeOK
<1>1. IInv => TypeOK
  <2> SUFFICES ASSUME IInv PROVE TypeOK
    OBVIOUS
  <2>1. /\ Typed(Ctl) /\ barriers \subseteq TaskIds /\ hookDeclared \in BOOLEAN
    BY DEF IInv, Good
  <2>2. /\ owner \in [TaskIds -> Owner \cup {None}] /\ deadline \in BOOLEAN
        /\ lifecycle \in BOOLEAN /\ hooked \subseteq 0 .. MaxRuns
    BY <2>1, ControlFields, CtlFields
  <2> QED BY <2>1, <2>2, CtlFields DEF TypeOK
<1> QED BY <1>1, Invariance, PTL

\* The counters of a run are exact while its state is known, lose at most one action
\* otherwise, and never pass the quota (RunAccounting): flushCommands counts what the
\* transport took, observeActionResult what came back.
THEOREM RunsAreAccounted == Spec => []RunAccounting
<1>1. IInv => RunAccounting
  <2> SUFFICES ASSUME IInv PROVE RunAccounting
    OBVIOUS
  <2>1. Counted(Ctl) /\ Ctl.run = run
    BY CtlFields DEF Good
  <2> QED BY <2>1, WaitingIs DEF Counted, RunAccounting
<1> QED BY <1>1, Invariance, PTL

\* The shared timer covers the action that waits for its result (OverdueIsNoticed),
\* although results release it and it is kept from tick to tick.
THEOREM OverdueActionsAreTimed == Spec => []OverdueIsNoticed
<1>1. IInv => OverdueIsNoticed
  <2> SUFFICES ASSUME IInv PROVE OverdueIsNoticed
    OBVIOUS
  <2>1. Covered(Ctl) /\ Ctl.pipe = pipe /\ Ctl.timer = timer
    BY CtlFields DEF Good
  <2> QED BY <2>1 DEF Covered, InFlight, Dispatched, OverdueIsNoticed
<1> QED BY <1>1, Invariance, PTL

\* Every beginResetLifecycle of the controller gets its end (ResetBracket): the bracket is
\* open exactly while a reset action waits for its result.
THEOREM ResetIsBracketed == Spec => []ResetBracket
<1>1. IInv => ResetBracket
  <2> SUFFICES ASSUME IInv PROVE ResetBracket
    OBVIOUS
  <2>1. Bracketed(Ctl) /\ Ctl.pipe = pipe /\ Ctl.lifecycle = lifecycle
    BY CtlFields DEF Good
  <2> QED BY <2>1 DEF Bracketed, InFlight, Dispatched, ResetBracket
<1> QED BY <1>1, Invariance, PTL

\* taskOwners never leaks, the wall-time timer dies with its run, and a settled run has
\* nothing left to repeat (OwnersAreLive).  A host that requests a continuous action
\* outside a run makes ticks no run owns; no host of the repository does.
THEOREM OwnersStayLive ==
  ASSUME "continuous-action" \notin PublicExtras
  PROVE  Spec => []OwnersAreLive
<1>1. Orderly => OwnersAreLive
  <2> SUFFICES ASSUME Orderly PROVE OwnersAreLive
    OBVIOUS
  <2>1. /\ Good(Ctl) /\ Tidy(Ctl) /\ Calm(Ctl) /\ IInv
        /\ Ctl.pipe = pipe /\ Ctl.run = run /\ Ctl.owner = owner /\ Ctl.deadline = deadline
    BY CtlFields DEF Orderly
  <2>2. \A i \in TaskIds : owner[i] # None =>
          /\ owner[i].run = run.id /\ ~run.settled
          /\ IsActive(pipe, i) \/ \E t \in pipe.queue : t.id = i
    BY <2>1 DEF Good, Owns, Live, InQueue
  <2>3. (deadline => run.state = "running") /\ (run.settled => run.state # "running")
    BY <2>1 DEF Good, Timed, Running
  <2>4. ASSUME run.settled
        PROVE  (\A t \in pipe.queue : ~t.continuous) /\ (Dispatched => ~pipe.active.continuous)
    <3>1. Silent(pipe)
      BY <2>1, <2>3, <2>4 DEF Tidy, Over, Running
    <3>2. InFlight(pipe) => ~By(Ctl, pipe.active.id, "action")
      BY <2>1, <2>2, <2>4, WaitingIs DEF By
    <3>3. InFlight(pipe) => ~pipe.active.continuous
      BY <2>1, <3>2 DEF Tidy, Paced
    <3> QED BY <2>1, <3>1, <3>3 DEF Silent, Calm, InFlight, Dispatched
  <2> QED BY <2>2, <2>3, <2>4 DEF OwnersAreLive
<1> QED BY <1>1, OrderlyInvariance, PTL

\* The stop hook of a run is sent once, after the run stopped and with no tick of it in
\* flight (HookOnceAndLast): finish() acts on a running run only and queues one hook.
THEOREM HookIsOnceAndLast == Spec => HookOnceAndLast
<1> DEFINE Step == \A id \in NewlySent :
                     owner'[id] # None /\ owner'[id].source = "lifecycle" =>
                       /\ run'.id \notin hooked /\ run'.state # "running"
                       /\ \A i \in TaskIds : owner'[i] # None => owner'[i].source = "lifecycle"
<1>1. IInv /\ [Next]_vars => [Step]_vars
  <2> SUFFICES ASSUME IInv, [Next]_vars,
                      NEW id \in NewlySent, owner'[id] # None, owner'[id].source = "lifecycle"
               PROVE  /\ run'.id \notin hooked /\ run'.state # "running"
                      /\ \A i \in TaskIds : owner'[i] # None => owner'[i].source = "lifecycle"
    BY DEF Step
  <2> DEFINE c == Ctl
             d == Ctl'
  <2>1. /\ Good(c) /\ c.run = run /\ c.sent = sent /\ c.hooked = hooked /\ run \in Run
    BY CtlFields
  <2>2. /\ Good(d) /\ (Follows(c, d) \/ run'.id = run.id + 1)
    BY StepFacts
  <2>3. /\ d.pipe = pipe' /\ d.run = run' /\ d.owner = owner' /\ d.sent = sent'
    BY DEF Ctl
  <2> HIDE DEF c, d
  <2>4. id \in d.sent /\ id \notin c.sent /\ id \in TaskIds
    BY <2>1, <2>2, <2>3, ControlFields DEF NewlySent, Good
  <2>5. By(d, id, "lifecycle") /\ ~Running(d)
    BY <2>2, <2>3, <2>4 DEF By, Good, Owns
  <2>6. run'.id \notin hooked
    <3>1. CASE Follows(c, d)
      <4> SUFFICES ASSUME run'.id \in hooked PROVE FALSE
        OBVIOUS
      <4>1. c.run.id \in c.hooked
        BY <2>1, <2>3, <3>1 DEF Follows
      <4>2. ~Running(c)
        BY <2>1, <4>1 DEF Good, OneHook
      <4>3. By(c, id, "lifecycle")
        BY <2>4, <2>5, <3>1, <4>2 DEF Follows
      <4> QED BY <2>1, <2>4, <4>1, <4>3 DEF Good, OneHook
    <3>2. CASE run'.id = run.id + 1
      <4>1. \A h \in hooked : h \in Nat /\ h <= run.id
        BY <2>1, ControlFields DEF Good, OneHook
      <4> QED BY <2>1, <3>2, <4>1 DEF Run
    <3> QED BY <2>2, <3>1, <3>2
  <2>7. ASSUME NEW i \in TaskIds, owner'[i] # None
        PROVE  owner'[i].source = "lifecycle"
    <3>1. d.owner[i] \in Owner
      BY <2>2, <2>3, <2>7, ControlFields DEF Good
    <3>2. CASE d.owner[i].source = "action"
      <4>1. IsActive(d.pipe, i)
        BY <2>2, <2>3, <2>7, <3>2 DEF Good, Owns
      <4>2. IsActive(d.pipe, id)
        BY <2>2, <2>4, <2>5 DEF Good, Owns, Sends, Live, By
      <4>3. i = id
        BY <4>1, <4>2 DEF IsActive
      <4> QED BY <4>3
    <3> QED BY <2>3, <3>1, <3>2 DEF Owner
  <2> QED BY <2>3, <2>5, <2>6, <2>7 DEF Running
<1> QED BY <1>1, Invariance, PTL DEF Spec, HookOnceAndLast

\* A settled run is final (SettledIsFinal): no late result, barrier, timeout or reset
\* changes what the observers were told.
THEOREM SettledRunsAreFinal == Spec => SettledIsFinal
<1> DEFINE Step == run.settled /\ run'.id = run.id =>
                     /\ run'.settled /\ run'.reasons = run.reasons /\ run'.state = run.state
                     /\ run'.completed = run.completed /\ run'.dispatched = run.dispatched
<1>1. IInv /\ [Next]_vars => [Step]_vars
  <2> SUFFICES ASSUME IInv, [Next]_vars PROVE Step
    OBVIOUS
  <2>1. Follows(Ctl, Ctl') \/ run'.id = run.id + 1
    BY StepFacts
  <2>2. Ctl.run = run /\ Ctl'.run = run' /\ run \in Run
    BY CtlFields DEF Ctl
  <2>3. run.id \in Nat
    BY <2>2 DEF Run
  <2> QED BY <2>1, <2>2, <2>3 DEF Follows
<1> QED BY <1>1, Invariance, PTL DEF Spec, SettledIsFinal

\* Once a run is stopped, paused or asked to pause, none of its ticks is sent
\* (NoTickAfterStop): cancelling its key leaves nothing of it that a flush could send.
THEOREM NoTickIsSentAfterStop ==
  ASSUME "continuous-action" \notin PublicExtras
  PROVE  Spec => NoTickAfterStop
<1> DEFINE Step == run'.id = run.id /\ (run.state # "running" \/ run.pauseRequested) =>
                     \A id \in NewlySent : ~(IsActive(pipe', id) /\ pipe'.active.continuous)
<1>1. Orderly /\ [Next]_vars => [Step]_vars
  <2> SUFFICES ASSUME Orderly, [Next]_vars, run'.id = run.id,
                      run.state # "running" \/ run.pauseRequested, NEW id \in NewlySent,
                      IsActive(pipe', id), pipe'.active.continuous
               PROVE  FALSE
    BY DEF Step
  <2> DEFINE c == Ctl
             d == Ctl'
  <2>1. /\ Good(c) /\ Tidy(c) /\ Calm(c) /\ run.id \in Nat
        /\ c.pipe = pipe /\ c.run = run /\ c.sent = sent
    BY CtlFields DEF Orderly, Run
  <2>2. Hush(c, d)
    BY <2>1, TidyStep DEF Orderly
  <2>3. d.pipe = pipe'
    BY DEF Ctl
  <2> HIDE DEF c, d
  <2>4. Over(c)
    BY <2>1 DEF Over, Running
  <2>5. pipe.active # None /\ pipe.active.continuous /\ pipe.active.id = id
    BY <2>1, <2>2, <2>3, <2>4 DEF Hush, NoNewTick, IsActive
  <2>6. pipe.pending = {}
    BY <2>1, <2>5 DEF Calm
  <2> QED BY <2>1, <2>5, <2>6 DEF Good, Sends, NewlySent
<1> QED BY <1>1, OrderlyInvariance, PTL DEF Spec, NoTickAfterStop

=============================================================================
