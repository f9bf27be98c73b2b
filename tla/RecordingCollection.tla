-------------------------- MODULE RecordingCollection --------------------------
(***************************************************************************)
(* A collection records a bounded run frame by frame: at every boundary    *)
(* it holds the dispatch of actions, captures the scene, stores the frame, *)
(* reclaims old ones, and only then lets the next action go. Its trigger   *)
(* windows say which frames surround an event.                             *)
(*                                                                         *)
(* The renderer session is what the collection sees of it: a counter of    *)
(* committed changes, a run, the action in flight. The store is the range  *)
(* it retains (RecordingStore.tla has the rest of it).                     *)
(***************************************************************************)
EXTENDS Integers, Sequences, FiniteSetsExt

CONSTANTS MaxCommits,     \* bound: committed changes
          MaxFrames,      \* config maxFrames of a rolling collection
          Before, After,  \* config window
          Cooldown,       \* config cooldownFrames of the trigger rule
          MaxTriggers,    \* config maxTriggers
          Every,          \* config checkpoints.every
          MaxCount,       \* config checkpoints.maxCount
          MaxBytes        \* config checkpoints.maxBytes, in units

ASSUME ConfigAssumption ==
  /\ MaxCommits \in Nat /\ MaxFrames \in Nat \ {0}
  /\ Before \in Nat /\ After \in Nat /\ Cooldown \in Nat
  /\ MaxTriggers \in Nat \ {0} /\ Every \in Nat \ {0}
  /\ MaxCount \in Nat /\ MaxBytes \in Nat

Frames == 0 .. MaxCommits
Commits == 1 .. MaxCommits
Sizes == 0 .. (MaxBytes + 1)   \* of a checkpoint; 0: the simulator gave none

VARIABLES
  config,     \* mode, checkpoints.overflow, and whether the model has a stop action
  session,    \* the renderer session: commits, connection, run, action in flight
  c,          \* the collection
  stored,     \* the frames in the store, a function from frame numbers
  writer      \* the status of the store: "open", "complete" or "failed"

vars == <<config, session, c, stored, writer>>

NoSpan == [from |-> 0, to |-> -1]
NoDraft == [messages |-> {}, scene |-> 0, bytes |-> 0]

\* The oldest frame that is retained once `frame` is stored.
FirstFrame(frame) == IF config.mode = "rolling" THEN Max({0, frame - MaxFrames}) ELSE 0

-----------------------------------------------------------------------------
(* The session *)

InFlight == session.action # "none"

\* `session.late` is history: the last action was given up, or the scene changed between
\* its result and its rendering. No result follows that would carry these changes.

\* A stop ends a running run; what is left of it is the stop action, if there is one.
StopRun(s) ==
  IF s.run = "running"
    THEN [s EXCEPT !.run = IF config.stopAction THEN "stopHook" ELSE "stopping"]
    ELSE s

Settled == session.run = "stopping" /\ ~InFlight

\* The run has settled and no frame is being written: close() goes first.
Ending == c.phase = "on" /\ Settled /\ ~c.pending

\* The session is modelled as long as the collection listens to it.
Running == session.open /\ c.phase \in {"starting", "on"} /\ ~Ending

\* Mutant of SendAction: the hold does not hold.
SendUnderHold ==
  /\ Running /\ session.run \in {"running", "stopHook"}
  /\ ~InFlight
  /\ session' = [session EXCEPT !.action = "sent", !.late = FALSE,
                                !.run = IF @ = "stopHook" THEN "stopping" ELSE @]
  /\ UNCHANGED <<config, c, stored, writer>>

SendAction ==
  /\ Running /\ session.run \in {"running", "stopHook"}
  /\ ~InFlight /\ ~c.pending
  /\ session' = [session EXCEPT !.action = "sent", !.late = FALSE,
                                !.run = IF @ = "stopHook" THEN "stopping" ELSE @]
  /\ UNCHANGED <<config, c, stored, writer>>

Rendered ==
  /\ Running /\ session.action = "applied"
  /\ session' = [session EXCEPT !.action = "none"]
  /\ UNCHANGED <<config, c, stored, writer>>

\* A user, a quota or a condition ends the run.
Stop ==
  /\ Running /\ session.run = "running"
  /\ session' = StopRun(session)
  /\ UNCHANGED <<config, c, stored, writer>>

\* No result in time, or a message that cannot be decoded: the action is given up,
\* and so are the run and its stop action.
ActionTimeout ==
  /\ Running /\ session.action = "sent"
  /\ session' = [session EXCEPT !.action = "none", !.late = TRUE, !.run = "stopping"]
  /\ UNCHANGED <<config, c, stored, writer>>

-----------------------------------------------------------------------------
(* Checkpoints *)

Exhausted(v) == v.count >= MaxCount \/ v.bytes >= MaxBytes

Wanted(v, trigger) == trigger \/ v.frame % Every = 0

\* A rolling collection gets the budget of the frames it forgets back.
Evict(v) ==
  LET gone == {x \in v.checkpoints : config.mode = "rolling" /\ x.frame < FirstFrame(v.frame)}
  IN [v EXCEPT !.checkpoints = @ \ gone, !.count = @ - Cardinality(gone),
               !.bytes = @ - MapThenSumSet(LAMBDA x : x.bytes, gone)]

\* Mutant of TooLarge: the size of the new checkpoint is left out.
TooLargeBefore(v, bytes) == v.count >= MaxCount \/ v.bytes >= MaxBytes

TooLarge(v, bytes) == v.count >= MaxCount \/ v.bytes + bytes > MaxBytes

Retain(v, bytes) ==
  [v EXCEPT !.count = @ + 1, !.bytes = @ + bytes,
            !.checkpoints = @ \cup {[frame |-> v.frame, bytes |-> bytes]}]

-----------------------------------------------------------------------------
(* Windows *)

\* The window of a trigger at this frame, before the end of the frame is known.
NewWindow(frame) ==
  LET from == Max({0, frame - Before})
      first == FirstFrame(frame)
      gap == IF from < first THEN [from |-> from, to |-> first - 1] ELSE NoSpan
  IN [frame |-> frame, from |-> from, to |-> frame + After,
      actual |-> [from |-> Max({first, from}), to |-> frame],
      gap |-> gap, rest |-> NoSpan,
      state |-> IF After > 0 THEN "pending" ELSE IF gap # NoSpan THEN "partial" ELSE "complete"]

\* Mutant of Forget: a window keeps the frames that the store has given up.
ForgetNothing(x, frame) == x

\* Frames that are no longer retained move from a window's range to its gap.
Forget(x, frame) ==
  LET first == FirstFrame(frame)
      to == Min({first - 1, x.actual.to})
  IN IF x.actual.from > to THEN x
     ELSE [x EXCEPT !.gap = IF @ # NoSpan THEN [from |-> @.from, to |-> Max({@.to, to})]
                                          ELSE [from |-> x.actual.from, to |-> to],
                    !.actual.from = Min({first, x.actual.to + 1}),
                    !.state = IF @ = "complete" THEN "partial" ELSE @]

\* A pending window takes the frame in, and is done at the end of what was asked for.
Extend(x, frame) ==
  IF x.state # "pending" THEN x
  ELSE [x EXCEPT !.actual.to = Min({frame, x.to}),
                 !.state = IF frame < x.to THEN @
                           ELSE IF x.gap # NoSpan THEN "partial" ELSE "complete"]

\* The collection ends: what is missing of a pending window is a gap as well.
CutShort(x) ==
  IF x.state # "pending" THEN x
  ELSE [x EXCEPT !.state = "partial", !.rest = [from |-> x.actual.to + 1, to |-> x.to]]

WindowsAt(v) ==
  LET all == IF v.triggered THEN Append(v.windows, NewWindow(v.frame)) ELSE v.windows
  IN [i \in DOMAIN all |-> Extend(Forget(all[i], v.frame), v.frame)]

-----------------------------------------------------------------------------
(* The collection *)

Init ==
  /\ config \in [mode : {"rolling", "full-history"}, overflow : {"truncate", "stop", "fail"},
                 stopAction : BOOLEAN]
  /\ session = [revision |-> 0, open |-> TRUE, run |-> "none", action |-> "none",
                late |-> FALSE]
  /\ c = [phase |-> "starting", frame |-> 0, buffer |-> {}, pending |-> FALSE,
          job |-> "capture", asked |-> MaxCount > 0 /\ MaxBytes > 0, triggered |-> FALSE,
          batch |-> {}, draft |-> NoDraft, lastTrigger |-> -1, windows |-> <<>>,
          checkpoints |-> {}, count |-> 0, bytes |-> 0, error |-> FALSE, since |-> 0]
  /\ (config.overflow = "truncate" \/ c.asked)
  /\ stored = <<>>
  /\ writer = "open"

\* The chain of frames comes to rest, and the hold is released.
Rest(v) == [v EXCEPT !.job = "none", !.pending = FALSE, !.batch = {}, !.asked = FALSE,
                     !.triggered = FALSE, !.draft = NoDraft]

\* Mutant of Broken: the hold of a failed frame stays.
BrokenHolding(v) == [v EXCEPT !.error = TRUE, !.job = "none"]

\* An error in the chain: the collection has failed, and the hold is released.
Broken(v) == [Rest(v) EXCEPT !.error = TRUE]

\* fail(): the collection takes nothing in any more and stops the run. An error of
\* start() gives the recording up instead.
Fail(s) ==
  IF c.phase = "starting"
    THEN /\ c' = [Rest(c) EXCEPT !.phase = "closed", !.error = TRUE]
         /\ writer' = "failed"
         /\ session' = s
    ELSE /\ c' = Broken(c)
         /\ session' = StopRun(s)
         /\ UNCHANGED writer

\* A frame begins: the budget of forgotten frames returns, triggers are evaluated, a
\* checkpoint is asked for or, when the budget is used up, left out.
Begin(v, batch, matched) ==
  LET next == Evict([v EXCEPT !.frame = @ + 1])
      triggered == /\ matched
                   /\ Len(next.windows) < MaxTriggers
                   /\ \/ next.lastTrigger = -1
                      \/ next.frame - next.lastTrigger > Cooldown
  IN [next EXCEPT !.pending = TRUE, !.job = "capture", !.batch = batch, !.buffer = {},
                  !.triggered = triggered,
                  !.lastTrigger = IF triggered THEN next.frame ELSE @,
                  !.asked = Wanted(next, triggered)]

\* Mutant of Takes: changes that arrive while an action runs are not kept.
TakesOnlyTheResult(v, revision, isAction) == {revision}

\* The changes that the frame of this commit holds.
Takes(v, revision, isAction) == v.buffer \cup {revision}

\* The listener of the session's commits.
OnCommit(s, isAction, matched) ==
  IF c.phase # "on" \/ c.error
    THEN session' = s /\ UNCHANGED <<c, writer>>
  ELSE IF c.pending  \* a change under the hold: the frame would show it, but not hold it
    THEN /\ c' = [c EXCEPT !.error = TRUE]
         /\ session' = StopRun(s)
         /\ UNCHANGED writer
  ELSE IF ~isAction /\ InFlight
    THEN /\ c' = [c EXCEPT !.buffer = Takes(c, s.revision, isAction)]
         /\ session' = s
         /\ UNCHANGED writer
  ELSE LET v == Begin(c, Takes(c, s.revision, isAction), matched)
       IN IF v.asked /\ Exhausted(v)
            THEN IF config.overflow = "fail"
                   THEN /\ c' = Broken([v EXCEPT !.buffer = {}])
                        /\ session' = StopRun(s)
                        /\ UNCHANGED writer
                   ELSE /\ c' = [v EXCEPT !.asked = FALSE]
                        /\ session' = IF config.overflow = "stop" THEN StopRun(s) ELSE s
                        /\ UNCHANGED writer
            ELSE c' = v /\ session' = s /\ UNCHANGED writer

\* The simulator changes the scene, by itself or within an action.
SceneUpdate ==
  /\ Running /\ session.revision < MaxCommits
  /\ \E matched \in BOOLEAN :
       OnCommit([session EXCEPT !.revision = @ + 1, !.late = @ \/ session.action = "applied"],
                FALSE, matched)
  /\ UNCHANGED <<config, stored>>

ActionResult ==
  /\ Running /\ session.action = "sent" /\ session.revision < MaxCommits
  /\ \E matched \in BOOLEAN :
       OnCommit([session EXCEPT !.revision = @ + 1, !.action = "applied"], TRUE, matched)
  /\ UNCHANGED <<config, stored>>

\* The connection closes: the run is over, and so is a collection that listens.
Disconnect ==
  /\ Running
  /\ session' = [session EXCEPT !.open = FALSE, !.action = "none",
                                !.run = IF @ = "none" THEN @ ELSE "stopping"]
  /\ c' = [c EXCEPT !.error = @ \/ c.phase = "on"]
  /\ UNCHANGED <<config, stored, writer>>

\* A checkpoint over the budget ends the collection under this policy.
Refusing == \/ config.overflow = "fail"
            \/ config.overflow = "stop" /\ c.phase = "starting"

\* The captured frame is not stored: the budget, or a failure during the capture.
Refused(over) == c.error \/ (over /\ Refusing)

\* captureBoundaryFrame resolves, at an action boundary. The checkpoint is kept if the
\* budget allows; an error of the meantime ends the frame here; otherwise the windows
\* take it in and the scene of this moment goes to the store.
Captured ==
  /\ c.job = "capture" /\ ~InFlight
  /\ \E bytes \in IF c.asked /\ session.open THEN Sizes ELSE {0} :
       LET over == bytes > 0 /\ TooLarge(c, bytes)
           kept == IF over THEN 0 ELSE bytes
           v == IF kept > 0 THEN Retain(c, kept) ELSE c
           s == IF over /\ config.overflow = "stop" THEN StopRun(session) ELSE session
       IN IF Refused(over) THEN Fail(s)
            ELSE /\ c' = [v EXCEPT !.job = "append", !.windows = WindowsAt(v),
                                   !.draft = [messages |-> c.batch, scene |-> session.revision,
                                              bytes |-> kept]]
                 /\ session' = s
                 /\ UNCHANGED writer
  /\ UNCHANGED <<config, stored>>

\* The capture fails: no answer, a boundary that changed, a disconnection, a required
\* checkpoint that is missing. It stops the run in any case.
CaptureFails ==
  /\ c.job = "capture"
  /\ Fail(session)
  /\ UNCHANGED <<config, stored>>

\* Now and then a rolling collection lets the store reclaim what it has forgotten.
CollectsNow == /\ config.mode = "rolling" /\ c.phase = "on"
               /\ c.frame % Max({1, Min({64, MaxFrames})}) = 0

\* Checkpoints that windows can no longer refer to; the budget of a full history stays used.
Forgotten == {x \in c.checkpoints : config.mode = "full-history" /\ x.frame < c.frame - Before}

\* The store has the frame. After the first one the collection begins to listen and the
\* run starts, at once; without a connection the recording is given up.
Appended ==
  /\ c.job = "append"
  /\ stored' = [f \in DOMAIN stored \cup {c.frame} |->
                  IF f = c.frame THEN c.draft ELSE stored[f]]
  /\ LET v == [c EXCEPT !.checkpoints = @ \ Forgotten]
     IN IF c.phase = "starting"
          THEN IF session.open
                 THEN /\ c' = [Rest(v) EXCEPT !.phase = "on", !.since = session.revision]
                      /\ session' = [session EXCEPT !.run = "running"]
                      /\ UNCHANGED writer
                 ELSE /\ c' = [Rest(v) EXCEPT !.phase = "closed", !.error = TRUE]
                      /\ writer' = "failed"
                      /\ UNCHANGED session
          ELSE /\ c' = IF CollectsNow THEN [v EXCEPT !.job = "collect"] ELSE Rest(v)
               /\ UNCHANGED <<session, writer>>
  /\ UNCHANGED config

Collected ==
  /\ c.job = "collect"
  /\ stored' = [f \in {g \in DOMAIN stored : g >= FirstFrame(c.frame)} |-> stored[f]]
  /\ c' = Rest(c)
  /\ UNCHANGED <<config, session, writer>>

\* The store refuses the frame or the collection.
StoreFails ==
  /\ c.job \in {"append", "collect"}
  /\ Fail(session)
  /\ UNCHANGED <<config, stored>>

\* close(), once the chain has come to rest: the listeners go, windows are cut short.
End ==
  /\ Ending
  /\ c' = [c EXCEPT !.phase = "closing",
                    !.windows = [i \in DOMAIN c.windows |-> CutShort(c.windows[i])]]
  /\ UNCHANGED <<config, session, stored, writer>>

Closed ==
  /\ c.phase = "closing"
  /\ c' = [c EXCEPT !.phase = "closed"]
  /\ writer' = IF c.error THEN "failed" ELSE "complete"
  /\ UNCHANGED <<config, session, stored>>

\* The last root cannot be written: the store stays open, the operation reports it.
CloseFails ==
  /\ c.phase = "closing"
  /\ c' = [c EXCEPT !.phase = "closed", !.error = TRUE]
  /\ UNCHANGED <<config, session, stored, writer>>

Chain == Captured \/ CaptureFails \/ Appended \/ Collected \/ StoreFails
Ends == End \/ Closed \/ CloseFails

Next ==
  \/ SendAction \/ Rendered \/ Stop \/ ActionTimeout \/ SceneUpdate \/ ActionResult
  \/ Disconnect \/ Chain \/ Ends

\* Promises are answered: a capture has a timeout, a write succeeds or fails.
Spec == Init /\ [][Next]_vars /\ WF_vars(Chain) /\ WF_vars(Ends)
-----------------------------------------------------------------------------
(* Properties *)

Span(x) == x.from .. x.to
Parts(x) == <<Span(x.gap), Span(x.actual), Span(x.rest)>>

\* Types; the hold of the dispatch is taken exactly while a frame is being written.
TypeOK ==
  /\ session.revision \in 0 .. MaxCommits /\ session.open \in BOOLEAN
  /\ session.run \in {"none", "running", "stopHook", "stopping"}
  /\ session.action \in {"none", "sent", "applied"} /\ session.late \in BOOLEAN
  /\ c.phase \in {"starting", "on", "closing", "closed"}
  /\ c.job \in {"none", "capture", "append", "collect"}
  /\ c.frame \in Frames /\ c.buffer \subseteq Commits /\ c.batch \subseteq Commits
  /\ c.pending = (c.phase = "on" /\ c.job # "none")
  /\ DOMAIN stored \subseteq Frames
  /\ writer \in {"open", "complete", "failed"}

\* A stored frame shows what its messages say: its scene is that after the last of
\* them, although it was captured later. While the collection has not failed, every
\* change since it began to listen (or since the oldest frame that is retained), up to
\* the newest frame, is in one stored frame; the later ones are in the frame that is
\* being written, or kept back for the next one (RecordingCollection.ts:274). They are
\* kept back while the result of an action is awaited, which takes them along; else only
\* if that action was given up, or if they came after its result. If no other commit
\* follows, these last ones are in no frame, although the store may say "complete".
EveryCommitIsKept ==
  /\ \A f \in DOMAIN stored \ {0} : stored[f].scene = Max(stored[f].messages)
  /\ c.phase # "starting" /\ ~c.error =>
       LET upTo(f) == IF f = 0 THEN c.since ELSE stored[f].scene
           oldest == upTo(Min(DOMAIN stored))
           newest == upTo(Max(DOMAIN stored))
           writing == IF c.job = "collect" THEN {} ELSE c.batch
       IN /\ (oldest + 1) .. newest \subseteq UNION {stored[f].messages : f \in DOMAIN stored}
          /\ \A f, g \in DOMAIN stored : f # g => stored[f].messages \cap stored[g].messages = {}
          /\ (newest + 1) .. session.revision = writing \cup c.buffer
          /\ c.buffer # {} => session.action = "sent" \/ session.late

\* Between frames, and while the collection has not failed, the frames that a window asked
\* for are accounted for exactly once: it has them, or a gap says that they are missing, or
\* they are still to come. A failed collection is exempt: its last windows may count a
\* frame that the store has refused.
WindowsAddUp ==
  c.job \notin {"append", "collect"} /\ ~c.error =>
    \A i \in DOMAIN c.windows :
      LET x == c.windows[i]
          toCome == IF x.state = "pending" THEN (x.actual.to + 1) .. x.to ELSE {}
      IN /\ x.from .. x.to = (UNION {Parts(x)[k] : k \in 1 .. 3}) \cup toCome
         /\ \A k, l \in 1 .. 3 : k # l => Parts(x)[k] \cap Parts(x)[l] = {}
         /\ x.state = "complete" <=> Span(x.actual) = x.from .. x.to
         /\ Span(x.actual) \subseteq DOMAIN stored

\* Within the range that the store retains, checkpoints never exceed their budget, and
\* neither does what the collection has charged to it.
CheckpointsWithinBudget ==
  LET kept == {f \in DOMAIN stored : f >= FirstFrame(c.frame) /\ stored[f].bytes > 0}
  IN /\ c.count \in 0 .. MaxCount /\ c.bytes \in 0 .. MaxBytes
     /\ Cardinality(kept) <= MaxCount
     /\ MapThenSumSet(LAMBDA f : stored[f].bytes, kept) <= MaxBytes

\* The hold works: the result of an action never meets a frame that is being written,
\* so a run does not fail its own collection, however slow the store is.
ResultsDoNotOverrun ==
  [][session.action = "sent" /\ session'.action = "applied" /\ c.pending => c'.error = c.error]_vars

\* The run goes on: a hold is always released.
HoldIsReleased == c.pending ~> ~c.pending
=============================================================================
