----------------------------- MODULE AgentRuntime -----------------------------
(***************************************************************************)
(* The Node host of the renderer client: connection attempts that await    *)
(* status writes and handshakes, one disconnect that settles the last      *)
(* action, gives the transport up, drains recording writes and saves the   *)
(* scene, a stop that joins it, and the checkpoints of the scene, which    *)
(* are written one after another while the scene goes on changing.         *)
(***************************************************************************)
EXTENDS Integers, Sequences, SequencesExt

CONSTANTS Attempts,       \* calls of connect()
          MaxRevision,    \* bound: changes of the scene
          MaxWrites,      \* bound: checkpoints that wait in the chain
          None

ASSUME RuntimeAssumption ==
  None \notin Attempts /\ MaxRevision \in Nat /\ MaxWrites \in Nat

VARIABLES
  host,        \* the phase, the connection, the action in flight and the recordings
  call,        \* the attempts: where each awaits
  op,          \* the disconnect under way
  stopping,    \* stop(): not called, joined to a disconnect, done
  save,        \* the scene and its revision, the dirty flag, the timer, checkpointChain;
               \* `failed` is history: a save of this revision failed
  disk,        \* the scene file
  render       \* a render that captured the scene and is painting

vars == <<host, call, op, stopping, save, disk, render>>

\* `latest` stands for connectionGeneration: the attempt that took the last number, or
\* None if it was a disconnect. The scene that a change commits is named by its revision;
\* Empty is the one that connect() leaves, whose revision stays that of the scene it emptied.
Empty == 0
NoOp == [step |-> "none", late |-> FALSE, failed |-> FALSE, left |-> 0, joined |-> FALSE]
NoRender == [scene |-> Empty, revision |-> -1]

Init ==
  /\ host = [phase |-> "idle", latest |-> None, link |-> "none", by |-> None,
             busy |-> "no", recording |-> FALSE, writes |-> 0]
  /\ call = [a \in Attempts |-> "new"]
  /\ op = NoOp
  /\ stopping = "no"
  /\ save = [scene |-> Empty, revision |-> 0, dirty |-> FALSE, timer |-> FALSE,
             chain |-> <<>>, failed |-> FALSE]
  /\ disk = Empty
  /\ render = NoRender

Disconnecting == op.step # "none"
Connected == host.link = "open"

-----------------------------------------------------------------------------
(* Checkpoints *)

\* Enqueue behind the writes under way: the scene is dumped now.
Write(v, scene) ==
  [v EXCEPT !.timer = FALSE, !.chain = Append(@, [scene |-> scene, revision |-> v.revision])]

\* checkpointScene: a clean scene waits for the chain, and a write of the same revision
\* that is pending is joined.
CheckpointScene(v) ==
  IF ~v.dirty \/ (v.chain # <<>> /\ Last(v.chain).revision = v.revision)
    THEN [v EXCEPT !.timer = FALSE]
    ELSE Write(v, v.scene)

\* Every change is marked, and the timer set unless it runs.
MarkSceneDirty(v) ==
  [v EXCEPT !.scene = v.revision + 1, !.revision = v.revision + 1,
            !.dirty = TRUE, !.timer = TRUE, !.failed = FALSE]

Room(v) == Len(v.chain) <= MaxWrites

TimerFires ==
  /\ save.timer
  /\ save' = CheckpointScene(save)
  /\ UNCHANGED <<host, call, op, stopping, disk, render>>

\* Mutant of Cleans: whatever was written, the scene is clean.
CleansAlways(write) == TRUE

\* Only a write of the latest revision makes the scene clean.
Cleans(write) == write.revision = save.revision

\* The disconnect that waits for a write counts those before it.
OneLess(o) == IF o.step = "saving" /\ o.left > 0 THEN [o EXCEPT !.left = @ - 1] ELSE o

WriteDone ==
  /\ save.chain # <<>>
  /\ disk' = Head(save.chain).scene
  /\ save' = [save EXCEPT !.chain = Tail(@), !.dirty = @ /\ ~Cleans(Head(save.chain))]
  /\ op' = OneLess(op)
  /\ UNCHANGED <<host, call, stopping, render>>

\* The chain goes on after a failure; who waits for that very write is told.
WriteFails ==
  /\ save.chain # <<>>
  /\ save' = [save EXCEPT !.chain = Tail(@), !.failed = @ \/ Head(save.chain).revision = save.revision]
  /\ op' = [OneLess(op) EXCEPT !.failed = @ \/ (op.step = "saving" /\ op.left = 1 /\ op.joined)]
  /\ UNCHANGED <<host, call, stopping, disk, render>>

\* Whatever scene there is: a painter may have something to show of an empty one.
RenderStarts ==
  /\ render = NoRender
  /\ render' = [scene |-> save.scene, revision |-> save.revision]
  /\ UNCHANGED <<host, call, op, stopping, save, disk>>

\* The image keeps the scene it captured, the file gets the latest one.
CheckpointRenderedScene(v, r) ==
  IF r.revision = v.revision THEN Write(v, r.scene) ELSE CheckpointScene(v)

RenderEnds ==
  /\ render # NoRender
  /\ \/ Len(save.chain) < MaxWrites /\ save' = CheckpointRenderedScene(save, render)
     \/ save' = save
  /\ render' = NoRender
  /\ UNCHANGED <<host, call, op, stopping, disk>>

-----------------------------------------------------------------------------
(* Connections *)

\* recording:complete: the snapshot goes to its writer.
StopRecording(h) ==
  IF h.recording THEN [h EXCEPT !.recording = FALSE, !.writes = @ + 1] ELSE h

\* The session loses its transport: the run is reset, the recording ends.
ClientDisconnect(h) == StopRecording([h EXCEPT !.link = "none", !.by = None, !.busy = "no"])

\* run:settled, also of a run that is reset, is followed by a checkpoint.
RunSettles == IF host.busy = "run" THEN CheckpointScene(save) ELSE save

\* The attempt whose candidate is cancelled rejects.
CancelCandidate(calls) ==
  IF host.link = "handshake" THEN [calls EXCEPT ![host.by] = "rejected"] ELSE calls

BeginAttempt(h, a) == [h EXCEPT !.latest = a, !.phase = "connecting"]

\* disconnectInternal up to its first await: it settles the action in flight, or goes on
\* with Detach at once.
Shutting(h) ==
  [h EXCEPT !.latest = None, !.phase = IF h.link = "open" THEN "stopping" ELSE @]
StartDisconnect(h, calls) ==
  LET v == Shutting(h)
  IN IF h.busy # "no"
       THEN op' = [NoOp EXCEPT !.step = "settling"] /\ host' = v /\ call' = calls
       ELSE /\ op' = [NoOp EXCEPT !.step = "draining"]
            /\ host' = ClientDisconnect(v)
            /\ call' = CancelCandidate(calls)

Connect(a) ==
  /\ call[a] = "new"
  /\ \/ /\ stopping # "no" \/ Disconnecting
        /\ call' = [call EXCEPT ![a] = "rejected"]
        /\ UNCHANGED <<host, op>>
     \/ /\ stopping = "no" /\ ~Disconnecting
        /\ IF Connected \/ host.recording
             THEN StartDisconnect(host, [call EXCEPT ![a] = "waiting"])
             ELSE /\ host' = BeginAttempt(host, a)
                  /\ call' = [call EXCEPT ![a] = "persisting"]
                  /\ UNCHANGED op
  /\ UNCHANGED <<stopping, save, disk, render>>

\* Mutant of IsCurrent: an attempt never asks whether it was retired.
IsAlwaysCurrent(a) == TRUE

\* assertCurrent.
IsCurrent(a) == host.latest = a

\* The status is written, or its write fails: the attempt gives up whatever connection
\* there is, empties the scene (its revision stays) and starts the handshake.
StatusWritten(a) ==
  /\ call[a] = "persisting" /\ IsCurrent(a)
  /\ host' = [ClientDisconnect(host) EXCEPT !.link = "handshake", !.by = a]
  /\ call' = [CancelCandidate(call) EXCEPT ![a] = "handshake"]
  /\ save' = [RunSettles EXCEPT !.scene = Empty]
  /\ UNCHANGED <<op, stopping, disk, render>>

GivesUp(a) ==
  /\ call[a] = "persisting"
  /\ call' = [call EXCEPT ![a] = "rejected"]
  /\ UNCHANGED <<host, op, stopping, save, disk, render>>

\* The client installs its candidate, whichever attempt is the latest by then; a retired
\* attempt rejects all the same.
HandshakeDone(a) ==
  /\ host.link = "handshake" /\ host.by = a
  /\ host' = [host EXCEPT !.link = "open", !.phase = "open"]
  /\ call' = [call EXCEPT ![a] = IF IsCurrent(a) THEN "logging" ELSE "rejected"]
  /\ UNCHANGED <<op, stopping, save, disk, render>>

\* Only the current attempt may say that the connection failed.
HandshakeFails(a) ==
  /\ host.link = "handshake" /\ host.by = a
  /\ host' = [host EXCEPT !.link = "none", !.by = None, !.phase = IF IsCurrent(a) THEN "error" ELSE @]
  /\ call' = [call EXCEPT ![a] = "rejected"]
  /\ UNCHANGED <<op, stopping, save, disk, render>>

Logged(a) ==
  /\ call[a] = "logging"
  /\ call' = [call EXCEPT ![a] = IF IsCurrent(a) THEN "connected" ELSE "rejected"]
  /\ UNCHANGED <<host, op, stopping, save, disk, render>>

-----------------------------------------------------------------------------
(* The simulator, actions and recordings *)

StateSyncBegin ==
  /\ Connected
  /\ host' = [host EXCEPT !.phase = "syncing"]
  /\ UNCHANGED <<call, op, stopping, save, disk, render>>

\* The new scene is committed, and saved at once.
StateSyncEnd ==
  /\ Connected /\ host.phase = "syncing"
  /\ save.revision < MaxRevision /\ Room(save)
  /\ host' = [host EXCEPT !.phase = "ready"]
  /\ save' = CheckpointScene(MarkSceneDirty(save))
  /\ UNCHANGED <<call, op, stopping, disk, render>>

\* A live update, or a restore that succeeded.
SceneChanges ==
  /\ Connected /\ save.revision < MaxRevision
  /\ save' = MarkSceneDirty(save)
  /\ UNCHANGED <<host, call, op, stopping, disk, render>>

\* runAction and startRun over a connection that nobody is giving up.
Admitted == Connected /\ stopping = "no" /\ ~Disconnecting

StartAction ==
  /\ Admitted /\ host.busy = "no"
  /\ \E kind \in {"action", "run"} : host' = [host EXCEPT !.busy = kind]
  /\ UNCHANGED <<call, op, stopping, save, disk, render>>

\* The action settles, or the run, and with it the recording that is its own.
ActionSettles ==
  /\ host.busy # "no"
  /\ LET h == [host EXCEPT !.busy = "no"]
     IN host' \in {h} \cup (IF host.busy = "run" THEN {StopRecording(h)} ELSE {})
  /\ save' = RunSettles
  /\ UNCHANGED <<call, op, stopping, disk, render>>

\* admitRecording: one recording at a time, the one being written included.
StartRecording ==
  /\ Admitted /\ host.busy = "no" /\ ~host.recording /\ host.writes = 0
  /\ host' = [host EXCEPT !.recording = TRUE]
  /\ UNCHANGED <<call, op, stopping, save, disk, render>>

StopsRecording ==
  /\ host.recording /\ host.busy = "no"
  /\ host' = StopRecording(host)
  /\ UNCHANGED <<call, op, stopping, save, disk, render>>

\* A recording leaves recordingWrites, persisted or failed.
RecordingWritten ==
  /\ host.writes > 0
  /\ host' = [host EXCEPT !.writes = @ - 1]
  /\ UNCHANGED <<call, op, stopping, save, disk, render>>

\* The simulator closes the connection: the run is reset, the recording ends.
RemoteClose ==
  /\ Connected
  /\ host' = [ClientDisconnect(host) EXCEPT !.phase = "idle"]
  /\ save' = RunSettles
  /\ UNCHANGED <<call, op, stopping, disk, render>>

TransportError ==
  /\ Connected
  /\ host' = [host EXCEPT !.phase = "error"]
  /\ UNCHANGED <<call, op, stopping, save, disk, render>>

-----------------------------------------------------------------------------
(* Disconnect and stop *)

\* disconnect() joins the one under way.
Disconnect ==
  /\ ~Disconnecting /\ stopping = "no"
  /\ StartDisconnect(host, call)
  /\ UNCHANGED <<stopping, save, disk, render>>

\* Mutant of Settles: settlement has no deadline.
SettlesByItself(timedOut) == ~timedOut /\ host.busy = "no"

\* settleActions.
Settles(timedOut) == timedOut \/ host.busy = "no"

\* The action settled, or it did not in time: the transport goes in any case.
Detach ==
  /\ op.step = "settling"
  /\ \E timedOut \in BOOLEAN :
       /\ Settles(timedOut)
       /\ op' = [op EXCEPT !.step = "draining", !.late = timedOut]
  /\ host' = ClientDisconnect(host)
  /\ call' = CancelCandidate(call)
  /\ save' = RunSettles
  /\ UNCHANGED <<stopping, disk, render>>

\* The recordings are written: the last checkpoint.
Drained ==
  /\ op.step = "draining" /\ host.writes = 0
  /\ save' = CheckpointScene(save)
  /\ op' = [op EXCEPT !.step = "saving", !.left = Len(save'.chain), !.joined = save.dirty]
  /\ UNCHANGED <<host, call, stopping, disk, render>>

\* The disconnect ends, and rejects if its settlement was late or its checkpoint failed;
\* only the latter skips the phase. A connect that waited goes on after a success.
EndDisconnect ==
  /\ op.step = "saving" /\ op.left = 0
  /\ op' = NoOp
  /\ LET idle == ~op.failed /\ host.latest = None /\ stopping = "no"
         h == IF idle THEN [host EXCEPT !.phase = "idle"] ELSE host
         waiting == {a \in Attempts : call[a] = "waiting"}
     IN IF op.late \/ op.failed \/ stopping # "no" \/ waiting = {}
          THEN /\ host' = h
               /\ call' = [a \in Attempts |-> IF a \in waiting THEN "rejected" ELSE call[a]]
          ELSE \E a \in waiting :
                 /\ host' = BeginAttempt(h, a)
                 /\ call' = [call EXCEPT ![a] = "persisting"]
  /\ UNCHANGED <<stopping, save, disk, render>>

\* stop() joins a disconnect under way, or starts one.
Stop ==
  /\ stopping = "no"
  /\ stopping' = "joined"
  /\ LET h == [host EXCEPT !.phase = "stopping"]
     IN IF Disconnecting
          THEN host' = h /\ UNCHANGED <<call, op>>
          ELSE StartDisconnect(h, call)
  /\ UNCHANGED <<save, disk, render>>

\* Whether the disconnect succeeded or not.
Stopped ==
  /\ stopping = "joined" /\ ~Disconnecting /\ host.writes = 0
  /\ stopping' = "done"
  /\ host' = [host EXCEPT !.phase = "stopped"]
  /\ UNCHANGED <<call, op, save, disk, render>>

WriteEnds == WriteDone \/ WriteFails
Attempt(a) ==
  \/ StatusWritten(a) \/ GivesUp(a)
  \/ HandshakeDone(a) \/ HandshakeFails(a) \/ Logged(a)

Next ==
  \/ \E a \in Attempts : Connect(a) \/ Attempt(a)
  \/ Disconnect \/ Detach \/ Drained \/ EndDisconnect \/ Stop \/ Stopped
  \/ StateSyncBegin \/ StateSyncEnd \/ SceneChanges \/ RemoteClose \/ TransportError
  \/ StartAction \/ ActionSettles \/ StartRecording \/ StopsRecording \/ RecordingWritten
  \/ TimerFires \/ WriteEnds \/ RenderStarts \/ RenderEnds

\* Writes end, one way or the other, an action settles or its settlement times out, and
\* continuations run.
Fairness ==
  /\ WF_vars(WriteEnds) /\ WF_vars(RecordingWritten)
  /\ WF_vars(Detach) /\ WF_vars(Drained) /\ WF_vars(EndDisconnect) /\ WF_vars(Stopped)

Spec == Init /\ [][Next]_vars /\ Fairness
-----------------------------------------------------------------------------
(* Properties *)

\* The scene and its file agree. If the scene is clean, the file holds the scene that its
\* latest revision committed; a dirty one is about to be saved, unless the save of this
\* very revision failed; and the writes that wait are in order, so that no scene replaces
\* a newer one. One case is excepted, and there a committed scene is lost: connect()
\* empties the scene without a new revision, and from then on a checkpoint of that
\* revision writes the empty scene over the committed one and makes it clean, though a
\* failed checkpoint should leave it to a later disconnect (agent-runtime.md:53). Until
\* a connection empties it, no checkpoint of a revision is empty.
SceneIsSaved ==
  LET emptied == save.scene = Empty
      order == <<disk>> \o [i \in DOMAIN save.chain |-> save.chain[i].scene]
  IN /\ ~save.dirty => disk = save.revision \/ (emptied /\ disk = Empty)
     /\ save.dirty =>
          \/ save.timer \/ save.failed
          \/ \E i \in DOMAIN save.chain : save.chain[i].revision = save.revision
     /\ \A i, j \in DOMAIN order :
          i < j => \/ order[i] <= order[j]
                   \/ /\ order[j] = Empty
                      /\ save.chain[j - 1].revision = save.revision => emptied

\* A stopped runtime has stopped for good: no connection, no attempt that could still
\* make one, no recording that is not written, no change of the scene that nobody
\* tried to save, and nothing brings another phase back.
StoppedIsClean ==
  stopping = "done" =>
    /\ host.phase = "stopped" /\ host.link = "none"
    /\ ~host.recording /\ host.writes = 0 /\ host.busy = "no"
    /\ \A a \in Attempts : call[a] \in {"persisting", "logging"} => ~IsCurrent(a)
    /\ save.dirty => save.failed

\* Stop ends, whatever action does not answer and whatever write fails.
StopEnds == stopping = "joined" ~> stopping = "done"
=============================================================================
