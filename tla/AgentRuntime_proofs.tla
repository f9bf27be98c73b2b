-------------------------- MODULE AgentRuntime_proofs --------------------------
(***************************************************************************)
(* The invariants of AgentRuntime.tla, for every number of attempts, of    *)
(* changes and of checkpoints that wait.                                   *)
(*                                                                         *)
(* Saved is about the scene, its file and the chain of checkpoints between *)
(* them, and every operation on the record `save` has a lemma that it      *)
(* keeps it.  Due ties the disconnect under way to the checkpoint it waits *)
(* for, and Quiet is what a disconnect leaves of the host.                 *)
(***************************************************************************)
EXTENDS AgentRuntime, TLAPS

Checkpoint == [scene: Nat, revision: Nat]

Host == [phase: {"idle", "connecting", "open", "syncing", "ready", "stopping", "stopped", "error"},
         latest: Attempts \cup {None}, link: {"none", "handshake", "open"},
         by: Attempts \cup {None}, busy: {"no", "action", "run"},
         recording: BOOLEAN, writes: Nat]

Op == [step: {"none", "settling", "draining", "saving"}, late: BOOLEAN, failed: BOOLEAN,
       left: Nat, joined: BOOLEAN]

Save == [scene: Nat, revision: Nat, dirty: BOOLEAN, timer: BOOLEAN,
         chain: Seq(Checkpoint), failed: BOOLEAN]

Calls == {"new", "waiting", "rejected", "persisting", "handshake", "logging", "connected"}

\* A checkpoint holds the scene of its revision, or the empty one that a reset left.
\* Checkpoints wait in the order of their revisions, and nothing older than the file does;
\* those that wait while the scene is clean are of its revision.
Ordered(v, d) ==
  /\ \A i \in 1 .. Len(v.chain) :
       /\ v.chain[i].scene \in {Empty, v.chain[i].revision}
       /\ v.chain[i].revision <= v.revision
       /\ d <= v.chain[i].revision
       /\ ~v.dirty => v.chain[i].revision = v.revision
       /\ v.scene # Empty /\ v.chain[i].revision = v.revision => v.chain[i].scene = v.scene
  /\ \A i, j \in 1 .. Len(v.chain) : i < j => v.chain[i].revision <= v.chain[j].revision

Covered(v) ==
  v.dirty => \/ v.timer \/ v.failed
             \/ \E i \in 1 .. Len(v.chain) : v.chain[i].revision = v.revision

Saved(v, d) ==
  /\ v \in Save /\ d \in Nat /\ d <= v.revision
  /\ v.scene \in {Empty, v.revision}
  /\ ~v.dirty => d = v.revision \/ (v.scene = Empty /\ d = Empty)
  /\ Ordered(v, d) /\ Covered(v)

\* A render captured the scene of its revision, or the empty one if that was emptied.
Captured(r, v) ==
  \/ r = NoRender
  \/ /\ r.revision \in 0 .. v.revision /\ r.scene \in {Empty, r.revision}
     /\ v.scene # Empty /\ r.revision = v.revision => r.scene = v.scene

\* The disconnect waits for the last write of the scene it found, or that write failed.
Due(o, v) ==
  o.step = "saving" =>
    /\ o.left \in 0 .. Len(v.chain)
    /\ v.dirty => \/ v.failed
                  \/ \E i \in 1 .. o.left : v.chain[i].revision = v.revision

\* No connection, and nothing that could make one or change the scene.
Quiet(h) == h.link = "none" /\ h.busy = "no" /\ ~h.recording /\ h.latest = None

Hosting(h, o) ==
  /\ h.busy # "no" => h.link = "open"
  /\ h.recording => h.link = "open"
  /\ o.step # "none" => h.latest = None
  /\ o.step \in {"draining", "saving"} => Quiet(h)
  /\ o.step = "saving" => h.writes = 0

Ending(s, h, o, v) ==
  /\ s # "no" /\ o.step = "none" => Quiet(h) /\ (v.dirty => v.failed)
  /\ s = "done" => o.step = "none" /\ h.phase = "stopped" /\ h.writes = 0

IInv ==
  /\ host \in Host /\ call \in [Attempts -> Calls] /\ op \in Op
  /\ stopping \in {"no", "joined", "done"}
  /\ Saved(save, disk) /\ Captured(render, save)
  /\ Due(op, save) /\ Hosting(host, op) /\ Ending(stopping, host, op, save)
-----------------------------------------------------------------------------
(* Operations on the scene and its checkpoints.                            *)

\* What a checkpoint does: the chain may get one more element, the last of which is then
\* of the scene's revision.
Extends(v, w) ==
  /\ w.scene = v.scene /\ w.revision = v.revision /\ w.dirty = v.dirty /\ w.failed = v.failed
  /\ Len(w.chain) >= Len(v.chain)
  /\ \A i \in 1 .. Len(v.chain) : w.chain[i] = v.chain[i]

LEMMA ChainTypes ==
  ASSUME NEW c \in Seq(Checkpoint)
  PROVE  /\ Len(c) \in Nat
         /\ \A i \in 1 .. Len(c) : c[i].scene \in Nat /\ c[i].revision \in Nat
<1>1. \A i \in 1 .. Len(c) : c[i] \in Checkpoint
  OBVIOUS
<1> QED BY <1>1 DEF Checkpoint

LEMMA WriteSaved ==
  ASSUME NEW v, NEW d, Saved(v, d), NEW s \in {Empty, v.revision},
         v.scene # Empty => s = v.scene
  PROVE  LET w == Write(v, s) IN
           /\ Saved(w, d) /\ Extends(v, w)
           /\ Len(w.chain) > 0 /\ w.chain[Len(w.chain)].revision = v.revision
<1> DEFINE e == [scene |-> s, revision |-> v.revision]
           c == Append(v.chain, e)
           w == [v EXCEPT !.timer = FALSE, !.chain = c]
           n == Len(v.chain)
<1>1. Write(v, s) = w
  BY DEF Write, Saved, Save
<1>2. v \in Save /\ v.revision \in Nat /\ v.chain \in Seq(Checkpoint) /\ d \in Nat
  BY DEF Saved, Save
<1>3. e \in Checkpoint /\ e.scene = s /\ e.revision = v.revision
  BY <1>2 DEF Checkpoint, Empty
<1> HIDE DEF e
<1>4. /\ c \in Seq(Checkpoint) /\ Len(c) = n + 1 /\ n \in Nat /\ c[n + 1] = e
      /\ \A i \in 1 .. n : c[i] = v.chain[i]
  BY <1>2, <1>3
<1> HIDE DEF c
<1>5. /\ w \in Save /\ w.chain = c /\ w.scene = v.scene /\ w.revision = v.revision
      /\ w.dirty = v.dirty /\ w.failed = v.failed
  BY <1>2, <1>4 DEF Save
<1> HIDE DEF w
<1>6. Extends(v, w)
  BY <1>4, <1>5 DEF Extends
<1>7. \A i \in 1 .. n + 1 : (i \in 1 .. n /\ c[i] = v.chain[i]) \/ (i = n + 1 /\ c[i] = e)
  BY <1>4
<1>8. \A i \in 1 .. n : v.chain[i].revision \in Nat
  BY <1>2, ChainTypes
<1>9. Ordered(w, d)
  <2>1. ASSUME NEW i \in 1 .. n + 1
        PROVE  /\ c[i].scene \in {Empty, c[i].revision} /\ c[i].revision <= v.revision
               /\ d <= c[i].revision /\ (~v.dirty => c[i].revision = v.revision)
               /\ v.scene # Empty /\ c[i].revision = v.revision => c[i].scene = v.scene
    <3>1. CASE i \in 1 .. n /\ c[i] = v.chain[i]
      BY <3>1 DEF Saved, Ordered
    <3>2. CASE c[i] = e
      BY <1>2, <1>3, <3>2 DEF Saved
    <3> QED BY <1>7, <3>1, <3>2
  <2>2. ASSUME NEW i \in 1 .. n + 1, NEW j \in 1 .. n + 1, i < j
        PROVE  c[i].revision <= c[j].revision
    <3>1. i \in 1 .. n /\ c[i] = v.chain[i]
      BY <1>4, <1>7, <2>2
    <3>2. CASE j \in 1 .. n /\ c[j] = v.chain[j]
      BY <2>2, <3>1, <3>2 DEF Saved, Ordered
    <3>3. CASE c[j] = e
      BY <1>3, <3>1, <3>3 DEF Saved, Ordered
    <3> QED BY <1>7, <3>2, <3>3
  <2> QED BY <1>4, <1>5, <2>1, <2>2 DEF Ordered
<1>10. Covered(w)
  BY <1>3, <1>4, <1>5 DEF Covered
<1>11. Saved(w, d)
  BY <1>5, <1>9, <1>10 DEF Saved
<1> QED BY <1>1, <1>3, <1>4, <1>5, <1>6, <1>11

\* A clean scene or one whose last write is pending gets no other checkpoint.
LEMMA CheckpointSaved ==
  ASSUME NEW v, NEW d, Saved(v, d)
  PROVE  LET w == CheckpointScene(v) IN
           /\ Saved(w, d) /\ Extends(v, w)
           /\ v.dirty => Len(w.chain) > 0 /\ w.chain[Len(w.chain)].revision = v.revision
<1>1. v.chain \in Seq(Checkpoint) /\ v \in Save /\ Len(v.chain) \in Nat
  BY DEF Saved, Save
<1> DEFINE skips == ~v.dirty \/ (v.chain # <<>> /\ Last(v.chain).revision = v.revision)
           w == [v EXCEPT !.timer = FALSE]
<1>2. CASE skips
  <2>1. CheckpointScene(v) = w
    BY <1>2 DEF CheckpointScene
  <2>2. /\ w \in Save /\ w.chain = v.chain /\ w.scene = v.scene /\ w.revision = v.revision
        /\ w.dirty = v.dirty /\ w.failed = v.failed
    BY <1>1 DEF Save
  <2> HIDE DEF w
  <2>3. v.dirty => Len(v.chain) > 0 /\ v.chain[Len(v.chain)].revision = v.revision
    BY <1>1, <1>2 DEF Last
  <2>4. Extends(v, w)
    BY <1>1, <2>2 DEF Extends
  <2>5. Ordered(w, d)
    BY <2>2 DEF Saved, Ordered
  <2>6. Covered(w)
    BY <1>1, <2>2, <2>3 DEF Covered
  <2> QED BY <2>1, <2>2, <2>3, <2>4, <2>5, <2>6 DEF Saved
<1>3. CASE ~skips
  <2>1. CheckpointScene(v) = Write(v, v.scene)
    BY <1>3 DEF CheckpointScene
  <2>2. v.scene \in {Empty, v.revision}
    BY DEF Saved
  <2> DEFINE w3 == Write(v, v.scene)
  <2>3. Saved(w3, d) /\ Extends(v, w3) /\ Len(w3.chain) > 0 /\ w3.chain[Len(w3.chain)].revision = v.revision
    BY <2>2, WriteSaved
  <2> HIDE DEF w3
  <2> QED BY <2>1, <2>3 DEF w3
<1> QED BY <1>2, <1>3

LEMMA MarkSaved ==
  ASSUME NEW v, NEW d, Saved(v, d)
  PROVE  /\ Saved(MarkSceneDirty(v), d)
         /\ \A r : Captured(r, v) => Captured(r, MarkSceneDirty(v))
<1> DEFINE w == MarkSceneDirty(v)
<1>1. /\ v \in Save /\ v.revision \in Nat /\ v.chain \in Seq(Checkpoint)
      /\ Len(v.chain) \in Nat /\ d \in Nat
  BY DEF Saved, Save
<1>2. /\ w \in Save /\ w.chain = v.chain /\ w.scene = v.revision + 1
      /\ w.revision = v.revision + 1 /\ w.dirty /\ w.timer
  <2> DEFINE r == v.revision + 1
             u == [v EXCEPT !.scene = r, !.revision = r, !.dirty = TRUE, !.timer = TRUE,
                      !.failed = FALSE]
  <2>1. r \in Nat /\ w = u
    BY <1>1 DEF MarkSceneDirty
  <2> HIDE DEF r, w
  <2>2. /\ u \in Save /\ u.chain = v.chain /\ u.scene = r /\ u.revision = r
        /\ u.dirty /\ u.timer
    BY <1>1, <2>1 DEF Save
  <2> QED BY <2>1, <2>2 DEF r
<1> HIDE DEF w
<1>3. \A i \in 1 .. Len(v.chain) : v.chain[i].revision \in Nat
  BY <1>1, ChainTypes
<1>4. Ordered(w, d)
  BY <1>1, <1>2, <1>3 DEF Saved, Ordered
<1>5. Covered(w)
  BY <1>2 DEF Covered
<1>6. d <= w.revision
  BY <1>1, <1>2 DEF Saved
<1>7. \A r : Captured(r, v) => Captured(r, w)
  BY <1>1, <1>2 DEF Captured
<1>8. Saved(w, d)
  BY <1>1, <1>2, <1>4, <1>5, <1>6 DEF Saved
<1> QED BY <1>7, <1>8 DEF w

\* A reset empties the scene, whose revision and checkpoints stay.
LEMMA EmptiedSaved ==
  ASSUME NEW v, NEW d, Saved(v, d)
  PROVE  LET w == [v EXCEPT !.scene = Empty] IN Saved(w, d) /\ w.dirty = v.dirty
           /\ w.scene = Empty
           /\ w.chain = v.chain /\ w.revision = v.revision /\ w.failed = v.failed
<1> DEFINE w == [v EXCEPT !.scene = Empty]
<1>1. v \in Save
  BY DEF Saved
<1>2. /\ w \in Save /\ w.chain = v.chain /\ w.scene = Empty /\ w.revision = v.revision
      /\ w.dirty = v.dirty /\ w.timer = v.timer /\ w.failed = v.failed
  BY <1>1 DEF Save, Empty
<1> HIDE DEF w
<1>3. Ordered(w, d) /\ Covered(w)
  BY <1>2 DEF Saved, Ordered, Covered
<1>4. Saved(w, d)
  BY <1>2, <1>3 DEF Saved
<1> QED BY <1>2, <1>4 DEF w

LEMMA RenderSaved ==
  ASSUME NEW v, NEW d, Saved(v, d), NEW r, Captured(r, v), r # NoRender
  PROVE  Saved(CheckpointRenderedScene(v, r), d) /\ Extends(v, CheckpointRenderedScene(v, r))
<1>1. /\ r.revision = v.revision => /\ r.scene \in {Empty, v.revision}
                                    /\ v.scene # Empty => r.scene = v.scene
      /\ v.scene \in {Empty, v.revision}
  BY DEF Captured, Saved
<1>2. CASE r.revision = v.revision
  <2> DEFINE s == r.scene
  <2>1. s \in {Empty, v.revision} /\ (v.scene # Empty => s = v.scene)
    BY <1>1, <1>2
  <2>2. CheckpointRenderedScene(v, r) = Write(v, s)
    BY <1>2 DEF CheckpointRenderedScene
  <2> HIDE DEF s
  <2>3. Saved(Write(v, s), d) /\ Extends(v, Write(v, s))
    BY <2>1, WriteSaved
  <2> QED BY <2>2, <2>3
<1>3. CASE r.revision # v.revision
  BY <1>3, CheckpointSaved DEF CheckpointRenderedScene
<1> QED BY <1>2, <1>3

\* What a render captured stays so while the revision does, also of a scene that is emptied.
LEMMA CapturedKept ==
  ASSUME NEW v, NEW w, NEW r, Captured(r, v), w.revision = v.revision, w.scene \in {v.scene, Empty}
  PROVE  Captured(r, w)
BY DEF Captured

\* A disconnect waits for the same writes, whatever else is written behind them.
LEMMA DueExtends ==
  ASSUME NEW o, NEW v, NEW w, Due(o, v), Extends(v, w), v.chain \in Seq(Checkpoint),
         w.chain \in Seq(Checkpoint)
  PROVE  Due(o, w)
<1>1. Len(v.chain) \in Nat /\ Len(w.chain) \in Nat /\ Len(w.chain) >= Len(v.chain)
  BY DEF Extends
<1> SUFFICES ASSUME o.step = "saving" PROVE Due(o, w)
  BY DEF Due
<1>2. o.left \in 0 .. Len(w.chain)
  BY <1>1 DEF Due
<1>3. \A i \in 1 .. o.left : w.chain[i] = v.chain[i]
  BY <1>1 DEF Due, Extends
<1> QED BY <1>2, <1>3 DEF Due, Extends
LEMMA TailFacts ==
  ASSUME NEW c \in Seq(Checkpoint), c # <<>>
  PROVE  /\ Tail(c) \in Seq(Checkpoint) /\ Len(c) \in Nat /\ Len(c) > 0 /\ Len(Tail(c)) = Len(c) - 1
         /\ \A i \in 1 .. Len(c) - 1 : i + 1 \in 1 .. Len(c) /\ Tail(c)[i] = c[i + 1]
         /\ Head(c) = c[1] /\ 1 \in 1 .. Len(c)
OBVIOUS

\* A write that ended, one way or the other, leaves the chain.
LEMMA TailOrdered ==
  ASSUME NEW v, NEW d, Saved(v, d), v.chain # <<>>, NEW w, w.chain = Tail(v.chain),
         w.scene = v.scene, w.revision = v.revision, NEW e, e \in {d, v.chain[1].scene},
         ~w.dirty => ~v.dirty \/ v.chain[1].revision = v.revision
  PROVE  Ordered(w, e) /\ e \in Nat /\ e <= v.revision
<1> DEFINE n == Len(v.chain)
<1>1. /\ v.chain \in Seq(Checkpoint) /\ v.revision \in Nat /\ d \in Nat
  BY DEF Saved, Save
<1>2. /\ n \in Nat /\ n > 0 /\ Len(w.chain) = n - 1 /\ 1 \in 1 .. n
      /\ \A i \in 1 .. n - 1 : i + 1 \in 1 .. n /\ w.chain[i] = v.chain[i + 1]
  BY <1>1, TailFacts
<1>3. \A i \in 1 .. n : v.chain[i].scene \in Nat /\ v.chain[i].revision \in Nat
  BY <1>1, ChainTypes
<1>4. \A i \in 1 .. n : v.chain[1].revision <= v.chain[i].revision
  BY <1>2, <1>3 DEF Saved, Ordered
<1>5. \A i \in 1 .. n : e <= v.chain[i].revision
  <2>1. v.chain[1].scene <= v.chain[1].revision
    BY <1>2, <1>3 DEF Saved, Ordered, Empty
  <2> QED BY <1>1, <1>2, <1>3, <1>4, <2>1 DEF Saved, Ordered
<1>6. e \in Nat /\ e <= v.revision
  <2>1. v.chain[1].revision <= v.revision
    BY <1>2 DEF Saved, Ordered
  <2> QED BY <1>1, <1>2, <1>3, <1>5, <2>1
<1>7. ASSUME NEW i \in 1 .. n - 1
      PROVE  /\ w.chain[i].scene \in {Empty, w.chain[i].revision}
             /\ w.chain[i].revision <= w.revision
             /\ e <= w.chain[i].revision /\ (~w.dirty => w.chain[i].revision = w.revision)
             /\ w.scene # Empty /\ w.chain[i].revision = w.revision => w.chain[i].scene = w.scene
  <2>1. ~w.dirty => v.chain[i + 1].revision = v.revision
    <3>1. /\ v.chain[1].revision <= v.chain[i + 1].revision
          /\ v.chain[i + 1].revision <= v.revision /\ i + 1 \in 1 .. n
          /\ ~v.dirty => v.chain[i + 1].revision = v.revision
      BY <1>2, <1>4 DEF Saved, Ordered
    <3> QED BY <1>1, <1>3, <3>1
  <2> QED BY <1>2, <1>5, <2>1 DEF Saved, Ordered
<1>8. ASSUME NEW i \in 1 .. n - 1, NEW j \in 1 .. n - 1, i < j
      PROVE  w.chain[i].revision <= w.chain[j].revision
  <2>1. i + 1 < j + 1
    BY <1>8
  <2> QED BY <1>2, <2>1 DEF Saved, Ordered
<1> QED BY <1>2, <1>6, <1>7, <1>8 DEF Ordered

\* The write of index i is the one of index i - 1 once the first ended.
LEMMA TailCovers ==
  ASSUME NEW c \in Seq(Checkpoint), c # <<>>, NEW r, c[1].revision # r,
         NEW k \in 0 .. Len(c), \E i \in 1 .. k : c[i].revision = r
  PROVE  k > 0 /\ \E i \in 1 .. k - 1 : Tail(c)[i].revision = r
<1>1. PICK i \in 1 .. k : c[i].revision = r
  OBVIOUS
<1>2. i # 1 /\ i - 1 \in 1 .. k - 1 /\ i - 1 \in 1 .. Len(c) - 1
  BY <1>1, TailFacts
<1>3. Tail(c)[i - 1] = c[(i - 1) + 1] /\ (i - 1) + 1 = i /\ k > 0
  BY <1>2, TailFacts
<1>4. Tail(c)[i - 1].revision = r
  BY <1>1, <1>3
<1> QED BY <1>2, <1>3, <1>4

LEMMA DoneSaved ==
  ASSUME NEW v, NEW d, Saved(v, d), v.chain # <<>>, NEW o \in Op, Due(o, v), NEW clean \in BOOLEAN,
         clean <=> v.chain[1].revision = v.revision
  PROVE  LET w == [v EXCEPT !.chain = Tail(@), !.dirty = @ /\ ~clean] IN
           /\ Saved(w, v.chain[1].scene) /\ Due(OneLess(o), w)
           /\ w.failed = v.failed /\ w.revision = v.revision /\ w.scene = v.scene
           /\ w.dirty => v.dirty
<1> DEFINE k == v.dirty /\ ~clean
           w == [v EXCEPT !.chain = Tail(@), !.dirty = k]
           e == v.chain[1].scene
<1>1. /\ v \in Save /\ v.chain \in Seq(Checkpoint) /\ v.revision \in Nat /\ d \in Nat
  BY DEF Saved, Save
<1>2. k \in BOOLEAN /\ (k => v.dirty /\ ~clean) /\ (~k => ~v.dirty \/ clean)
  BY <1>1 DEF Save
<1>3. [v EXCEPT !.chain = Tail(@), !.dirty = @ /\ ~clean] = w
  OBVIOUS
<1> HIDE DEF k
<1>4. /\ w \in Save /\ w.chain = Tail(v.chain) /\ w.scene = v.scene /\ w.revision = v.revision
      /\ w.dirty = k /\ w.timer = v.timer /\ w.failed = v.failed
  BY <1>1, <1>2, TailFacts DEF Save
<1> HIDE DEF w
<1>5. Ordered(w, e) /\ e \in Nat /\ e <= v.revision
  BY <1>2, <1>4, TailOrdered
<1>6. /\ Len(v.chain) \in Nat /\ Len(v.chain) > 0 /\ Len(w.chain) = Len(v.chain) - 1
      /\ 1 \in 1 .. Len(v.chain) /\ v.chain[1].revision \in Nat
  BY <1>1, <1>4, TailFacts, ChainTypes
<1>7. ~w.dirty => e = w.revision \/ (w.scene = Empty /\ e = Empty)
  <2> SUFFICES ASSUME ~w.dirty PROVE e = v.revision \/ (v.scene = Empty /\ e = Empty)
    BY <1>4
  <2>1. v.chain[1].revision = v.revision
    BY <1>2, <1>4, <1>6 DEF Saved, Ordered
  <2> QED BY <1>6, <2>1 DEF Saved, Ordered
<1>8. Covered(w)
  <2> SUFFICES ASSUME w.dirty
               PROVE  \/ w.timer \/ w.failed
                      \/ \E i \in 1 .. Len(w.chain) : w.chain[i].revision = w.revision
    BY DEF Covered
  <2>1. v.dirty /\ v.chain[1].revision # v.revision
    BY <1>2, <1>4
  <2>2. CASE \E i \in 1 .. Len(v.chain) : v.chain[i].revision = v.revision
    <3> DEFINE k1 == Len(v.chain)
    <3>1. k1 \in 0 .. Len(v.chain) /\ \E i \in 1 .. k1 : v.chain[i].revision = v.revision
      BY <1>6, <2>2
    <3> HIDE DEF k1
    <3>2. \E i \in 1 .. k1 - 1 : Tail(v.chain)[i].revision = v.revision
      BY <1>1, <2>1, <3>1, TailCovers
    <3> QED BY <1>4, <1>6, <3>2 DEF k1
  <2> QED BY <1>4, <2>1, <2>2 DEF Saved, Covered
<1>9. Due(OneLess(o), w)
  <2> SUFFICES ASSUME o.step = "saving" PROVE Due(OneLess(o), w)
    BY DEF Due, OneLess
  <2> DEFINE p == OneLess(o)
  <2>1. o.left \in 0 .. Len(v.chain)
    BY DEF Due
  <2>2. p.left = IF o.left > 0 THEN o.left - 1 ELSE o.left
    BY DEF OneLess, Op
  <2> HIDE DEF p
  <2>3. p.left \in 0 .. Len(w.chain)
    BY <1>6, <2>1, <2>2
  <2>4. ASSUME w.dirty
        PROVE  w.failed \/ \E i \in 1 .. p.left : w.chain[i].revision = w.revision
    <3>1. v.dirty /\ v.chain[1].revision # v.revision
      BY <1>2, <1>4, <2>4
    <3>2. CASE \E i \in 1 .. o.left : v.chain[i].revision = v.revision
      <4>1. o.left > 0 /\ \E i \in 1 .. o.left - 1 : Tail(v.chain)[i].revision = v.revision
        BY <1>1, <2>1, <3>1, <3>2, TailCovers
      <4> QED BY <1>4, <2>2, <4>1
    <3> QED BY <1>4, <3>1, <3>2 DEF Due
  <2> QED BY <2>3, <2>4 DEF Due, p
<1>10. Saved(w, e)
  BY <1>4, <1>5, <1>7, <1>8 DEF Saved
<1> QED BY <1>2, <1>3, <1>4, <1>9, <1>10

LEMMA FailedSaved ==
  ASSUME NEW v, NEW d, Saved(v, d), v.chain # <<>>, NEW o \in Op, Due(o, v), NEW f \in BOOLEAN
  PROVE  LET w == [v EXCEPT !.chain = Tail(@), !.failed = @ \/ v.chain[1].revision = v.revision] IN
           /\ Saved(w, d) /\ Due([OneLess(o) EXCEPT !.failed = f], w)
           /\ w.revision = v.revision /\ w.scene = v.scene /\ w.dirty = v.dirty
           /\ v.failed => w.failed
<1> DEFINE r == v.chain[1].revision
           b == v.failed \/ r = v.revision
           w == [v EXCEPT !.chain = Tail(@), !.failed = b]
<1>1. /\ v \in Save /\ v.chain \in Seq(Checkpoint) /\ v.revision \in Nat /\ d \in Nat
  BY DEF Saved, Save
<1>2. /\ Len(v.chain) \in Nat /\ Len(v.chain) > 0 /\ Len(Tail(v.chain)) = Len(v.chain) - 1
      /\ 1 \in 1 .. Len(v.chain) /\ r \in Nat
  BY <1>1, TailFacts, ChainTypes
<1>0. b \in BOOLEAN /\ (b <=> v.failed \/ r = v.revision)
  BY <1>1 DEF Save
<1>9. [v EXCEPT !.chain = Tail(@), !.failed = @ \/ v.chain[1].revision = v.revision] = w
  OBVIOUS
<1> HIDE DEF r, b
<1>3. /\ w \in Save /\ w.chain = Tail(v.chain) /\ w.scene = v.scene /\ w.revision = v.revision
      /\ w.dirty = v.dirty /\ w.timer = v.timer /\ w.failed = b
  <2> DEFINE t == Tail(v.chain)
             u == [v EXCEPT !.chain = t, !.failed = b]
  <2>1. t \in Seq(Checkpoint)
    BY <1>1, TailFacts
  <2> HIDE DEF t
  <2>2. /\ u \in Save /\ u.chain = t /\ u.scene = v.scene /\ u.revision = v.revision
        /\ u.dirty = v.dirty /\ u.timer = v.timer /\ u.failed = b
    BY <1>0, <1>1, <2>1 DEF Save
  <2> QED BY <2>2 DEF t
<1> HIDE DEF w
<1>4. Ordered(w, d)
  BY <1>3, TailOrdered
<1>5. (v.failed => w.failed) /\ (r = v.revision => w.failed)
  BY <1>0, <1>3
<1>6. Covered(w)
  <2>1. CASE r # v.revision /\ \E i \in 1 .. Len(v.chain) : v.chain[i].revision = v.revision
    BY <1>1, <1>2, <1>3, <2>1, TailCovers DEF r, Covered
  <2> QED BY <1>3, <1>5, <2>1 DEF Saved, Covered
<1>7. Due([OneLess(o) EXCEPT !.failed = f], w)
  <2> DEFINE p == [OneLess(o) EXCEPT !.failed = f]
  <2>1. p.step = o.step /\ p.left = IF o.step = "saving" /\ o.left > 0 THEN o.left - 1 ELSE o.left
    BY DEF OneLess, Op
  <2> HIDE DEF p
  <2> SUFFICES ASSUME o.step = "saving" PROVE Due(p, w)
    BY <2>1 DEF Due, p
  <2>2. o.left \in 0 .. Len(v.chain)
    BY DEF Due
  <2>3. p.left \in 0 .. Len(w.chain)
    BY <1>2, <1>3, <2>1, <2>2
  <2>4. ASSUME w.dirty, ~w.failed
        PROVE  \E i \in 1 .. p.left : w.chain[i].revision = w.revision
    <3>1. r # v.revision /\ \E i \in 1 .. o.left : v.chain[i].revision = v.revision
      BY <1>3, <1>5, <2>4 DEF Due
    <3>2. o.left > 0 /\ \E i \in 1 .. o.left - 1 : Tail(v.chain)[i].revision = v.revision
      BY <1>1, <2>2, <2>4, <3>1, TailCovers DEF r
    <3> QED BY <1>3, <2>1, <3>2
  <2> QED BY <1>3, <2>3, <2>4 DEF Due
<1>8. Saved(w, d)
  BY <1>3, <1>4, <1>6 DEF Saved
<1> QED BY <1>3, <1>5, <1>7, <1>8, <1>9 DEF w
-----------------------------------------------------------------------------
(* Operations on the host.                                                 *)

LEMMA StopRecordingFacts ==
  ASSUME NEW h \in Host
  PROVE  LET g == StopRecording(h) IN
           /\ g \in Host /\ ~g.recording /\ g.link = h.link /\ g.busy = h.busy
           /\ g.latest = h.latest /\ g.phase = h.phase
<1>1. CASE h.recording
  <2> DEFINE n == h.writes + 1
             x == [h EXCEPT !.recording = FALSE, !.writes = n]
  <2>1. n \in Nat /\ StopRecording(h) = x
    BY <1>1 DEF StopRecording, Host
  <2> HIDE DEF n
  <2> QED BY <2>1 DEF Host
<1>2. CASE ~h.recording
  BY <1>2 DEF StopRecording, Host
<1> QED BY <1>1, <1>2

LEMMA ClientDisconnectFacts ==
  ASSUME NEW h \in Host
  PROVE  LET g == ClientDisconnect(h) IN
           /\ g \in Host /\ g.link = "none" /\ g.busy = "no" /\ ~g.recording
           /\ g.latest = h.latest /\ g.phase = h.phase
<1> DEFINE g == [h EXCEPT !.link = "none", !.by = None, !.busy = "no"]
<1>1. /\ g \in Host /\ g.link = "none" /\ g.busy = "no" /\ g.latest = h.latest
      /\ g.phase = h.phase
  BY DEF Host
<1>2. ClientDisconnect(h) = StopRecording(g)
  BY DEF ClientDisconnect
<1> HIDE DEF g
<1> QED BY <1>1, <1>2, StopRecordingFacts

LEMMA CallsType ==
  ASSUME NEW calls \in [Attempts -> Calls]
  PROVE  /\ CancelCandidate(calls) \in [Attempts -> Calls]
         /\ \A a, s : s \in Calls => [calls EXCEPT ![a] = s] \in [Attempts -> Calls]
BY DEF CancelCandidate, Calls

\* A run that settles may add a checkpoint.
LEMMA SettlesSaved ==
  ASSUME IInv
  PROVE  /\ Saved(RunSettles, disk) /\ Due(op, RunSettles)
         /\ RunSettles.dirty = save.dirty /\ RunSettles.failed = save.failed
         /\ RunSettles.revision = save.revision /\ RunSettles.scene = save.scene
         /\ Captured(render, RunSettles)
<1>1. Saved(save, disk) /\ Due(op, save)
  BY DEF IInv
<1> DEFINE u == RunSettles
<1>2. u = save \/ u = CheckpointScene(save)
  BY DEF RunSettles
<1> HIDE DEF u
<1>3. ASSUME u = CheckpointScene(save)
      PROVE  Saved(u, disk) /\ Due(op, u) /\ Extends(save, u)
  <2>1. Saved(u, disk) /\ Extends(save, u)
    BY <1>1, <1>3, CheckpointSaved
  <2>2. save.chain \in Seq(Checkpoint) /\ u.chain \in Seq(Checkpoint)
    BY <1>1, <2>1 DEF Saved, Save
  <2> QED BY <1>1, <2>1, <2>2, DueExtends
<1>5. /\ Saved(u, disk) /\ Due(op, u)
      /\ u.dirty = save.dirty /\ u.failed = save.failed
      /\ u.revision = save.revision /\ u.scene = save.scene
  BY <1>1, <1>2, <1>3 DEF Extends
<1>6. Captured(render, u)
  BY <1>5, CapturedKept DEF IInv
<1> QED BY <1>5, <1>6 DEF u

\* A disconnect that starts: the connection goes at once unless an action is in flight.
LEMMA DisconnectStarts ==
  ASSUME NEW h \in Host, NEW calls \in [Attempts -> Calls], StartDisconnect(h, calls),
         h.busy # "no" => h.link = "open", h.recording => h.link = "open"
  PROVE  /\ host' \in Host /\ call' \in [Attempts -> Calls] /\ op' \in Op
         /\ Hosting(host', op') /\ op'.step \in {"settling", "draining"}
<1> DEFINE v == Shutting(h)
<1>1. /\ v \in Host /\ v.latest = None /\ v.link = h.link /\ v.busy = h.busy
      /\ v.recording = h.recording
  BY DEF Shutting, Host
<1> HIDE DEF v
<1>2. CASE h.busy # "no"
  <2>1. op' = [NoOp EXCEPT !.step = "settling"] /\ host' = v /\ call' = calls
    BY <1>2 DEF StartDisconnect, v
  <2>2. op' \in Op /\ op'.step = "settling"
    BY <2>1 DEF NoOp, Op
  <2> QED BY <1>1, <1>2, <2>1, <2>2 DEF Hosting
<1>3. CASE h.busy = "no"
  <2>1. /\ op' = [NoOp EXCEPT !.step = "draining"] /\ host' = ClientDisconnect(v)
        /\ call' = CancelCandidate(calls)
    BY <1>3 DEF StartDisconnect, v
  <2>2. op' \in Op /\ op'.step = "draining"
    BY <2>1 DEF NoOp, Op
  <2>3. host' \in Host /\ Quiet(host')
    BY <1>1, <2>1, ClientDisconnectFacts DEF Quiet
  <2> QED BY <2>1, <2>2, <2>3, CallsType DEF Hosting, Quiet
<1> QED BY <1>2, <1>3

-----------------------------------------------------------------------------
(* The actions.                                                            *)

\* What an action leaves alone.
LEMMA SceneStep ==
  ASSUME IInv, NEW w, save' = w, Saved(w, disk), Extends(save, w),
         UNCHANGED <<host, call, op, stopping, disk>>, Captured(render', save)
  PROVE  IInv'
<1>1. save.chain \in Seq(Checkpoint) /\ w.chain \in Seq(Checkpoint)
  BY DEF IInv, Saved, Save
<1>2. Due(op, w)
  BY <1>1, DueExtends DEF IInv
<1>3. Ending(stopping, host, op, w)
  BY DEF IInv, Ending, Extends
<1>4. Captured(render', w)
  BY CapturedKept DEF Extends
<1> QED BY <1>2, <1>3, <1>4 DEF IInv

LEMMA TimerStep ==
  ASSUME IInv, TimerFires
  PROVE  IInv'
BY SceneStep, CheckpointSaved DEF TimerFires, IInv

LEMMA RenderSteps ==
  ASSUME IInv, RenderStarts \/ RenderEnds
  PROVE  IInv'
<1>1. Saved(save, disk) /\ Captured(render, save) /\ save.revision \in Nat /\ Len(save.chain) \in Nat
  BY DEF IInv, Saved, Save
<1>2. Extends(save, save)
  BY <1>1 DEF Extends
<1>3. CASE RenderStarts
  <2>1. Captured(render', save)
    BY <1>1, <1>3 DEF RenderStarts, Captured, Saved
  <2> QED BY <1>1, <1>2, <1>3, <2>1, SceneStep DEF RenderStarts
<1>4. CASE RenderEnds
  <2>1. Captured(render', save)
    BY <1>4 DEF RenderEnds, Captured
  <2>2. /\ Saved(CheckpointRenderedScene(save, render), disk)
        /\ Extends(save, CheckpointRenderedScene(save, render))
    BY <1>1, <1>4, RenderSaved DEF RenderEnds
  <2> QED BY <1>1, <1>2, <1>4, <2>1, <2>2, SceneStep DEF RenderEnds
<1> QED BY <1>3, <1>4

LEMMA WriteSteps ==
  ASSUME IInv, WriteEnds
  PROVE  IInv'
<1>1. /\ Saved(save, disk) /\ Due(op, save) /\ op \in Op
      /\ Hosting(host, op) /\ Ending(stopping, host, op, save)
  BY DEF IInv
<1>2. save.chain # <<>> /\ save.chain \in Seq(Checkpoint)
  BY <1>1 DEF WriteEnds, WriteDone, WriteFails, Saved, Save
<1>3. Head(save.chain) = save.chain[1]
  BY <1>2, TailFacts
<1>4. OneLess(op) \in Op /\ OneLess(op).step = op.step
  <2> DEFINE n == op.left - 1
  <2>1. op.left > 0 => n \in Nat
    BY <1>1 DEF Op
  <2>2. OneLess(op) = IF op.step = "saving" /\ op.left > 0 THEN [op EXCEPT !.left = n] ELSE op
    BY DEF OneLess
  <2> HIDE DEF n
  <2> QED BY <1>1, <2>1, <2>2 DEF Op
<1>5. CASE WriteDone
  <2> DEFINE clean == Cleans(Head(save.chain))
             w == [save EXCEPT !.chain = Tail(@), !.dirty = @ /\ ~clean]
  <2>1. /\ disk' = save.chain[1].scene /\ save' = w /\ op' = OneLess(op)
        /\ UNCHANGED <<host, call, stopping, render>>
    BY <1>3, <1>5 DEF WriteDone
  <2>2. clean \in BOOLEAN /\ (clean <=> save.chain[1].revision = save.revision)
    BY <1>3 DEF Cleans
  <2> HIDE DEF clean
  <2>3. /\ Saved(w, save.chain[1].scene) /\ Due(OneLess(op), w)
        /\ w.failed = save.failed /\ w.revision = save.revision /\ w.scene = save.scene
        /\ w.dirty => save.dirty
    BY <1>1, <1>2, <2>2, DoneSaved
  <2> HIDE DEF w
  <2>4. Hosting(host, op') /\ Ending(stopping, host, op', w)
    BY <1>1, <1>4, <2>1, <2>3 DEF Hosting, Ending
  <2>5. Captured(render, w)
    BY <2>3, CapturedKept DEF IInv
  <2> QED BY <1>4, <2>1, <2>3, <2>4, <2>5 DEF IInv
<1>6. CASE WriteFails
  <2> DEFINE f == op.failed \/ (op.step = "saving" /\ op.left = 1 /\ op.joined)
             w == [save EXCEPT !.chain = Tail(@), !.failed = @ \/ save.chain[1].revision = save.revision]
             p == [OneLess(op) EXCEPT !.failed = f]
  <2>1. save' = w /\ UNCHANGED <<host, call, stopping, disk, render>>
    BY <1>3, <1>6 DEF WriteFails
  <2>2. f \in BOOLEAN /\ op' = p
    <3>1. OneLess(op).failed = op.failed
      BY <1>1 DEF OneLess, Op
    <3>2. op' = [OneLess(op) EXCEPT !.failed = OneLess(op).failed
                                      \/ (op.step = "saving" /\ op.left = 1 /\ op.joined)]
      BY <1>6 DEF WriteFails
    <3> QED BY <1>1, <3>1, <3>2 DEF Op
  <2> HIDE DEF f
  <2>3. p \in Op /\ p.step = op.step
    BY <1>4, <2>2 DEF Op
  <2>4. /\ Saved(w, disk) /\ Due(p, w) /\ w.revision = save.revision /\ w.dirty = save.dirty
        /\ w.scene = save.scene
        /\ save.failed => w.failed
    BY <1>1, <1>2, <2>2, FailedSaved
  <2> HIDE DEF w, p
  <2>5. Hosting(host, p) /\ Ending(stopping, host, p, w)
    BY <1>1, <2>3, <2>4 DEF Hosting, Ending
  <2>6. Captured(render, w)
    BY <2>4, CapturedKept DEF IInv
  <2> QED BY <2>1, <2>2, <2>3, <2>4, <2>5, <2>6 DEF IInv
<1> QED BY <1>5, <1>6 DEF WriteEnds
\* Whoever finds a connection, an attempt, an action or a recording comes before the
\* disconnect that ends them.
LEMMA LiveStep ==
  ASSUME IInv, ~Quiet(host), host' \in Host, call' \in [Attempts -> Calls],
         Saved(save', disk), Captured(render, save'), UNCHANGED <<op, stopping, disk, render>>,
         host'.busy # "no" => host'.link = "open", host'.recording => host'.link = "open",
         op.step = "settling" => host'.latest = None
  PROVE  IInv'
<1>1. op.step \in {"none", "settling"} /\ (stopping # "no" => op.step = "settling")
  BY DEF IInv, Hosting, Op, Ending
<1>2. Due(op, save') /\ Hosting(host', op) /\ Ending(stopping, host', op, save')
  BY <1>1 DEF IInv, Due, Hosting, Ending
<1> QED BY <1>2 DEF IInv

LEMMA HostTypes ==
  ASSUME IInv
  PROVE  /\ host \in Host /\ call \in [Attempts -> Calls] /\ op \in Op
         /\ host.busy # "no" => host.link = "open"
         /\ host.recording => host.link = "open"
         /\ op.step = "settling" => host.latest = None
         /\ Saved(save, disk) /\ Captured(render, save)
BY DEF IInv, Hosting

LEMMA CallStep ==
  ASSUME IInv, call' \in [Attempts -> Calls],
         UNCHANGED <<host, op, stopping, save, disk, render>>
  PROVE  IInv'
BY DEF IInv

LEMMA AttemptStep ==
  ASSUME IInv, NEW a \in Attempts, Attempt(a)
  PROVE  IInv'
<1>0. a # None
  BY RuntimeAssumption
<1>1. CASE StatusWritten(a)
  <2> DEFINE h == ClientDisconnect(host)
             w == [RunSettles EXCEPT !.scene = Empty]
             g == [h EXCEPT !.link = "handshake", !.by = a]
  <2>1. /\ host' = g /\ save' = w /\ host.latest = a
        /\ call' = [CancelCandidate(call) EXCEPT ![a] = "handshake"]
        /\ UNCHANGED <<op, stopping, disk, render>>
    BY <1>1 DEF StatusWritten, IsCurrent
  <2>2. h \in Host /\ h.latest = host.latest /\ ~h.recording /\ h.busy = "no"
    BY HostTypes, ClientDisconnectFacts
  <2>3. Saved(w, disk)
    BY SettlesSaved, EmptiedSaved
  <2>7. w.scene = Empty /\ w.revision = RunSettles.revision
    BY SettlesSaved, EmptiedSaved
  <2>8. Captured(render, w)
    BY <2>7, SettlesSaved, CapturedKept
  <2> HIDE DEF h, w
  <2>4. g \in Host /\ g.latest = a /\ ~g.recording /\ g.busy = "no"
    BY <2>1, <2>2 DEF Host
  <2> HIDE DEF g
  <2>5. call' \in [Attempts -> Calls]
    BY <2>1, HostTypes, CallsType DEF Calls
  <2>6. ~Quiet(host) /\ op.step # "settling"
    BY <1>0, <2>1, HostTypes DEF Quiet
  <2> QED BY <2>1, <2>3, <2>4, <2>5, <2>6, <2>8, LiveStep
<1>2. CASE GivesUp(a) \/ Logged(a)
  <2>1. call' \in [Attempts -> Calls]
    BY <1>2, HostTypes, CallsType DEF GivesUp, Logged, Calls
  <2> QED BY <1>2, <2>1, CallStep DEF GivesUp, Logged
<1>3. CASE HandshakeDone(a) \/ HandshakeFails(a)
  <2>1. call' \in [Attempts -> Calls]
    BY <1>3, HostTypes, CallsType DEF HandshakeDone, HandshakeFails, Calls
  <2>2. host.link = "handshake" /\ host.busy = "no" /\ ~host.recording
    BY <1>3, HostTypes DEF HandshakeDone, HandshakeFails
  <2>3. /\ host' \in Host /\ host'.latest = host.latest
        /\ host'.busy = "no" /\ ~host'.recording
    BY <1>3, <2>2, HostTypes DEF HandshakeDone, HandshakeFails, Host
  <2>4. UNCHANGED <<op, stopping, save, disk, render>>
    BY <1>3 DEF HandshakeDone, HandshakeFails
  <2> QED BY <2>1, <2>2, <2>3, <2>4, HostTypes, LiveStep DEF Quiet
<1> QED BY <1>1, <1>2, <1>3 DEF Attempt

LEMMA SimulatorStep ==
  ASSUME IInv,
         StateSyncBegin \/ StateSyncEnd \/ SceneChanges \/ RemoteClose \/ TransportError
  PROVE  IInv'
<1>1. Connected /\ ~Quiet(host) /\ UNCHANGED <<call, op, stopping, disk, render>>
  BY DEF StateSyncBegin, StateSyncEnd, SceneChanges, RemoteClose, TransportError, Connected, Quiet
<1>2. CASE RemoteClose
  <2> DEFINE h == ClientDisconnect(host)
             g == [h EXCEPT !.phase = "idle"]
  <2>1. host' = g /\ save' = RunSettles
    BY <1>2 DEF RemoteClose
  <2>2. h \in Host /\ h.latest = host.latest /\ ~h.recording /\ h.busy = "no"
    BY HostTypes, ClientDisconnectFacts
  <2> HIDE DEF h
  <2>3. g \in Host /\ g.latest = host.latest /\ ~g.recording /\ g.busy = "no"
    BY <2>2 DEF Host
  <2> QED BY <1>1, <2>1, <2>3, HostTypes, SettlesSaved, LiveStep
<1>3. CASE ~RemoteClose
  <2>1. /\ host' \in Host /\ host'.latest = host.latest /\ host'.link = host.link
        /\ host'.busy = host.busy /\ host'.recording = host.recording
    BY <1>3, HostTypes DEF StateSyncBegin, StateSyncEnd, SceneChanges, TransportError, Host
  <2>2. Saved(MarkSceneDirty(save), disk) /\ Captured(render, MarkSceneDirty(save))
    BY HostTypes, MarkSaved
  <2>3. /\ Saved(CheckpointScene(MarkSceneDirty(save)), disk)
        /\ Captured(render, CheckpointScene(MarkSceneDirty(save)))
    <3> DEFINE v == MarkSceneDirty(save)
               w == CheckpointScene(v)
    <3>1. Saved(w, disk) /\ Extends(v, w)
      BY <2>2, CheckpointSaved
    <3> HIDE DEF w, v
    <3>2. Captured(render, v) => Captured(render, w)
      BY <3>1, CapturedKept DEF Extends
    <3> QED BY <2>2, <3>1, <3>2 DEF w, v
  <2>4. Saved(save', disk) /\ Captured(render, save')
    BY <1>3, <2>2, <2>3, HostTypes
       DEF StateSyncBegin, StateSyncEnd, SceneChanges, TransportError
  <2> QED BY <1>1, <2>1, <2>4, HostTypes, LiveStep
<1> QED BY <1>2, <1>3

LEMMA ActionStep ==
  ASSUME IInv, StartAction \/ ActionSettles \/ StartRecording \/ StopsRecording
  PROVE  IInv'
<1>1. ~Quiet(host) /\ UNCHANGED <<call, op, stopping, disk, render>>
  BY DEF StartAction, ActionSettles, StartRecording, StopsRecording, Admitted, Connected, Quiet
<1>2. CASE StartAction
  <2>1. PICK kind \in {"action", "run"} : host' = [host EXCEPT !.busy = kind]
    BY <1>2 DEF StartAction
  <2>2. host' \in Host /\ host'.link = "open" /\ host'.latest = host.latest
    BY <1>2, <2>1, HostTypes DEF StartAction, Admitted, Connected, Host
  <2> QED BY <1>1, <1>2, <2>2, HostTypes, LiveStep DEF StartAction
<1>3. CASE ActionSettles
  <2> DEFINE h == [host EXCEPT !.busy = "no"]
  <2>1. /\ h \in Host /\ h.busy = "no" /\ h.link = host.link /\ h.latest = host.latest
        /\ h.recording = host.recording
    BY HostTypes DEF Host
  <2>2. host' = h \/ host' = StopRecording(h)
    BY <1>3 DEF ActionSettles
  <2> HIDE DEF h
  <2>3. /\ host' \in Host /\ host'.busy = "no" /\ host'.latest = host.latest
        /\ host'.link = host.link /\ (host'.recording => host.recording)
    BY <2>1, <2>2, StopRecordingFacts
  <2>4. save' = RunSettles
    BY <1>3 DEF ActionSettles
  <2> QED BY <1>1, <2>3, <2>4, HostTypes, SettlesSaved, LiveStep
<1>4. CASE StartRecording
  <2>1. host' \in Host /\ host'.link = "open" /\ host'.latest = host.latest
    BY <1>4, HostTypes DEF StartRecording, Admitted, Connected, Host
  <2> QED BY <1>1, <1>4, <2>1, HostTypes, LiveStep DEF StartRecording
<1>5. CASE StopsRecording
  <2>1. host' = StopRecording(host) /\ save' = save
    BY <1>5 DEF StopsRecording
  <2> QED BY <1>1, <2>1, HostTypes, StopRecordingFacts, LiveStep
<1> QED BY <1>2, <1>3, <1>4, <1>5

LEMMA RecordingStep ==
  ASSUME IInv, RecordingWritten
  PROVE  IInv'
<1> DEFINE n == host.writes - 1
<1>1. n \in Nat /\ host.writes # 0 /\ host' = [host EXCEPT !.writes = n]
  BY HostTypes DEF RecordingWritten, Host
<1> HIDE DEF n
<1>2. /\ host' \in Host /\ host'.link = host.link /\ host'.busy = host.busy
      /\ host'.recording = host.recording /\ host'.latest = host.latest
  BY <1>1, HostTypes DEF Host
<1>3. UNCHANGED <<call, op, stopping, save, disk, render>>
  BY DEF RecordingWritten
<1>4. op.step # "saving" /\ stopping # "done"
  BY <1>1 DEF IInv, Hosting, Ending
<1>5. Hosting(host', op) /\ Ending(stopping, host', op, save)
  BY <1>2, <1>4 DEF IInv, Hosting, Ending, Quiet
<1> QED BY <1>2, <1>3, <1>5 DEF IInv
\* A disconnect starts while the runtime is not stopped.
LEMMA StartsStep ==
  ASSUME IInv, NEW h \in Host, NEW calls \in [Attempts -> Calls], StartDisconnect(h, calls),
         h.busy # "no" => h.link = "open", h.recording => h.link = "open",
         stopping' \in {"no", "joined"}, UNCHANGED <<save, disk, render>>
  PROVE  IInv'
<1>1. /\ host' \in Host /\ call' \in [Attempts -> Calls] /\ op' \in Op
      /\ Hosting(host', op') /\ op'.step \in {"settling", "draining"}
  BY DisconnectStarts
<1>2. Due(op', save) /\ Ending(stopping', host', op', save)
  BY <1>1 DEF Due, Ending
<1> QED BY <1>1, <1>2 DEF IInv

LEMMA ConnectStep ==
  ASSUME IInv, NEW a \in Attempts, Connect(a)
  PROVE  IInv'
<1>1. CASE call' = [call EXCEPT ![a] = "rejected"] /\ UNCHANGED <<host, op>>
  <2>1. call' \in [Attempts -> Calls]
    BY <1>1, HostTypes, CallsType DEF Calls
  <2> QED BY <1>1, <2>1, CallStep DEF Connect
<1>2. CASE stopping = "no" /\ ~Disconnecting /\ (Connected \/ host.recording)
           /\ StartDisconnect(host, [call EXCEPT ![a] = "waiting"])
  <2> DEFINE calls == [call EXCEPT ![a] = "waiting"]
  <2>1. calls \in [Attempts -> Calls]
    BY HostTypes, CallsType DEF Calls
  <2>2. StartDisconnect(host, calls) /\ stopping' = "no" /\ UNCHANGED <<save, disk, render>>
    BY <1>2 DEF Connect
  <2> HIDE DEF calls
  <2> QED BY <2>1, <2>2, HostTypes, StartsStep
<1>3. CASE /\ stopping = "no" /\ ~Disconnecting /\ host' = BeginAttempt(host, a)
           /\ call' = [call EXCEPT ![a] = "persisting"] /\ UNCHANGED op
  <2>1. /\ host' \in Host /\ host'.link = host.link /\ host'.busy = host.busy
        /\ host'.recording = host.recording
    BY <1>3, HostTypes DEF BeginAttempt, Host
  <2>2. call' \in [Attempts -> Calls]
    BY <1>3, HostTypes, CallsType DEF Calls
  <2>3. UNCHANGED <<stopping, save, disk, render>>
    BY DEF Connect
  <2>4. Hosting(host', op) /\ Due(op, save) /\ Ending(stopping, host', op, save)
    BY <1>3, <2>1, HostTypes DEF Hosting, Due, Ending, Disconnecting
  <2> QED BY <1>3, <2>1, <2>2, <2>3, <2>4 DEF IInv
<1> QED BY <1>1, <1>2, <1>3 DEF Connect

LEMMA DetachStep ==
  ASSUME IInv, Detach
  PROVE  IInv'
<1>1. PICK timedOut \in BOOLEAN : op' = [op EXCEPT !.step = "draining", !.late = timedOut]
  BY DEF Detach
<1>2. /\ op.step = "settling" /\ host' = ClientDisconnect(host) /\ call' = CancelCandidate(call)
      /\ save' = RunSettles /\ UNCHANGED <<stopping, disk, render>>
  BY DEF Detach
<1>3. op' \in Op /\ op'.step = "draining"
  BY <1>1, HostTypes DEF Op
<1>4. host' \in Host /\ Quiet(host')
  BY <1>2, HostTypes, ClientDisconnectFacts DEF Quiet
<1>5. Hosting(host', op') /\ Due(op', save')
  BY <1>3, <1>4 DEF Hosting, Due, Quiet
<1>6. Ending(stopping, host', op', save')
  BY <1>2, <1>3 DEF IInv, Ending
<1> QED BY <1>2, <1>3, <1>4, <1>5, <1>6, HostTypes, CallsType, SettlesSaved DEF IInv

LEMMA DrainedStep ==
  ASSUME IInv, Drained
  PROVE  IInv'
<1> DEFINE w == CheckpointScene(save)
           n == Len(w.chain)
           x == save.dirty
<1>1. /\ op.step = "draining" /\ host.writes = 0 /\ save' = w
      /\ op' = [op EXCEPT !.step = "saving", !.left = n, !.joined = x]
      /\ UNCHANGED <<host, call, stopping, disk, render>>
  BY DEF Drained
<1>2. /\ Saved(w, disk) /\ Extends(save, w)
      /\ x => n > 0 /\ w.chain[n].revision = save.revision
  BY HostTypes, CheckpointSaved
<1> HIDE DEF w
<1>3. n \in Nat /\ x \in BOOLEAN
  BY <1>2, ChainTypes DEF Saved, Save, Extends
<1> HIDE DEF n, x
<1>4. op' \in Op /\ op'.step = "saving" /\ op'.left = n
  BY <1>1, <1>3, HostTypes DEF Op
<1>5. Due(op', w)
  BY <1>2, <1>3, <1>4 DEF Due, Extends, n, x
<1>6. Hosting(host, op')
  BY <1>1, <1>4 DEF IInv, Hosting, Quiet
<1>7. Ending(stopping, host, op', w)
  BY <1>1, <1>4 DEF IInv, Ending
<1>8. Captured(render, w)
  BY <1>2, HostTypes, CapturedKept DEF Extends
<1> QED BY <1>1, <1>2, <1>4, <1>5, <1>6, <1>7, <1>8 DEF IInv

LEMMA EndDisconnectStep ==
  ASSUME IInv, EndDisconnect
  PROVE  IInv'
<1> DEFINE idle == ~op.failed /\ host.latest = None /\ stopping = "no"
           h == IF idle THEN [host EXCEPT !.phase = "idle"] ELSE host
           waiting == {a \in Attempts : call[a] = "waiting"}
<1>1. op.step = "saving" /\ op.left = 0 /\ op' = NoOp /\ UNCHANGED <<stopping, save, disk, render>>
  BY DEF EndDisconnect
<1>2. Quiet(host) /\ stopping # "done" /\ (save.dirty => save.failed)
  BY <1>1 DEF IInv, Hosting, Ending, Due
<1>3. /\ h \in Host /\ h.link = host.link /\ h.busy = host.busy
      /\ h.recording = host.recording /\ h.latest = host.latest
  BY HostTypes DEF Host
<1> HIDE DEF h
<1>4. op' \in Op /\ op'.step = "none"
  BY <1>1 DEF NoOp, Op
<1>5. Due(op', save)
  BY <1>4 DEF Due
<1>6. CASE /\ host' = h
           /\ call' = [a \in Attempts |-> IF a \in waiting THEN "rejected" ELSE call[a]]
  <2>1. call' \in [Attempts -> Calls]
    BY <1>6, HostTypes DEF Calls
  <2>2. Hosting(host', op') /\ Ending(stopping, host', op', save)
    BY <1>2, <1>3, <1>4, <1>6 DEF Hosting, Ending, Quiet
  <2> QED BY <1>1, <1>3, <1>4, <1>5, <1>6, <2>1, <2>2 DEF IInv
<1>7. ASSUME stopping = "no",
             NEW a \in waiting, host' = BeginAttempt(h, a), call' = [call EXCEPT ![a] = "persisting"]
      PROVE  IInv'
  <2>1. /\ host' \in Host /\ host'.link = "none" /\ host'.busy = "no" /\ ~host'.recording
    BY <1>2, <1>3, <1>7 DEF BeginAttempt, Host, Quiet
  <2>2. call' \in [Attempts -> Calls]
    BY <1>7, HostTypes, CallsType DEF Calls
  <2>3. Hosting(host', op') /\ Ending(stopping, host', op', save)
    BY <1>4, <1>7, <2>1 DEF Hosting, Ending
  <2> QED BY <1>1, <1>4, <1>5, <2>1, <2>2, <2>3 DEF IInv
<1> QED BY <1>6, <1>7 DEF EndDisconnect, h

LEMMA StopSteps ==
  ASSUME IInv, Disconnect \/ Stop \/ Stopped
  PROVE  IInv'
<1>1. CASE Disconnect
  <2>1. stopping' = "no" /\ StartDisconnect(host, call) /\ UNCHANGED <<save, disk, render>>
    BY <1>1 DEF Disconnect
  <2> QED BY <2>1, HostTypes, StartsStep
<1>2. CASE Stop
  <2> DEFINE h == [host EXCEPT !.phase = "stopping"]
  <2>1. /\ h \in Host /\ h.busy = host.busy /\ h.link = host.link /\ h.writes = host.writes
        /\ h.recording = host.recording /\ h.latest = host.latest
    BY HostTypes DEF Host
  <2>2. stopping = "no" /\ stopping' = "joined" /\ UNCHANGED <<save, disk, render>>
    BY <1>2 DEF Stop
  <2>3. CASE Disconnecting
    <3>1. host' = h /\ UNCHANGED <<call, op>>
      BY <1>2, <2>3 DEF Stop
    <3> HIDE DEF h
    <3>2. Hosting(host', op) /\ Ending(stopping', host', op, save)
      BY <2>1, <2>2, <2>3, <3>1 DEF IInv, Hosting, Ending, Disconnecting, Quiet
    <3> QED BY <2>1, <2>2, <3>1, <3>2 DEF IInv
  <2>4. CASE ~Disconnecting
    <3>1. StartDisconnect(h, call)
      BY <1>2, <2>4 DEF Stop
    <3> HIDE DEF h
    <3> QED BY <2>1, <2>2, <3>1, HostTypes, StartsStep
  <2> QED BY <2>3, <2>4
<1>3. CASE Stopped
  <2>1. /\ stopping = "joined" /\ op.step = "none" /\ host.writes = 0 /\ stopping' = "done"
        /\ host' = [host EXCEPT !.phase = "stopped"] /\ UNCHANGED <<call, op, save, disk, render>>
    BY <1>3 DEF Stopped, Disconnecting
  <2>2. /\ host' \in Host /\ host'.busy = host.busy /\ host'.link = host.link
        /\ host'.writes = 0 /\ host'.recording = host.recording /\ host'.latest = host.latest
        /\ host'.phase = "stopped"
    BY <2>1, HostTypes DEF Host
  <2>3. Hosting(host', op) /\ Ending(stopping', host', op, save)
    BY <2>1, <2>2 DEF IInv, Hosting, Ending, Quiet
  <2> QED BY <2>1, <2>2, <2>3 DEF IInv
<1> QED BY <1>1, <1>2, <1>3

LEMMA InitIInv ==
  ASSUME Init
  PROVE  IInv
<1>1. host \in Host /\ op \in Op /\ call \in [Attempts -> Calls]
  BY DEF Init, Host, NoOp, Op, Calls
<1>2. /\ save \in Save /\ save.chain = <<>> /\ save.revision = 0 /\ save.scene = 0
      /\ ~save.dirty /\ ~save.failed /\ disk = 0 /\ Len(save.chain) = 0
  BY DEF Init, Save, Empty
<1>3. Ordered(save, disk) /\ Covered(save)
  BY <1>2 DEF Ordered, Covered
<1>4. Saved(save, disk)
  BY <1>2, <1>3 DEF Saved, Empty
<1>5. Due(op, save) /\ Hosting(host, op) /\ Ending(stopping, host, op, save)
  BY DEF Init, NoOp, Due, Hosting, Ending
<1> QED BY <1>1, <1>4, <1>5 DEF Init, IInv, Captured

LEMMA Invariance ==
  Spec => []IInv
<1>1. Init => IInv
  BY InitIInv
<1>2. IInv /\ [Next]_vars => IInv'
  <2> SUFFICES ASSUME IInv, [Next]_vars PROVE IInv'
    OBVIOUS
  <2>1. CASE UNCHANGED vars
    BY <2>1 DEF vars, IInv
  <2>2. CASE Next
    BY <2>2, ConnectStep, AttemptStep, StopSteps, DetachStep, DrainedStep, EndDisconnectStep,
       SimulatorStep, ActionStep, RecordingStep, TimerStep, WriteSteps, RenderSteps DEF Next
  <2> QED BY <2>1, <2>2
<1> QED BY <1>1, <1>2, PTL DEF Spec

-----------------------------------------------------------------------------
(* The theorems.                                                           *)

\* The scene and its file agree (SceneIsSaved): a clean scene is on disk and a dirty one is
\* about to be saved, unless its save failed, and no checkpoint replaces a newer one; but
\* once a connection emptied the scene, the empty one may take the place of the committed.
THEOREM ScenesAreSaved == Spec => []SceneIsSaved
<1>1. IInv => SceneIsSaved
  <2> SUFFICES ASSUME IInv PROVE SceneIsSaved
    OBVIOUS
  <2> DEFINE emptied == save.scene = Empty
             scenes == [i \in DOMAIN save.chain |-> save.chain[i].scene]
             order == <<disk>> \o scenes
             n == Len(save.chain)
  <2>1. /\ Saved(save, disk) /\ save.chain \in Seq(Checkpoint) /\ disk \in Nat
        /\ n \in Nat /\ DOMAIN save.chain = 1 .. n
    BY DEF IInv, Saved, Save
  <2>2. \A i \in 1 .. n : save.chain[i].scene \in Nat /\ save.chain[i].revision \in Nat
    BY <2>1, ChainTypes
  <2>3. scenes \in Seq(Nat) /\ Len(scenes) = n /\ \A i \in 1 .. n : scenes[i] = save.chain[i].scene
    BY <2>1, <2>2
  <2> HIDE DEF scenes
  <2>4. /\ DOMAIN order = 1 .. n + 1 /\ order[1] = disk
        /\ \A i \in 2 .. n + 1 : i - 1 \in 1 .. n /\ order[i] = save.chain[i - 1].scene
    BY <2>1, <2>3
  <2> HIDE DEF order
  <2>5. ASSUME NEW i \in DOMAIN order, NEW j \in DOMAIN order, i < j
        PROVE  \/ order[i] <= order[j]
               \/ /\ order[j] = Empty
                  /\ save.chain[j - 1].revision = save.revision => emptied
    <3> DEFINE k == j - 1
               r == save.chain[k].revision
    <3>1. k \in 1 .. n /\ order[j] = save.chain[k].scene /\ (i # 1 => i - 1 < k)
      BY <2>1, <2>4, <2>5
    <3>2. /\ order[j] \in {Empty, r} /\ disk <= r
          /\ save.scene # Empty /\ r = save.revision => order[j] = save.scene
      BY <2>1, <3>1 DEF Saved, Ordered
    <3>3. order[i] <= r
      <4>1. CASE i = 1
        BY <2>4, <3>2, <4>1
      <4>2. CASE i # 1
        <5> DEFINE m == i - 1
        <5>1. m \in 1 .. n /\ m < k /\ order[i] = save.chain[m].scene
          BY <2>1, <2>4, <2>5, <3>1, <4>2
        <5> HIDE DEF m
        <5>2. save.chain[m].revision <= r /\ order[i] \in {Empty, save.chain[m].revision}
          BY <2>1, <3>1, <5>1 DEF Saved, Ordered
        <5> QED BY <2>2, <3>1, <5>1, <5>2 DEF Empty
      <4> QED BY <4>1, <4>2
    <3> QED BY <3>2, <3>3
  <2>6. ~save.dirty => disk = save.revision \/ (emptied /\ disk = Empty)
    BY <2>1 DEF Saved
  <2>7. save.dirty =>
          \/ save.timer \/ save.failed
          \/ \E i \in DOMAIN save.chain : save.chain[i].revision = save.revision
    BY <2>1 DEF Saved, Covered
  <2> QED BY <2>5, <2>6, <2>7 DEF SceneIsSaved, order, scenes
<1> QED BY <1>1, Invariance, PTL

\* A stopped runtime has stopped for good (StoppedIsClean): stop() joins the disconnect
\* under way or starts one, and nothing it gave up comes back.
THEOREM StoppedStaysClean == Spec => []StoppedIsClean
<1>1. IInv => StoppedIsClean
  BY RuntimeAssumption DEF IInv, Ending, Quiet, StoppedIsClean, IsCurrent
<1> QED BY <1>1, Invariance, PTL

=============================================================================
