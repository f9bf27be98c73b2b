----------------------- MODULE RecordingCollection_proofs -----------------------
(***************************************************************************)
(* What a collection promises, for every bound on commits and frames and   *)
(* every configuration of windows, triggers and checkpoints: a change has  *)
(* its frame or is kept back for a reason, a window has its frames, and    *)
(* the hold is never overrun.                                              *)
(* The budget of checkpoints, a sum over a set, has an invariant apart.    *)
(***************************************************************************)
EXTENDS RecordingCollection, FiniteSetTheorems, WellFoundedInduction, TLAPS

(* The invariant *)

Sessions == [revision : 0 .. MaxCommits, open : BOOLEAN,
             run : {"none", "running", "stopHook", "stopping"},
             action : {"none", "sent", "applied"}, late : BOOLEAN]
Configs == [mode : {"rolling", "full-history"}, overflow : {"truncate", "stop", "fail"},
            stopAction : BOOLEAN]

\* v has the fields of a collection, whatever is in them.
Shaped(v) ==
  v \in [phase : {v.phase}, frame : {v.frame}, buffer : {v.buffer}, pending : {v.pending},
         job : {v.job}, asked : {v.asked}, triggered : {v.triggered}, batch : {v.batch},
         draft : {v.draft}, lastTrigger : {v.lastTrigger}, windows : {v.windows},
         checkpoints : {v.checkpoints}, count : {v.count}, bytes : {v.bytes},
         error : {v.error}, since : {v.since}]

\* The frame number is that of a commit; frames are written while the collection is on;
\* until then it has nothing.
Typed(v, s) ==
  /\ v.phase \in {"starting", "on", "closing", "closed"}
  /\ v.job \in {"none", "capture", "append", "collect"}
  /\ v.error \in BOOLEAN /\ v.pending \in BOOLEAN /\ v.triggered \in BOOLEAN
  /\ v.frame \in 0 .. s.revision /\ v.since \in 0 .. s.revision
  /\ v.buffer \subseteq Commits /\ v.batch \subseteq Commits

Phased(v) ==
  /\ v.pending <=> (v.phase = "on" /\ v.job # "none")
  /\ v.pending => v.frame > 0
  /\ v.phase \in {"closing", "closed"} => v.job = "none"
  /\ v.phase = "starting" =>
       /\ v.frame = 0 /\ v.buffer = {} /\ v.batch = {} /\ ~v.triggered
       /\ v.job \in {"capture", "append"} /\ ~v.error

\* While a frame is written no result is awaited.
Held(v, s) == v.pending => s.action # "sent"

\* A frame: what it holds, and the scene after the last of it.
Shows(x) == x.scene \in x.messages /\ \A m \in x.messages : m <= x.scene

FrameType(x) == x.messages \subseteq Commits /\ x.scene \in 0 .. MaxCommits

Stored(v, st) ==
  /\ DOMAIN st \subseteq 0 .. v.frame
  /\ v.phase = "starting" => DOMAIN st = {}
  /\ \A f \in DOMAIN st : FrameType(st[f]) /\ (f # 0 => Shows(st[f]))
  /\ v.job = "append" => FrameType(v.draft)
  /\ v.job = "append" /\ v.phase = "starting" => v.draft.messages = {}
  /\ v.job = "append" /\ v.phase = "on" => Shows(v.draft)

\* The last frame in the store, and the last one the windows know of.
Newest(v) == IF v.phase = "on" /\ v.job \in {"capture", "append"} THEN v.frame - 1 ELSE v.frame
Seen(v) == IF v.phase = "on" /\ v.job = "capture" THEN v.frame - 1 ELSE v.frame

\* The last change that is accounted for with frame f.
Last(v, st, f) == IF f = 0 THEN v.since ELSE st[f].scene

\* The store holds consecutive frames, each with what came after the one before.
InOrder(v, s, st) ==
  \A f \in DOMAIN st :
    /\ Last(v, st, f) \in 0 .. s.revision
    /\ \A m \in st[f].messages : m <= Last(v, st, f)
    /\ \A g \in DOMAIN st :
         f < g => /\ Last(v, st, f) <= Last(v, st, g)
                  /\ \A m \in st[g].messages : m > Last(v, st, f)

Complete(v, st, lo) ==
  \A m \in (Last(v, st, lo) + 1) .. Last(v, st, Newest(v)) :
    \E f \in DOMAIN st : m \in st[f].messages

\* What came after the newest stored frame waits: for a frame to begin, or in one.
Waits(v, s, st) ==
  LET new == (Last(v, st, Newest(v)) + 1) .. s.revision
  IN /\ v.job \in {"none", "collect"} => v.buffer = new
     /\ v.job = "none" => v.batch = {}
     /\ v.job = "collect" => v.buffer = {}
     /\ v.job \in {"capture", "append"} =>
          v.buffer = {} /\ v.batch = new /\ s.revision \in v.batch
     /\ v.job = "append" => v.draft.messages = v.batch /\ v.draft.scene = s.revision

Keeps(v, s, st) ==
  v.phase # "starting" /\ ~v.error =>
    /\ \E lo \in 0 .. FirstFrame(Newest(v)) :
         DOMAIN st = lo .. Newest(v) /\ Complete(v, st, lo)
    /\ InOrder(v, s, st)
    /\ Waits(v, s, st)

SpanType == [from : Int, to : Int]
Windows == [frame : Nat, from : Nat, to : Nat, actual : SpanType, gap : SpanType,
            rest : SpanType, state : {"pending", "partial", "complete"}]

\* A window has the end of what it asked for, and a gap before that.
Split(x) ==
  /\ x.from <= x.to /\ x.from <= x.actual.from /\ x.actual.from <= x.actual.to + 1
  /\ x.actual.to <= x.to
  /\ IF x.gap = NoSpan THEN x.actual.from = x.from
     ELSE x.gap.from = x.from /\ x.gap.to = x.actual.from - 1 /\ x.gap.from <= x.gap.to

\* It has no frame that the store may have given up.
Fresh(x, frame) == x.actual.from >= FirstFrame(frame) \/ x.actual.from = x.actual.to + 1

\* It has come as far as the frame, or is done.
Grown(x, frame) ==
  /\ x.state = "pending" => x.actual.to = frame /\ x.actual.to < x.to /\ x.rest = NoSpan
  /\ x.state # "pending" =>
       \/ x.actual.to = x.to /\ x.to <= frame /\ x.rest = NoSpan
       \/ /\ x.state = "partial" /\ x.actual.to = frame /\ x.actual.to < x.to
          /\ x.rest.from = x.actual.to + 1 /\ x.rest.to = x.to
  /\ x.state = "complete" <=> (x.gap = NoSpan /\ x.actual.to = x.to)

Windowed(v) ==
  ~v.error =>
    /\ v.windows \in Seq(Windows)
    /\ v.phase = "starting" => Len(v.windows) = 0
    /\ \A i \in 1 .. Len(v.windows) :
         LET x == v.windows[i]
         IN Split(x) /\ Fresh(x, Seen(v)) /\ Grown(x, Seen(v))
            /\ (v.phase = "on" => x.rest = NoSpan)

Good(v, s, st) ==
  /\ Shaped(v) /\ Typed(v, s) /\ Phased(v) /\ Held(v, s) /\ Stored(v, st)
  /\ Keeps(v, s, st) /\ Windowed(v)

IInv ==
  /\ config \in Configs /\ session \in Sessions /\ writer \in {"open", "complete", "failed"}
  /\ Good(c, session, stored)

-----------------------------------------------------------------------------
(* Lemmas: maxima, retention, records *)

LEMMA MaxIs ==
  ASSUME NEW S, S \subseteq Int, NEW m \in S, \A x \in S : x <= m
  PROVE  Max(S) = m
<1>1. \E x \in S : \A y \in S : x >= y
  OBVIOUS
<1>2. Max(S) \in S /\ \A y \in S : Max(S) >= y
  BY <1>1, Zenon DEF Max
<1> DEFINE w == Max(S)
<1>3. w \in S /\ w \in Int /\ m \in Int /\ w <= m /\ w >= m
  BY <1>2
<1> HIDE DEF w
<1>4. w = m
  BY <1>3
<1> QED BY <1>4 DEF w

LEMMA MinIs ==
  ASSUME NEW S, S \subseteq Int, NEW m \in S, \A x \in S : m <= x
  PROVE  Min(S) = m
<1>1. \E x \in S : \A y \in S : x <= y
  OBVIOUS
<1>2. Min(S) \in S /\ \A y \in S : Min(S) <= y
  BY <1>1, Zenon DEF Min
<1> DEFINE w == Min(S)
<1>3. w \in S /\ w \in Int /\ m \in Int /\ w <= m /\ w >= m
  BY <1>2
<1> HIDE DEF w
<1>4. w = m
  BY <1>3
<1> QED BY <1>4 DEF w

LEMMA MaxOfTwo ==
  ASSUME NEW a \in Int, NEW b \in Int
  PROVE  Max({a, b}) = IF a >= b THEN a ELSE b
<1>1. CASE a >= b
  BY <1>1, MaxIs
<1>2. CASE ~(a >= b)
  BY <1>2, MaxIs
<1> QED BY <1>1, <1>2

LEMMA MinOfTwo ==
  ASSUME NEW a \in Int, NEW b \in Int
  PROVE  Min({a, b}) = IF a <= b THEN a ELSE b
<1>1. CASE a <= b
  BY <1>1, MinIs
<1>2. CASE ~(a <= b)
  BY <1>2, MinIs
<1> QED BY <1>1, <1>2

\* A frame makes a collection forget one frame at most, and never itself.
LEMMA Retention ==
  ASSUME NEW n \in Nat
  PROVE  /\ FirstFrame(n) \in 0 .. n
         /\ FirstFrame(n) <= FirstFrame(n + 1)
         /\ FirstFrame(n + 1) <= FirstFrame(n) + 1
<1>1. MaxFrames \in Nat /\ MaxFrames > 0
  BY ConfigAssumption
<1>2. ASSUME NEW k \in Nat
      PROVE  Max({0, k - MaxFrames}) = IF 0 >= k - MaxFrames THEN 0 ELSE k - MaxFrames
  BY <1>1, MaxOfTwo
<1> DEFINE a == Max({0, n - MaxFrames})
           b == Max({0, (n + 1) - MaxFrames})
<1>3. a = (IF 0 >= n - MaxFrames THEN 0 ELSE n - MaxFrames)
  BY <1>2
<1>4. b = (IF 0 >= (n + 1) - MaxFrames THEN 0 ELSE (n + 1) - MaxFrames)
  BY <1>2
<1>5. /\ FirstFrame(n) = IF config.mode = "rolling" THEN a ELSE 0
      /\ FirstFrame(n + 1) = IF config.mode = "rolling" THEN b ELSE 0
  BY DEF FirstFrame
<1> HIDE DEF a, b
<1>6. /\ a \in 0 .. n /\ a <= b /\ b <= a + 1 /\ b \in Nat
  BY <1>1, <1>3, <1>4
<1>7. CASE config.mode = "rolling"
  BY <1>5, <1>6, <1>7
<1>8. CASE config.mode # "rolling"
  BY <1>5, <1>8
<1> QED BY <1>7, <1>8

LEMMA RestFields ==
  ASSUME NEW v, Shaped(v)
  PROVE  /\ Shaped(Rest(v))
         /\ ~Rest(v).pending /\ Rest(v).pending \in BOOLEAN
         /\ ~Rest(v).triggered /\ Rest(v).triggered \in BOOLEAN
         /\ Rest(v).job = "none" /\ Rest(v).batch = {}
         /\ Rest(v).phase = v.phase /\ Rest(v).frame = v.frame /\ Rest(v).buffer = v.buffer
         /\ Rest(v).windows = v.windows /\ Rest(v).error = v.error /\ Rest(v).since = v.since
BY DEF Rest, Shaped

LEMMA BrokenFields ==
  ASSUME NEW v, Shaped(v)
  PROVE  /\ Shaped(Broken(v))
         /\ ~Broken(v).pending /\ Broken(v).pending \in BOOLEAN
         /\ ~Broken(v).triggered /\ Broken(v).triggered \in BOOLEAN
         /\ Broken(v).error /\ Broken(v).error \in BOOLEAN
         /\ Broken(v).job = "none" /\ Broken(v).batch = {}
         /\ Broken(v).phase = v.phase /\ Broken(v).frame = v.frame
         /\ Broken(v).buffer = v.buffer /\ Broken(v).since = v.since
<1> DEFINE r == Rest(v)
<1>1. /\ Shaped(r) /\ ~r.pending /\ r.pending \in BOOLEAN
      /\ ~r.triggered /\ r.triggered \in BOOLEAN /\ r.job = "none" /\ r.batch = {}
      /\ r.phase = v.phase /\ r.frame = v.frame /\ r.buffer = v.buffer /\ r.since = v.since
  BY RestFields
<1>2. Broken(v) = [r EXCEPT !.error = TRUE]
  BY DEF Broken
<1> HIDE DEF r
<1> DEFINE w == [r EXCEPT !.error = TRUE]
<1>3. /\ Shaped(w) /\ w.pending = r.pending /\ w.triggered = r.triggered /\ w.error = TRUE
      /\ w.job = r.job /\ w.batch = r.batch /\ w.phase = r.phase /\ w.frame = r.frame
      /\ w.buffer = r.buffer /\ w.since = r.since
  BY <1>1 DEF Shaped
<1> HIDE DEF w
<1> QED BY <1>1, <1>2, <1>3 DEF w

\* w is the collection v with a new frame that takes the batch.
Began(w, v, batch) ==
  /\ Shaped(w)
  /\ w.pending /\ w.pending \in BOOLEAN /\ w.triggered \in BOOLEAN
  /\ w.job = "capture" /\ w.batch = batch /\ w.buffer = {}
  /\ w.frame = v.frame + 1 /\ w.phase = v.phase
  /\ w.windows = v.windows /\ w.error = v.error /\ w.since = v.since

LEMMA BeginFields ==
  ASSUME NEW v, Shaped(v), v.frame \in Nat, NEW batch, NEW matched
  PROVE  Began(Begin(v, batch, matched), v, batch)
<1> DEFINE up == v.frame + 1
           u == [v EXCEPT !.frame = up]
<1> HIDE DEF up
<1>1. /\ Shaped(u) /\ u.frame = up /\ u.phase = v.phase /\ u.windows = v.windows
      /\ u.error = v.error /\ u.since = v.since
  BY DEF Shaped
<1> HIDE DEF u
<1> DEFINE gone == {x \in u.checkpoints :
                      config.mode = "rolling" /\ x.frame < FirstFrame(u.frame)}
           fewer == u.count - Cardinality(gone)
           less == u.bytes - MapThenSumSet(LAMBDA x : x.bytes, gone)
           left == u.checkpoints \ gone
           next == [u EXCEPT !.checkpoints = left, !.count = fewer, !.bytes = less]
<1>2. Evict(u) = next
  BY DEF Evict
<1> HIDE DEF gone, fewer, less, left
<1>3. /\ Shaped(next) /\ next.frame = up /\ next.phase = v.phase /\ next.windows = v.windows
      /\ next.error = v.error /\ next.since = v.since
  BY <1>1 DEF Shaped
<1> HIDE DEF next
<1> DEFINE tr == /\ matched
                 /\ Len(next.windows) < MaxTriggers
                 /\ \/ next.lastTrigger = -1
                    \/ next.frame - next.lastTrigger > Cooldown
           lt == IF tr THEN next.frame ELSE next.lastTrigger
           as == Wanted(next, tr)
           w == [next EXCEPT !.pending = TRUE, !.job = "capture", !.batch = batch, !.buffer = {},
                             !.triggered = tr, !.lastTrigger = lt, !.asked = as]
<1>4. Begin(v, batch, matched) = w
  BY <1>2 DEF Begin, u, up
<1>5. tr \in BOOLEAN
  OBVIOUS
<1> HIDE DEF tr, lt, as
<1>6. /\ Shaped(w) /\ w.pending = TRUE /\ w.triggered = tr
      /\ w.job = "capture" /\ w.batch = batch /\ w.buffer = {}
      /\ w.frame = up /\ w.phase = v.phase
      /\ w.windows = v.windows /\ w.error = v.error /\ w.since = v.since
  BY <1>3 DEF Shaped
<1> HIDE DEF w
<1> QED BY <1>4, <1>5, <1>6 DEF up, Began

-----------------------------------------------------------------------------
(* A collection that has failed keeps its frames *)

\* w is the collection v after an error: at rest, its frames and numbers untouched.
Lapsed(w, v) ==
  /\ Shaped(w) /\ w.error /\ w.error \in BOOLEAN /\ ~w.pending /\ w.pending \in BOOLEAN
  /\ w.triggered \in BOOLEAN
  /\ w.job = "none" /\ w.batch = {} /\ w.buffer \subseteq Commits /\ w.since = v.since

LEMMA ErrorKeeps ==
  ASSUME NEW v, NEW s \in Sessions, NEW st, Good(v, s, st), v.phase = "on",
         NEW w, Lapsed(w, v), w.phase = "on",
         NEW t \in Sessions, t.revision \in {s.revision, s.revision + 1},
         w.frame \in v.frame .. t.revision
  PROVE  Good(w, t, st)
<1> USE DEF Good
<1>1. s.revision \in Nat /\ t.revision \in Nat
  BY DEF Sessions
<1>2. Typed(w, t)
  BY <1>1 DEF Lapsed, Typed
<1>3. Phased(w) /\ Held(w, t)
  BY DEF Lapsed, Phased, Held
<1>4. Stored(w, st)
  BY <1>1 DEF Lapsed, Stored, Typed
<1>5. Keeps(w, t, st) /\ Windowed(w)
  BY DEF Lapsed, Keeps, Windowed
<1> QED BY <1>2, <1>3, <1>4, <1>5 DEF Lapsed

\* The recording is given up while it starts.
LEMMA GivenUp ==
  ASSUME NEW v, NEW s \in Sessions, NEW st, Good(v, s, st), v.phase = "starting",
         NEW w, Lapsed(w, v), w.phase = "closed", w.frame = v.frame,
         NEW t \in Sessions, t.revision = s.revision
  PROVE  Good(w, t, st)
<1> USE DEF Good
<1>1. s.revision \in Nat /\ t.revision \in Nat
  BY DEF Sessions
<1>2. Typed(w, t)
  BY <1>1 DEF Lapsed, Typed
<1>3. Phased(w) /\ Held(w, t)
  BY DEF Lapsed, Phased, Held
<1>4. Stored(w, st)
  BY <1>1 DEF Lapsed, Stored, Typed
<1>5. Keeps(w, t, st) /\ Windowed(w)
  BY DEF Lapsed, Keeps, Windowed
<1> QED BY <1>2, <1>3, <1>4, <1>5 DEF Lapsed

LEMMA Stopping ==
  ASSUME NEW s \in Sessions, config \in Configs
  PROVE  /\ StopRun(s) \in Sessions
         /\ StopRun(s).revision = s.revision /\ StopRun(s).action = s.action
         /\ StopRun(s).open = s.open /\ StopRun(s).late = s.late
<1> DEFINE r == IF config.stopAction THEN "stopHook" ELSE "stopping"
<1>1. r \in {"stopHook", "stopping"}
  OBVIOUS
<1>2. StopRun(s) = IF s.run = "running" THEN [s EXCEPT !.run = r] ELSE s
  BY DEF StopRun
<1> HIDE DEF r
<1> QED BY <1>1, <1>2 DEF Sessions

\* The configuration is fixed, so the invariant of a step's result is that of its end.
LEMMA NextState ==
  ASSUME config \in Configs, UNCHANGED config,
         session' \in Sessions, writer' \in {"open", "complete", "failed"},
         Good(c', session', stored')
  PROVE  IInv'
<1>1. Keeps(c', session', stored') => Keeps(c, session, stored)'
  BY DEF Keeps, FirstFrame
<1>2. Windowed(c') => Windowed(c)'
  BY DEF Windowed, Fresh, FirstFrame
<1> QED BY <1>1, <1>2 DEF Good, IInv

\* fail(), in start() and in the chain of frames.
LEMMA FailKeeps ==
  ASSUME IInv, c.phase \in {"starting", "on"}, NEW s \in Sessions,
         s.revision = session.revision, s.action = session.action,
         Fail(s), UNCHANGED <<config, stored>>
  PROVE  IInv'
<1>1. /\ config \in Configs /\ session \in Sessions /\ Good(c, session, stored)
      /\ writer \in {"open", "complete", "failed"}
  BY DEF IInv
<1>2. Shaped(c) /\ Typed(c, session)
  BY <1>1 DEF Good
<1>3. CASE c.phase = "starting"
  <2> DEFINE r == Rest(c)
             w == [r EXCEPT !.phase = "closed", !.error = TRUE]
  <2>1. /\ Shaped(r) /\ ~r.pending /\ r.pending \in BOOLEAN /\ r.triggered \in BOOLEAN
        /\ r.job = "none" /\ r.batch = {} /\ r.frame = c.frame /\ r.buffer = c.buffer
        /\ r.since = c.since
    BY <1>2, RestFields
  <2>2. c' = w /\ writer' = "failed" /\ session' = s
    BY <1>3 DEF Fail
  <2> HIDE DEF r
  <2>3. /\ Shaped(w) /\ w.pending = r.pending /\ w.triggered = r.triggered /\ w.error = TRUE
        /\ w.job = r.job /\ w.batch = r.batch /\ w.phase = "closed" /\ w.frame = r.frame
        /\ w.buffer = r.buffer /\ w.since = r.since
    BY <2>1 DEF Shaped
  <2> HIDE DEF w
  <2>4. Lapsed(w, c)
    BY <2>1, <2>3, <1>2 DEF Lapsed, Typed
  <2>5. Good(w, s, stored)
    BY <1>1, <1>3, <2>1, <2>3, <2>4, GivenUp
  <2> QED BY <1>1, <2>2, <2>5, NextState
<1>4. CASE c.phase = "on"
  <2> DEFINE w == Broken(c)
             t == StopRun(s)
  <2>1. c' = w /\ session' = t /\ writer' = writer
    BY <1>4 DEF Fail
  <2>2. /\ Lapsed(w, c) /\ w.phase = c.phase /\ w.frame = c.frame
    BY <1>2, BrokenFields DEF Lapsed, Typed
  <2>3. t \in Sessions /\ t.revision = session.revision
    BY <1>1, Stopping
  <2> HIDE DEF w, t
  <2>4. w.frame \in c.frame .. t.revision
    BY <1>1, <1>2, <2>2, <2>3 DEF Typed, Sessions
  <2>5. Good(w, t, stored)
    BY <1>1, <1>4, <2>2, <2>3, <2>4, ErrorKeeps
  <2> QED BY <1>1, <2>1, <2>3, <2>5, NextState
<1> QED BY <1>3, <1>4

-----------------------------------------------------------------------------
(* Commits *)

\* What a commit leaves in the session: one more change, and perhaps a result.
Commit(t, s) == t.revision = s.revision + 1 /\ t.action \in {s.action, "applied"}

LEMMA CommitTypes ==
  ASSUME NEW s \in Sessions, NEW t \in Sessions, Commit(t, s)
  PROVE  s.revision \in Nat /\ t.revision \in Nat /\ t.revision = s.revision + 1
         /\ t.revision \in Commits /\ MaxCommits \in Nat
BY ConfigAssumption DEF Sessions, Commit, Commits

\* Nobody listens, or the collection has failed.
LEMMA CommitIgnored ==
  ASSUME NEW v, NEW s \in Sessions, NEW st, Good(v, s, st), v.phase = "starting" \/ v.error,
         NEW t \in Sessions, Commit(t, s)
  PROVE  Good(v, t, st)
<1> USE DEF Good
<1>1. s.revision \in Nat /\ t.revision \in Nat /\ t.revision = s.revision + 1
  BY CommitTypes
<1>2. Typed(v, t)
  BY <1>1 DEF Typed
<1>3. Held(v, t)
  BY DEF Held, Commit
<1>4. Keeps(v, t, st)
  BY DEF Keeps
<1> QED BY <1>2, <1>3, <1>4

\* A change under the hold.
LEMMA CommitUnderHold ==
  ASSUME NEW v, NEW s \in Sessions, NEW st, Good(v, s, st), v.phase = "on",
         NEW t \in Sessions, Commit(t, s)
  PROVE  Good([v EXCEPT !.error = TRUE], t, st)
<1> DEFINE w == [v EXCEPT !.error = TRUE]
<1> USE DEF Good
<1>1. s.revision \in Nat /\ t.revision \in Nat /\ t.revision = s.revision + 1
  BY CommitTypes
<1>2. /\ Shaped(w) /\ w.error /\ w.error \in BOOLEAN /\ w.phase = v.phase /\ w.job = v.job
      /\ w.pending = v.pending /\ w.triggered = v.triggered /\ w.frame = v.frame
      /\ w.since = v.since /\ w.buffer = v.buffer /\ w.batch = v.batch /\ w.draft = v.draft
  BY DEF Shaped
<1> HIDE DEF w
<1>3. Typed(w, t)
  BY <1>1, <1>2 DEF Typed
<1>4. Phased(w)
  BY <1>2 DEF Phased
<1>5. Held(w, t)
  BY <1>2 DEF Held, Commit
<1>6. Stored(w, st)
  BY <1>2 DEF Stored
<1>7. Keeps(w, t, st) /\ Windowed(w)
  BY <1>2 DEF Keeps, Windowed
<1>8. Good(w, t, st)
  BY <1>2, <1>3, <1>4, <1>5, <1>6, <1>7
<1> QED BY <1>8 DEF w

\* The frames are where they were.
LEMMA SameFrames ==
  ASSUME NEW v, NEW w, NEW s, NEW t, NEW st,
         Newest(w) = Newest(v), w.since = v.since,
         s.revision \in Nat, t.revision \in Nat, s.revision <= t.revision
  PROVE  /\ \A f : Last(w, st, f) = Last(v, st, f)
         /\ InOrder(v, s, st) => InOrder(w, t, st)
         /\ \A lo : Complete(v, st, lo) => Complete(w, st, lo)
<1>1. \A f : Last(w, st, f) = Last(v, st, f)
  BY DEF Last
<1>2. ASSUME InOrder(v, s, st)
      PROVE  InOrder(w, t, st)
  BY <1>1, <1>2 DEF InOrder
<1>3. \A lo : Complete(v, st, lo) => Complete(w, st, lo)
  BY <1>1 DEF Complete
<1> QED BY <1>1, <1>2, <1>3

LEMMA NewestIs ==
  ASSUME NEW v, NEW s \in Sessions, NEW st, Good(v, s, st), v.phase # "starting", ~v.error
  PROVE  /\ Newest(v) \in Nat /\ Newest(v) \in DOMAIN st
         /\ Last(v, st, Newest(v)) \in 0 .. s.revision /\ s.revision \in Nat
<1>1. /\ Typed(v, s) /\ Phased(v) /\ Keeps(v, s, st)
  BY DEF Good
<1>2. s.revision \in Nat
  BY DEF Sessions
<1>3. v.frame \in Nat /\ (v.phase = "on" /\ v.job \in {"capture", "append"} => v.frame > 0)
  BY <1>1, <1>2 DEF Typed, Phased
<1>4. Newest(v) \in Nat
  BY <1>3 DEF Newest
<1>5. PICK lo \in 0 .. FirstFrame(Newest(v)) : DOMAIN st = lo .. Newest(v)
  BY <1>1 DEF Keeps
<1>6. Newest(v) \in DOMAIN st
  <2> DEFINE n == Newest(v)
             first == FirstFrame(n)
  <2>1. n \in Nat /\ first \in 0 .. n /\ lo \in 0 .. first
    BY <1>4, Retention
  <2> HIDE DEF n, first
  <2>2. n \in lo .. n
    BY <2>1
  <2> QED BY <2>2, <1>5 DEF n
<1>7. InOrder(v, s, st)
  BY <1>1 DEF Keeps
<1> QED BY <1>2, <1>4, <1>6, <1>7 DEF InOrder

\* A change while an action runs: it waits for the result.
LEMMA CommitWaits ==
  ASSUME NEW v, NEW s \in Sessions, NEW st, Good(v, s, st), v.phase = "on", ~v.error,
         ~v.pending, NEW t \in Sessions, Commit(t, s)
  PROVE  Good([v EXCEPT !.buffer = v.buffer \cup {t.revision}], t, st)
<1> DEFINE both == v.buffer \cup {t.revision}
           w == [v EXCEPT !.buffer = both]
<1> HIDE DEF both
<1>1. /\ s.revision \in Nat /\ t.revision \in Nat /\ t.revision = s.revision + 1
      /\ t.revision \in Commits
  BY CommitTypes
<1>2. /\ Shaped(v) /\ Typed(v, s) /\ Phased(v) /\ Held(v, s) /\ Stored(v, st)
      /\ Keeps(v, s, st) /\ Windowed(v)
  BY DEF Good
<1>3. /\ Shaped(w) /\ w.error = v.error /\ w.phase = v.phase /\ w.job = v.job
      /\ w.pending = v.pending /\ w.triggered = v.triggered /\ w.frame = v.frame
      /\ w.since = v.since /\ w.buffer = both /\ w.batch = v.batch
      /\ w.draft = v.draft /\ w.windows = v.windows
  BY <1>2 DEF Shaped
<1> HIDE DEF w
<1>4. v.job = "none"
  BY <1>2 DEF Phased
<1>5. Typed(w, t)
  BY <1>1, <1>2, <1>3 DEF Typed, both
<1>6. Phased(w)
  BY <1>2, <1>3 DEF Phased
<1>7. Held(w, t)
  BY <1>2, <1>3 DEF Held
<1>8. Stored(w, st)
  BY <1>2, <1>3 DEF Stored
<1>9. Newest(w) = Newest(v) /\ Seen(w) = Seen(v)
  BY <1>3 DEF Newest, Seen
<1>10. /\ \A f : Last(w, st, f) = Last(v, st, f)
       /\ InOrder(v, s, st) => InOrder(w, t, st)
       /\ \A lo : Complete(v, st, lo) => Complete(w, st, lo)
  BY <1>1, <1>3, <1>9, SameFrames
<1>11. Waits(w, t, st)
  <2>1. Last(v, st, Newest(v)) \in 0 .. s.revision
    BY NewestIs
  <2>2. Waits(v, s, st)
    BY <1>2 DEF Keeps
  <2>3. v.buffer = (Last(v, st, Newest(v)) + 1) .. s.revision /\ v.batch = {}
    BY <1>4, <2>2 DEF Waits
  <2>4. Last(w, st, Newest(w)) = Last(v, st, Newest(v))
    BY <1>9, <1>10
  <2>5. both = (Last(w, st, Newest(w)) + 1) .. t.revision
    BY <1>1, <2>1, <2>3, <2>4 DEF both
  <2> QED BY <1>3, <1>4, <2>3, <2>5 DEF Waits
<1>12. Keeps(w, t, st)
  BY <1>2, <1>3, <1>9, <1>10, <1>11 DEF Keeps
<1>13. Windowed(w)
  BY <1>2, <1>3, <1>9 DEF Windowed
<1>14. Good(w, t, st)
  BY <1>3, <1>5, <1>6, <1>7, <1>8, <1>12, <1>13 DEF Good
<1> QED BY <1>14 DEF w, both

\* A frame begins with all that waited.
LEMMA BeginKeeps ==
  ASSUME NEW v, NEW s \in Sessions, NEW st, Good(v, s, st), v.phase = "on", ~v.error,
         ~v.pending, NEW t \in Sessions, Commit(t, s), t.action # "sent",
         NEW w, Began(w, v, v.buffer \cup {t.revision})
  PROVE  Good(w, t, st)
<1> DEFINE both == v.buffer \cup {t.revision}
           up == v.frame + 1
<1>1. /\ s.revision \in Nat /\ t.revision \in Nat /\ t.revision = s.revision + 1
      /\ t.revision \in Commits
  BY CommitTypes
<1>2. /\ Shaped(v) /\ Typed(v, s) /\ Phased(v) /\ Held(v, s) /\ Stored(v, st)
      /\ Keeps(v, s, st) /\ Windowed(v)
  BY DEF Good
<1>3. /\ Shaped(w) /\ w.pending /\ w.pending \in BOOLEAN /\ w.triggered \in BOOLEAN
      /\ w.job = "capture" /\ w.batch = both /\ w.buffer = {}
      /\ w.frame = up /\ w.phase = "on"
      /\ w.windows = v.windows /\ ~w.error /\ w.error \in BOOLEAN /\ w.since = v.since
  BY <1>2 DEF Began, Typed
<1>4. v.job = "none" /\ v.frame \in Nat /\ up \in Nat /\ up = v.frame + 1
  BY <1>1, <1>2 DEF Phased, Typed
<1> HIDE DEF both, up
<1>5. Typed(w, t)
  BY <1>1, <1>2, <1>3, <1>4 DEF Typed, both
<1>6. Phased(w)
  BY <1>3, <1>4 DEF Phased
<1>7. Held(w, t)
  BY DEF Held
<1>8. Stored(w, st)
  <2>1. 0 .. v.frame \subseteq 0 .. w.frame
    BY <1>3, <1>4
  <2> QED BY <1>2, <1>3, <2>1 DEF Stored
<1>9. Newest(w) = Newest(v) /\ Seen(w) = Seen(v)
  <2>1. Newest(w) = w.frame - 1 /\ Newest(v) = v.frame
    BY <1>3, <1>4 DEF Newest
  <2>2. Seen(w) = w.frame - 1 /\ Seen(v) = v.frame
    BY <1>3, <1>4 DEF Seen
  <2> QED BY <1>3, <1>4, <2>1, <2>2
<1>10. /\ \A f : Last(w, st, f) = Last(v, st, f)
       /\ InOrder(v, s, st) => InOrder(w, t, st)
       /\ \A lo : Complete(v, st, lo) => Complete(w, st, lo)
  BY <1>1, <1>3, <1>9, SameFrames
<1>11. Waits(w, t, st)
  <2>1. Last(v, st, Newest(v)) \in 0 .. s.revision
    BY NewestIs
  <2>2. Waits(v, s, st)
    BY <1>2 DEF Keeps
  <2>3. v.buffer = (Last(v, st, Newest(v)) + 1) .. s.revision
    BY <1>4, <2>2 DEF Waits
  <2>4. Last(w, st, Newest(w)) = Last(v, st, Newest(v))
    BY <1>9, <1>10
  <2>5. both = (Last(w, st, Newest(w)) + 1) .. t.revision
    BY <1>1, <2>1, <2>3, <2>4 DEF both
  <2> QED BY <1>3, <2>5 DEF Waits, both
<1>12. Keeps(w, t, st)
  BY <1>2, <1>3, <1>9, <1>10, <1>11 DEF Keeps
<1>13. Windowed(w)
  BY <1>2, <1>3, <1>9 DEF Windowed
<1> QED BY <1>3, <1>5, <1>6, <1>7, <1>8, <1>12, <1>13 DEF Good

\* The listener of the session's commits.
LEMMA CommitKeeps ==
  ASSUME IInv, c.phase \in {"starting", "on"},
         NEW s \in Sessions, Commit(s, session), NEW isAction \in BOOLEAN, NEW matched \in BOOLEAN,
         isAction => s.action = "applied", ~isAction => s.action = session.action,
         OnCommit(s, isAction, matched), UNCHANGED <<config, stored>>
  PROVE  IInv'
<1>1. /\ config \in Configs /\ session \in Sessions /\ Good(c, session, stored)
      /\ writer \in {"open", "complete", "failed"}
  BY DEF IInv
<1>2. Shaped(c) /\ Typed(c, session) /\ session.revision \in Nat /\ c.frame \in Nat
  BY <1>1 DEF Good, Typed, Sessions
<1>3. /\ StopRun(s) \in Sessions /\ Commit(StopRun(s), session)
      /\ StopRun(s).action = s.action /\ StopRun(s).revision = s.revision
  BY <1>1, Stopping DEF Commit
<1>4. CASE c.phase # "on" \/ c.error
  <2>1. c' = c /\ session' = s /\ writer' = writer
    BY <1>4 DEF OnCommit
  <2>2. Good(c, s, stored)
    BY <1>1, <1>4, CommitIgnored
  <2> QED BY <1>1, <2>1, <2>2, NextState
<1>5. CASE c.phase = "on" /\ ~c.error /\ c.pending
  <2> DEFINE w == [c EXCEPT !.error = TRUE]
             t == StopRun(s)
  <2>1. c' = w /\ session' = t /\ writer' = writer
    BY <1>5 DEF OnCommit
  <2>2. Good(w, t, stored)
    BY <1>1, <1>3, <1>5, CommitUnderHold
  <2> HIDE DEF w, t
  <2>3. t \in Sessions
    BY <1>3 DEF t
  <2> QED BY <1>1, <2>1, <2>2, <2>3, NextState
<1>6. CASE c.phase = "on" /\ ~c.error /\ ~c.pending /\ ~isAction /\ InFlight
  <2> DEFINE w == [c EXCEPT !.buffer = c.buffer \cup {s.revision}]
  <2>1. c' = w /\ session' = s /\ writer' = writer
    BY <1>6 DEF OnCommit, Takes
  <2>2. Good(w, s, stored)
    BY <1>1, <1>6, CommitWaits
  <2> HIDE DEF w
  <2> QED BY <1>1, <2>1, <2>2, NextState
<1>7. CASE c.phase = "on" /\ ~c.error /\ ~c.pending /\ ~(~isAction /\ InFlight)
  <2> DEFINE batch == c.buffer \cup {s.revision}
             v == Begin(c, batch, matched)
             x == [v EXCEPT !.buffer = {}]
             y == [v EXCEPT !.asked = FALSE]
             b == Broken(x)
             t == StopRun(s)
  <2>1. Began(v, c, batch)
    BY <1>2, BeginFields
  <2>2. s.action # "sent"
    BY <1>1, <1>7 DEF InFlight
  <2>3. /\ writer' = writer
        /\ \/ c' = b /\ session' = t
           \/ c' = y /\ session' \in {s, t}
           \/ c' = v /\ session' = s
    BY <1>7 DEF OnCommit, Takes
  <2> HIDE DEF v, t
  <2>4. /\ t \in Sessions /\ Commit(t, session) /\ t.action # "sent"
        /\ t.revision = s.revision
    BY <1>3, <2>2 DEF t
  <2>5. Good(v, s, stored)
    BY <1>1, <1>7, <2>1, <2>2, BeginKeeps
  <2>6. Began(y, c, batch)
    BY <2>1 DEF Began, Shaped
  <2> HIDE DEF y
  <2>7. Good(y, s, stored) /\ Good(y, t, stored)
    <3>1. Good(y, s, stored)
      BY <1>1, <1>7, <2>2, <2>6, BeginKeeps
    <3>2. Began(y, c, c.buffer \cup {t.revision})
      BY <2>4, <2>6
    <3>3. Good(y, t, stored)
      BY <1>1, <1>7, <2>4, <3>2, BeginKeeps
    <3> QED BY <3>1, <3>3
  <2>8. Good(b, t, stored)
    <3>1. /\ Shaped(x) /\ x.phase = c.phase /\ x.frame = c.frame + 1 /\ x.since = c.since
          /\ x.buffer = {}
      BY <2>1 DEF Began, Shaped
    <3> HIDE DEF x
    <3>2. /\ Lapsed(b, c) /\ b.phase = c.phase /\ b.frame = c.frame + 1
      BY <3>1, BrokenFields DEF Lapsed
    <3> HIDE DEF b
    <3>3. t.revision = session.revision + 1
      BY <2>4 DEF Commit
    <3>4. b.frame \in c.frame .. t.revision
      BY <1>2, <3>2, <3>3 DEF Typed
    <3> QED BY <1>1, <1>2, <1>7, <2>4, <3>2, <3>3, <3>4, ErrorKeeps
  <2> HIDE DEF b, y
  <2> QED BY <1>1, <2>3, <2>4, <2>5, <2>7, <2>8, NextState
<1> QED BY <1>4, <1>5, <1>6, <1>7

-----------------------------------------------------------------------------
(* Windows *)

LEMMA SpanFacts ==
  /\ NoSpan \in SpanType
  /\ \A g \in SpanType : g = [from |-> g.from, to |-> g.to] /\ g.from \in Int /\ g.to \in Int
  /\ \A g \in SpanType : g = NoSpan <=> g.from = 0 /\ g.to = -1
BY DEF NoSpan, SpanType

\* Forget moves what is no longer retained to the gap, and nothing else.
LEMMA ForgetKeeps ==
  ASSUME NEW x \in Windows, Split(x), NEW frame \in Nat
  PROVE  LET y == Forget(x, frame)
         IN /\ y \in Windows /\ Split(y) /\ Fresh(y, frame)
            /\ y.to = x.to /\ y.actual.to = x.actual.to /\ y.rest = x.rest
            /\ y.gap = NoSpan => x.gap = NoSpan
            /\ y.state = IF x.state = "complete" /\ y # x THEN "partial" ELSE x.state
            /\ y # x => y.gap # NoSpan
<1> DEFINE first == FirstFrame(frame)
           a == Min({first - 1, x.actual.to})
           b == Max({x.gap.to, a})
           n == Min({first, x.actual.to + 1})
           g == IF x.gap # NoSpan THEN [from |-> x.gap.from, to |-> b]
                ELSE [from |-> x.actual.from, to |-> a]
           z == IF x.state = "complete" THEN "partial" ELSE x.state
           y == [x EXCEPT !.gap = g, !.actual.from = n, !.state = z]
<1>1. Forget(x, frame) = IF x.actual.from > a THEN x ELSE y
  BY DEF Forget
<1>2. /\ x.from \in Nat /\ x.to \in Nat /\ x.actual \in SpanType /\ x.gap \in SpanType
      /\ x.rest \in SpanType /\ x.state \in {"pending", "partial", "complete"}
      /\ x.actual.from \in Int /\ x.actual.to \in Int /\ x.gap.from \in Int /\ x.gap.to \in Int
  BY DEF Windows, SpanType
<1>3. first \in Nat
  BY Retention
<1> HIDE DEF first
<1>4. a \in Int /\ a = IF first - 1 <= x.actual.to THEN first - 1 ELSE x.actual.to
  BY <1>2, <1>3, MinOfTwo
<1>5. n \in Int /\ n = IF first <= x.actual.to + 1 THEN first ELSE x.actual.to + 1
  BY <1>2, <1>3, MinOfTwo
<1>6. b \in Int /\ b = IF x.gap.to >= a THEN x.gap.to ELSE a
  BY <1>2, <1>4, MaxOfTwo
<1>7. CASE x.actual.from > a
  <2>1. Fresh(x, frame)
    <3>1. x.actual.from >= first \/ x.actual.from = x.actual.to + 1
      BY <1>2, <1>3, <1>4, <1>7 DEF Split
    <3> QED BY <3>1 DEF Fresh, first
  <2> QED BY <1>1, <1>7, <2>1
<1>8. CASE ~(x.actual.from > a)
  <2> HIDE DEF a, b, n
  <2>1. n = a + 1 /\ x.from <= a /\ a >= 0 /\ n \in Nat
    BY <1>2, <1>3, <1>4, <1>5, <1>8 DEF Split
  <2>2. g \in SpanType /\ g.from = x.from /\ g.to = a
    <3>1. CASE x.gap = NoSpan
      BY <1>2, <1>4, <3>1 DEF Split, SpanType
    <3>2. CASE x.gap # NoSpan
      <4>1. g = [from |-> x.gap.from, to |-> b]
        BY <3>2
      <4>2. b = a /\ x.gap.from = x.from
        BY <1>2, <1>4, <1>6, <1>8, <3>2 DEF Split
      <4> HIDE DEF g
      <4> QED BY <1>2, <1>6, <4>1, <4>2 DEF SpanType
    <3> QED BY <3>1, <3>2
  <2>3. g # NoSpan
    BY <2>1, <2>2 DEF NoSpan
  <2>4. /\ z \in {"pending", "partial", "complete"}
        /\ z = IF x.state = "complete" THEN "partial" ELSE x.state
    BY <1>2
  <2> HIDE DEF g, z
  <2>5. /\ y \in Windows /\ y.gap = g /\ y.state = z /\ y.actual \in SpanType
        /\ y.actual.from = n /\ y.actual.to = x.actual.to /\ y.from = x.from /\ y.to = x.to
        /\ y.rest = x.rest
    BY <1>2, <1>5, <2>2, <2>4 DEF Windows, SpanType
  <2> HIDE DEF y
  <2>6. Split(y)
    BY <1>2, <1>4, <2>1, <2>2, <2>3, <2>5 DEF Split
  <2>7. Fresh(y, frame)
    <3>1. y.actual.from >= first \/ y.actual.from = y.actual.to + 1
      BY <1>2, <1>3, <1>5, <2>5
    <3> QED BY <3>1 DEF Fresh, first
  <2>8. y # x
    <3>1. y.actual.from = a + 1 /\ x.actual.from <= a
      BY <1>2, <1>4, <1>8, <2>1, <2>5
    <3> QED BY <1>4, <3>1, <1>2
  <2> QED BY <1>1, <1>8, <2>3, <2>4, <2>5, <2>6, <2>7, <2>8
<1> QED BY <1>7, <1>8

\* A window in the making takes the frame in; one that is done stays as it is.
LEMMA ExtendKeeps ==
  ASSUME NEW x \in Windows, Split(x), NEW frame \in Nat, Fresh(x, frame), x.rest = NoSpan,
         x.state = "pending" => /\ x.actual.to \in {frame - 1, frame} /\ x.actual.to < x.to,
         x.state # "pending" => x.actual.to = x.to /\ x.to <= frame,
         x.state = "complete" <=> (x.gap = NoSpan /\ x.actual.to = x.to)
  PROVE  LET y == Extend(x, frame)
         IN y \in Windows /\ Split(y) /\ Fresh(y, frame) /\ Grown(y, frame) /\ y.rest = NoSpan
<1>1. /\ x.from \in Nat /\ x.to \in Nat /\ x.actual \in SpanType /\ x.gap \in SpanType
      /\ x.rest \in SpanType /\ x.state \in {"pending", "partial", "complete"}
      /\ x.actual.from \in Int /\ x.actual.to \in Int
  BY DEF Windows, SpanType
<1>2. CASE x.state # "pending"
  BY <1>1, <1>2 DEF Extend, Grown
<1>3. CASE x.state = "pending"
  <2> DEFINE a == Min({frame, x.to})
             z == IF frame < x.to THEN x.state ELSE IF x.gap # NoSpan THEN "partial" ELSE "complete"
             y == [x EXCEPT !.actual.to = a, !.state = z]
  <2>1. Extend(x, frame) = y
    BY <1>3 DEF Extend
  <2>2. a = frame /\ frame <= x.to
    <3>1. frame <= x.to
      BY <1>1, <1>3
    <3>2. Min({frame, x.to}) = frame
      BY <1>1, <3>1, MinOfTwo
    <3> QED BY <3>1, <3>2
  <2>3. z \in {"pending", "partial", "complete"}
    BY <1>1
  <2>4. /\ z = "pending" <=> frame < x.to
        /\ z = "complete" <=> (~(frame < x.to) /\ x.gap = NoSpan)
    BY <1>3
  <2> HIDE DEF a, z
  <2> DEFINE ac == [x.actual EXCEPT !.to = a]
  <2>5. /\ ac \in SpanType /\ ac.to = frame /\ ac.from = x.actual.from
    BY <1>1, <2>2 DEF SpanType
  <2>6. y = [x EXCEPT !.actual = ac, !.state = z]
    OBVIOUS
  <2> HIDE DEF ac, y
  <2>7. /\ y \in Windows /\ y.state = z /\ y.actual = ac /\ y.gap = x.gap
        /\ y.from = x.from /\ y.to = x.to /\ y.rest = x.rest
    BY <2>3, <2>5, <2>6 DEF Windows
  <2>8. Split(y)
    BY <1>1, <1>3, <2>2, <2>7, <2>5 DEF Split
  <2>9. Fresh(y, frame)
    <3>1. FirstFrame(frame) \in 0 .. frame
      BY Retention
    <3>2. x.actual.from >= FirstFrame(frame)
      <4> DEFINE first == FirstFrame(frame)
      <4>1. first \in 0 .. frame /\ (x.actual.from >= first \/ x.actual.from = x.actual.to + 1)
        BY <3>1 DEF Fresh
      <4> HIDE DEF first
      <4>2. x.actual.from >= first \/ x.actual.from >= frame
        BY <1>1, <1>3, <4>1
      <4>3. x.actual.from >= first
        BY <1>1, <4>1, <4>2
      <4> QED BY <4>3 DEF first
    <3> QED BY <2>7, <2>5, <3>2 DEF Fresh
  <2>10. Grown(y, frame)
    BY <1>1, <2>2, <2>3, <2>4, <2>7, <2>5 DEF Grown
  <2> QED BY <2>1, <2>7, <2>8, <2>9, <2>10 DEF y
<1> QED BY <1>2, <1>3

\* A new window at this frame.
LEMMA NewWindowIs ==
  ASSUME NEW frame \in Nat
  PROVE  LET x == NewWindow(frame)
         IN /\ x \in Windows /\ Split(x) /\ Fresh(x, frame) /\ Grown(x, frame)
            /\ x.rest = NoSpan
<1> DEFINE from == Max({0, frame - Before})
           first == FirstFrame(frame)
           gap == IF from < first THEN [from |-> from, to |-> first - 1] ELSE NoSpan
           begin == Max({first, from})
           actual == [from |-> begin, to |-> frame]
           end == frame + After
           state == IF After > 0 THEN "pending" ELSE IF gap # NoSpan THEN "partial" ELSE "complete"
           x == [frame |-> frame, from |-> from, to |-> end, actual |-> actual,
                 gap |-> gap, rest |-> NoSpan, state |-> state]
<1>1. NewWindow(frame) = x
  BY DEF NewWindow
<1>2. Before \in Nat /\ After \in Nat
  BY ConfigAssumption
<1>3. first \in 0 .. frame
  BY Retention
<1> HIDE DEF first
<1>4. from \in 0 .. frame
  <2>1. from = IF 0 >= frame - Before THEN 0 ELSE frame - Before
    BY <1>2, MaxOfTwo
  <2> HIDE DEF from
  <2> QED BY <1>2, <2>1
<1> HIDE DEF from
<1>5. begin \in 0 .. frame /\ begin >= first /\ begin >= from /\ (begin = first \/ begin = from)
  <2>1. begin = IF first >= from THEN first ELSE from
    BY <1>3, <1>4, MaxOfTwo
  <2> HIDE DEF begin
  <2> QED BY <1>3, <1>4, <2>1
<1> HIDE DEF begin
<1>6. /\ end \in Nat /\ end >= frame /\ (After > 0 => frame < end)
      /\ (~(After > 0) => end = frame)
  BY <1>2
<1> HIDE DEF end
<1>7. /\ gap \in SpanType
      /\ IF gap = NoSpan THEN begin = from
         ELSE gap.from = from /\ gap.to = begin - 1 /\ gap.from <= gap.to
  <2>1. CASE from < first
    <3>1. gap = [from |-> from, to |-> first - 1]
      BY <2>1
    <3> HIDE DEF gap
    <3>2. gap \in SpanType /\ gap.from = from /\ gap.to = first - 1
      BY <1>3, <1>4, <3>1 DEF SpanType
    <3>3. gap # NoSpan
      BY <1>3, <1>4, <2>1, <3>2 DEF NoSpan
    <3>4. begin = first
      BY <1>3, <1>4, <1>5, <2>1
    <3> QED BY <1>3, <1>4, <2>1, <3>2, <3>3, <3>4
  <2>2. CASE ~(from < first)
    <3>1. gap = NoSpan
      BY <2>2
    <3>2. begin = from
      BY <1>3, <1>4, <1>5, <2>2
    <3> QED BY <3>1, <3>2, SpanFacts
  <2> QED BY <2>1, <2>2
<1>8. actual \in SpanType /\ actual.from = begin /\ actual.to = frame
  BY <1>5 DEF SpanType
<1>9. /\ state \in {"pending", "partial", "complete"}
      /\ state = "pending" <=> After > 0
      /\ state = "complete" <=> (~(After > 0) /\ gap = NoSpan)
  OBVIOUS
<1> HIDE DEF gap, actual, state
<1>10. /\ x \in Windows /\ x.from = from /\ x.to = end /\ x.actual = actual /\ x.gap = gap
       /\ x.rest = NoSpan /\ x.state = state
  BY <1>4, <1>6, <1>7, <1>8, <1>9, SpanFacts DEF Windows
<1> HIDE DEF x
<1>11. Split(x)
  BY <1>3, <1>4, <1>5, <1>6, <1>7, <1>8, <1>10 DEF Split
<1>12. Fresh(x, frame)
  BY <1>5, <1>8, <1>10 DEF Fresh, first
<1>13. Grown(x, frame)
  BY <1>2, <1>6, <1>8, <1>9, <1>10 DEF Grown
<1> QED BY <1>1, <1>10, <1>11, <1>12, <1>13

\* The windows at the end of a frame, from those of the frame before.
LEMMA WindowsGrow ==
  ASSUME NEW v, NEW frame \in Nat, v.frame = frame, v.triggered \in BOOLEAN,
         v.windows \in Seq(Windows), NEW seen \in {frame - 1, frame},
         \A i \in 1 .. Len(v.windows) :
           /\ Split(v.windows[i]) /\ Grown(v.windows[i], seen)
           /\ v.windows[i].rest = NoSpan
  PROVE  LET ws == WindowsAt(v)
         IN /\ ws \in Seq(Windows)
            /\ Len(ws) = Len(v.windows) + (IF v.triggered THEN 1 ELSE 0)
            /\ \A i \in 1 .. Len(ws) :
                 Split(ws[i]) /\ Fresh(ws[i], frame) /\ Grown(ws[i], frame) /\ ws[i].rest = NoSpan
<1> DEFINE new == NewWindow(frame)
           all == IF v.triggered THEN Append(v.windows, new) ELSE v.windows
           W(x) == Extend(Forget(x, frame), frame)
           ws == [i \in DOMAIN all |-> W(all[i])]
<1>1. WindowsAt(v) = ws
  BY DEF WindowsAt
<1>2. new \in Windows /\ Split(new) /\ Grown(new, frame) /\ new.rest = NoSpan
  BY NewWindowIs
<1> HIDE DEF new
<1>3. all \in Seq(Windows) /\ Len(all) = Len(v.windows) + (IF v.triggered THEN 1 ELSE 0)
  <2>1. CASE v.triggered
    BY <1>2, <2>1
  <2>2. CASE ~v.triggered
    BY <2>2
  <2> QED BY <2>1, <2>2
<1>4. ASSUME NEW i \in 1 .. Len(all)
      PROVE  /\ all[i] \in Windows /\ Split(all[i]) /\ all[i].rest = NoSpan
             /\ Grown(all[i], frame - 1) \/ Grown(all[i], frame)
  <2>1. CASE v.triggered
    <3>1. all = Append(v.windows, new) /\ Len(v.windows) \in Nat
      BY <2>1
    <3>2. CASE i = Len(v.windows) + 1
      BY <1>2, <3>1, <3>2
    <3>3. CASE i \in 1 .. Len(v.windows)
      <4>1. all[i] = v.windows[i] /\ v.windows[i] \in Windows
        BY <3>1, <3>3
      <4> QED BY <3>3, <4>1
    <3>4. Len(all) = Len(v.windows) + 1
      BY <2>1, <1>3
    <3> QED BY <3>1, <3>2, <3>3, <3>4
  <2>2. CASE ~v.triggered
    <3>1. all = v.windows
      BY <2>2
    <3> HIDE DEF all
    <3>2. v.windows[i] \in Windows
      BY <3>1
    <3> QED BY <3>1, <3>2
  <2> QED BY <2>1, <2>2
<1>5. ASSUME NEW x \in Windows, Split(x), x.rest = NoSpan,
             Grown(x, frame - 1) \/ Grown(x, frame)
      PROVE  /\ W(x) \in Windows /\ Split(W(x)) /\ Fresh(W(x), frame) /\ Grown(W(x), frame)
             /\ W(x).rest = NoSpan
  <2> DEFINE y == Forget(x, frame)
  <2>1. /\ y \in Windows /\ Split(y) /\ Fresh(y, frame)
        /\ y.to = x.to /\ y.actual.to = x.actual.to /\ y.rest = x.rest
        /\ y.gap = NoSpan => x.gap = NoSpan
        /\ y.state = IF x.state = "complete" /\ y # x THEN "partial" ELSE x.state
        /\ y # x => y.gap # NoSpan
    BY <1>5, ForgetKeeps
  <2> HIDE DEF y
  <2>2. /\ x.to \in Nat /\ x.actual.to \in Int /\ x.state \in {"pending", "partial", "complete"}
    BY DEF Windows, SpanType
  <2>3. x.rest.from = 0
    BY <1>5 DEF NoSpan
  <2>4. /\ x.state = "pending" => x.actual.to \in {frame - 1, frame} /\ x.actual.to < x.to
        /\ x.state # "pending" => x.actual.to = x.to /\ x.to <= frame
        /\ x.state = "complete" <=> (x.gap = NoSpan /\ x.actual.to = x.to)
    <3>1. x.rest.from = 0 /\ x.rest.to = -1
      BY <1>5 DEF NoSpan
    <3>2. CASE Grown(x, frame)
      BY <2>2, <3>1, <3>2 DEF Grown
    <3>3. CASE Grown(x, frame - 1)
      BY <2>2, <3>1, <3>3 DEF Grown
    <3> QED BY <1>5, <3>2, <3>3
  <2>5. /\ y.state = "pending" => y.actual.to \in {frame - 1, frame} /\ y.actual.to < y.to
        /\ y.state # "pending" => y.actual.to = y.to /\ y.to <= frame
        /\ y.state = "complete" <=> (y.gap = NoSpan /\ y.actual.to = y.to)
    <3>1. CASE y = x
      BY <2>4, <3>1
    <3>2. CASE y # x
      BY <2>1, <2>2, <2>4, <3>2
    <3> QED BY <3>1, <3>2
  <2>6. y.rest = NoSpan
    BY <1>5, <2>1
  <2>7. LET z == Extend(y, frame)
        IN z \in Windows /\ Split(z) /\ Fresh(z, frame) /\ Grown(z, frame) /\ z.rest = NoSpan
    BY <2>1, <2>5, <2>6, ExtendKeeps
  <2> QED BY <2>7 DEF y
<1> HIDE DEF all, W
<1>6. DOMAIN all = 1 .. Len(all) /\ Len(all) \in Nat
  <2>1. all \in Seq(Windows)
    BY <1>3
  <2> QED BY <2>1
<1>7. \A i \in 1 .. Len(all) :
        /\ W(all[i]) \in Windows /\ Split(W(all[i])) /\ Fresh(W(all[i]), frame)
        /\ Grown(W(all[i]), frame) /\ W(all[i]).rest = NoSpan
  BY <1>4, <1>5
<1>8. ws \in Seq(Windows) /\ Len(ws) = Len(all) /\ \A i \in 1 .. Len(all) : ws[i] = W(all[i])
  BY <1>6, <1>7
<1> HIDE DEF ws
<1> QED BY <1>1, <1>3, <1>7, <1>8

-----------------------------------------------------------------------------
(* Steps of the session, and the end of a capture *)

\* The session goes on without a commit.
LEMMA SessionKeeps ==
  ASSUME NEW v, NEW s, NEW st, Good(v, s, st),
         NEW t, t.revision = s.revision, v.pending => t.action # "sent"
  PROVE  Good(v, t, st)
BY DEF Good, Typed, Held, Keeps, InOrder, Waits

\* Checkpoints are apart from the rest of the collection.
LEMMA CheckpointsApart ==
  ASSUME NEW v, NEW s, NEW st, Good(v, s, st), NEW w, Shaped(w),
         w.phase = v.phase, w.job = v.job, w.error \in BOOLEAN, w.error <=> v.error,
         w.pending \in BOOLEAN, w.pending <=> v.pending,
         w.triggered \in BOOLEAN, w.triggered <=> v.triggered,
         w.frame = v.frame, w.since = v.since, w.buffer = v.buffer, w.batch = v.batch,
         w.draft = v.draft, w.windows = v.windows
  PROVE  Good(w, s, st)
<1> USE DEF Good
<1>1. Typed(w, s)
  BY DEF Typed
<1>2. Phased(w) /\ Held(w, s)
  BY DEF Phased, Held
<1>3. Stored(w, st)
  BY DEF Stored
<1>4. Newest(w) = Newest(v) /\ Seen(w) = Seen(v)
  BY DEF Newest, Seen
<1>5. \A f : Last(w, st, f) = Last(v, st, f)
  BY DEF Last
<1>6. Keeps(w, s, st)
  BY <1>4, <1>5 DEF Keeps, InOrder, Complete, Waits
<1>7. Windowed(w)
  BY <1>4 DEF Windowed
<1> QED BY <1>1, <1>2, <1>3, <1>6, <1>7

\* The frame has its scene, and the windows have the frame.
LEMMA CaptureKeeps ==
  ASSUME NEW v, NEW s \in Sessions, NEW st, Good(v, s, st), v.job = "capture", ~v.error,
         NEW kept
  PROVE  Good([v EXCEPT !.job = "append", !.windows = WindowsAt(v),
                        !.draft = [messages |-> v.batch, scene |-> s.revision, bytes |-> kept]],
              s, st)
<1> DEFINE ws == WindowsAt(v)
           d == [messages |-> v.batch, scene |-> s.revision, bytes |-> kept]
           w == [v EXCEPT !.job = "append", !.windows = ws, !.draft = d]
<1>1. /\ Shaped(v) /\ Typed(v, s) /\ Phased(v) /\ Held(v, s) /\ Stored(v, st)
      /\ Keeps(v, s, st) /\ Windowed(v)
  BY DEF Good
<1>2. d.messages = v.batch /\ d.scene = s.revision
  OBVIOUS
<1> HIDE DEF ws, d
<1>3. /\ Shaped(w) /\ w.job = "append" /\ w.windows = ws /\ w.draft = d /\ w.phase = v.phase
      /\ w.pending = v.pending /\ w.triggered = v.triggered /\ w.error = v.error
      /\ w.frame = v.frame /\ w.since = v.since /\ w.buffer = v.buffer /\ w.batch = v.batch
  BY <1>1 DEF Shaped
<1> HIDE DEF w
<1>4. s.revision \in 0 .. MaxCommits /\ v.frame \in Nat /\ v.triggered \in BOOLEAN
  BY <1>1 DEF Sessions, Typed
<1>5. v.phase \in {"starting", "on"} /\ (v.phase = "on" => v.frame > 0)
  BY <1>1 DEF Typed, Phased
<1>6. Typed(w, s)
  BY <1>1, <1>3 DEF Typed
<1>7. Phased(w)
  BY <1>1, <1>3 DEF Phased
<1>8. Held(w, s)
  BY <1>1, <1>3 DEF Held
<1>9. v.phase = "on" => s.revision \in v.batch /\ \A m \in v.batch : m <= s.revision
  <2> SUFFICES ASSUME v.phase = "on"
               PROVE  s.revision \in v.batch /\ \A m \in v.batch : m <= s.revision
    OBVIOUS
  <2>1. Waits(v, s, st)
    BY <1>1 DEF Keeps
  <2>2. v.batch = (Last(v, st, Newest(v)) + 1) .. s.revision /\ s.revision \in v.batch
    BY <2>1 DEF Waits
  <2>3. Last(v, st, Newest(v)) \in 0 .. s.revision
    BY NewestIs
  <2> QED BY <1>4, <2>2, <2>3
<1>10. Stored(w, st)
  <2>1. FrameType(d)
    BY <1>1, <1>2, <1>4 DEF FrameType, Typed
  <2>2. v.phase = "on" => Shows(d)
    BY <1>2, <1>9 DEF Shows
  <2>3. v.phase = "starting" => d.messages = {}
    BY <1>1, <1>2 DEF Phased
  <2> QED BY <1>1, <1>3, <2>1, <2>2, <2>3 DEF Stored
<1>11. Newest(w) = Newest(v)
  BY <1>3 DEF Newest
<1>12. /\ \A f : Last(w, st, f) = Last(v, st, f)
       /\ InOrder(v, s, st) => InOrder(w, s, st)
       /\ \A lo : Complete(v, st, lo) => Complete(w, st, lo)
  BY <1>3, <1>4, <1>11, SameFrames
<1>13. Waits(v, s, st) => Waits(w, s, st)
  BY <1>2, <1>3, <1>11, <1>12 DEF Waits
<1>14. Keeps(w, s, st)
  BY <1>1, <1>3, <1>11, <1>12, <1>13 DEF Keeps
<1>15. Windowed(w)
  <2>1. /\ v.windows \in Seq(Windows)
        /\ v.phase = "starting" => Len(v.windows) = 0
        /\ \A i \in 1 .. Len(v.windows) :
             LET x == v.windows[i]
             IN Split(x) /\ Fresh(x, Seen(v)) /\ Grown(x, Seen(v))
                /\ (v.phase = "on" => x.rest = NoSpan)
    BY <1>1 DEF Windowed
  <2>2. CASE v.phase = "on"
    <3>1. Seen(v) = v.frame - 1 /\ Seen(w) = v.frame
      BY <1>3, <2>2 DEF Seen
    <3>2. \A i \in 1 .. Len(v.windows) :
            /\ Split(v.windows[i]) /\ Grown(v.windows[i], v.frame - 1)
            /\ v.windows[i].rest = NoSpan
      BY <2>1, <2>2, <3>1
    <3>3. /\ ws \in Seq(Windows)
          /\ \A i \in 1 .. Len(ws) :
               /\ Split(ws[i]) /\ Fresh(ws[i], v.frame) /\ Grown(ws[i], v.frame)
               /\ ws[i].rest = NoSpan
      BY <1>4, <2>1, <3>2, WindowsGrow DEF ws
    <3> QED BY <1>3, <2>2, <3>1, <3>3 DEF Windowed
  <2>3. CASE v.phase = "starting"
    <3>1. Len(v.windows) = 0 /\ ~v.triggered
      BY <1>1, <2>1, <2>3 DEF Phased
    <3>2. \A i \in 1 .. Len(v.windows) :
            /\ Split(v.windows[i]) /\ Grown(v.windows[i], v.frame - 1)
            /\ v.windows[i].rest = NoSpan
      BY <3>1
    <3>3. /\ ws \in Seq(Windows)
          /\ Len(ws) = Len(v.windows) + (IF v.triggered THEN 1 ELSE 0)
      BY <1>4, <2>1, <3>2, WindowsGrow DEF ws
    <3>4. Len(ws) = 0
      BY <3>1, <3>3
    <3>5. \A i : i \notin 1 .. Len(w.windows)
      BY <1>3, <3>4
    <3>6. w.windows \in Seq(Windows) /\ Len(w.windows) = 0
      BY <1>3, <3>3, <3>4
    <3> QED BY <3>5, <3>6 DEF Windowed
  <2> QED BY <1>5, <2>2, <2>3
<1>16. Good(w, s, st)
  BY <1>3, <1>6, <1>7, <1>8, <1>10, <1>14, <1>15 DEF Good
<1> QED BY <1>16 DEF w, ws, d

LEMMA CapturedKeeps ==
  ASSUME IInv, Captured
  PROVE  IInv'
<1>1. /\ config \in Configs /\ session \in Sessions /\ Good(c, session, stored)
      /\ writer \in {"open", "complete", "failed"}
  BY DEF IInv
<1>2. /\ c.job = "capture" /\ ~InFlight /\ UNCHANGED <<config, stored>>
  BY DEF Captured
<1>3. Shaped(c) /\ Typed(c, session) /\ Phased(c)
  BY <1>1 DEF Good
<1>4. c.phase \in {"starting", "on"}
  BY <1>2, <1>3 DEF Phased, Typed
<1>5. PICK bytes \in IF c.asked /\ session.open THEN Sizes ELSE {0} :
        LET over == bytes > 0 /\ TooLarge(c, bytes)
            kept == IF over THEN 0 ELSE bytes
            v == IF kept > 0 THEN Retain(c, kept) ELSE c
            s == IF over /\ config.overflow = "stop" THEN StopRun(session) ELSE session
        IN IF Refused(over) THEN Fail(s)
             ELSE /\ c' = [v EXCEPT !.job = "append", !.windows = WindowsAt(v),
                                    !.draft = [messages |-> c.batch, scene |-> session.revision,
                                               bytes |-> kept]]
                  /\ session' = s
                  /\ UNCHANGED writer
  BY DEF Captured
<1> DEFINE over == bytes > 0 /\ TooLarge(c, bytes)
           kept == IF over THEN 0 ELSE bytes
           v == IF kept > 0 THEN Retain(c, kept) ELSE c
           s == IF over /\ config.overflow = "stop" THEN StopRun(session) ELSE session
           w == [v EXCEPT !.job = "append", !.windows = WindowsAt(v),
                          !.draft = [messages |-> v.batch, scene |-> session.revision,
                                     bytes |-> kept]]
<1>6. /\ s \in Sessions /\ s.revision = session.revision /\ s.action = session.action
  BY <1>1, Stopping
<1>7. CASE Refused(over)
  <2>1. Fail(s)
    BY <1>5, <1>7
  <2> HIDE DEF s
  <2> QED BY <1>2, <1>4, <1>6, <2>1, FailKeeps
<1>8. CASE ~Refused(over)
  <2>1. ~c.error
    BY <1>8 DEF Refused
  <2>2. Good(v, session, stored) /\ v.job = "capture" /\ ~v.error /\ v.batch = c.batch
    <3> HIDE DEF over, kept
    <3> DEFINE a == c.count + 1
               b == c.bytes + kept
               d == c.checkpoints \cup {[frame |-> c.frame, bytes |-> kept]}
               r == [c EXCEPT !.count = a, !.bytes = b, !.checkpoints = d]
    <3>1. Retain(c, kept) = r
      BY DEF Retain
    <3> HIDE DEF a, b, d
    <3>2. /\ Shaped(r) /\ r.phase = c.phase /\ r.job = c.job /\ r.error = c.error
          /\ r.pending = c.pending /\ r.triggered = c.triggered /\ r.frame = c.frame
          /\ r.since = c.since /\ r.buffer = c.buffer /\ r.batch = c.batch
          /\ r.draft = c.draft /\ r.windows = c.windows
      BY <1>3 DEF Shaped
    <3> HIDE DEF r
    <3>3. r.error \in BOOLEAN /\ r.pending \in BOOLEAN /\ r.triggered \in BOOLEAN
      BY <1>3, <3>2 DEF Typed
    <3>4. Good(r, session, stored)
      BY <1>1, <3>2, <3>3, CheckpointsApart
    <3> QED BY <1>1, <1>2, <2>1, <3>1, <3>2, <3>4
  <2>3. c' = w /\ session' = s /\ writer' = writer
    <3> HIDE DEF Refused
    <3>1. /\ c' = [v EXCEPT !.job = "append", !.windows = WindowsAt(v),
                            !.draft = [messages |-> c.batch, scene |-> session.revision,
                                       bytes |-> kept]]
          /\ session' = s /\ writer' = writer
      BY <1>5, <1>8
    <3> HIDE DEF v, s, kept
    <3> QED BY <2>2, <3>1
  <2> HIDE DEF v, s, kept
  <2>4. Good(w, session, stored)
    BY <1>1, <2>1, <2>2, CaptureKeeps
  <2> HIDE DEF w
  <2>5. Good(w, s, stored)
    <3>1. s.action # "sent"
      BY <1>2, <1>6 DEF InFlight
    <3> QED BY <1>6, <2>4, <3>1, SessionKeeps
  <2> QED BY <1>1, <1>2, <1>6, <2>3, <2>5, NextState
<1> QED BY <1>7, <1>8

-----------------------------------------------------------------------------
(* The store *)

\* The frame goes to the store.
With(st, n, x) == [f \in DOMAIN st \cup {n} |-> IF f = n THEN x ELSE st[f]]

\* The first frame is stored: the collection listens from here on.
LEMMA FirstFrameKeeps ==
  ASSUME NEW v, NEW s \in Sessions, NEW st, Good(v, s, st),
         v.phase = "starting", v.job = "append",
         NEW w, Shaped(w), w.phase = "on", w.job = "none", ~w.pending, w.pending \in BOOLEAN,
         w.triggered \in BOOLEAN, ~w.error, w.error \in BOOLEAN, w.frame = v.frame,
         w.since = s.revision, w.buffer = v.buffer, w.batch = {}, w.windows = v.windows,
         NEW t \in Sessions, t.revision = s.revision
  PROVE  Good(w, t, With(st, v.frame, v.draft))
<1> DEFINE new == With(st, 0, v.draft)
<1>1. /\ Shaped(v) /\ Typed(v, s) /\ Phased(v) /\ Stored(v, st) /\ Windowed(v)
  BY DEF Good
<1>2. /\ v.frame = 0 /\ v.buffer = {} /\ v.draft.messages = {} /\ ~v.error
      /\ FrameType(v.draft) /\ DOMAIN st = {}
  BY <1>1 DEF Phased, Stored
<1>3. DOMAIN new = {0} /\ new[0] = v.draft
  BY <1>2 DEF With
<1> HIDE DEF new
<1>4. s.revision \in 0 .. MaxCommits /\ t.revision \in 0 .. MaxCommits
  BY DEF Sessions
<1>5. Typed(w, t)
  BY <1>1, <1>2, <1>4 DEF Typed
<1>6. Phased(w) /\ Held(w, t)
  BY DEF Phased, Held
<1>7. Stored(w, new)
  BY <1>2, <1>3 DEF Stored
<1>8. Newest(w) = 0 /\ Last(w, new, 0) = s.revision
  BY <1>2 DEF Newest, Last
<1>9. Complete(w, new, 0)
  BY <1>4, <1>8 DEF Complete
<1>10. InOrder(w, t, new)
  BY <1>2, <1>3, <1>4, <1>8 DEF InOrder
<1>11. Waits(w, t, new)
  <2>1. (s.revision + 1) .. t.revision = {}
    BY <1>4
  <2> QED BY <1>2, <1>8, <2>1 DEF Waits
<1>12. Keeps(w, t, new)
  <2>1. 0 \in 0 .. FirstFrame(Newest(w))
    <3> DEFINE first == FirstFrame(Newest(w))
    <3>1. first \in Nat
      BY <1>8, Retention
    <3> HIDE DEF first
    <3>2. 0 \in 0 .. first
      BY <3>1
    <3> QED BY <3>2 DEF first
  <2>2. DOMAIN new = 0 .. Newest(w)
    BY <1>3, <1>8
  <2> QED BY <1>9, <1>10, <1>11, <2>1, <2>2 DEF Keeps
<1>13. Windowed(w)
  <2>1. v.windows \in Seq(Windows) /\ Len(v.windows) = 0
    BY <1>1, <1>2 DEF Windowed
  <2>2. \A i : i \notin 1 .. Len(w.windows)
    BY <2>1
  <2> QED BY <2>1, <2>2 DEF Windowed
<1> QED BY <1>2, <1>5, <1>6, <1>7, <1>12, <1>13 DEF Good, new

\* A frame of the run is stored. It holds what waited, and nothing waits any more.
LEMMA NextFrameKeeps ==
  ASSUME NEW v, NEW s \in Sessions, NEW st, Good(v, s, st),
         v.phase = "on", v.job = "append",
         NEW w, Shaped(w), w.phase = "on", w.job \in {"none", "collect"},
         w.pending \in BOOLEAN, w.pending <=> w.job = "collect",
         w.triggered \in BOOLEAN, w.error \in BOOLEAN, w.error <=> v.error, w.frame = v.frame,
         w.since = v.since, w.buffer = v.buffer, w.batch \subseteq Commits,
         w.job = "none" => w.batch = {}, w.windows = v.windows
  PROVE  Good(w, s, With(st, v.frame, v.draft))
<1> DEFINE n == v.frame
           new == With(st, n, v.draft)
<1>1. /\ Shaped(v) /\ Typed(v, s) /\ Phased(v) /\ Held(v, s) /\ Stored(v, st)
      /\ Keeps(v, s, st) /\ Windowed(v)
  BY DEF Good
<1>2. /\ DOMAIN new = DOMAIN st \cup {n} /\ new[n] = v.draft
      /\ \A f \in DOMAIN st : f # n => new[f] = st[f]
  BY DEF With
<1> HIDE DEF new
<1>3. s.revision \in 0 .. MaxCommits /\ n \in 0 .. s.revision /\ n > 0 /\ v.pending
  BY <1>1 DEF Sessions, Typed, Phased
<1>4. Typed(w, s)
  BY <1>1 DEF Typed
<1>5. Phased(w) /\ Held(w, s)
  BY <1>1, <1>3 DEF Phased, Held
<1>6. Stored(w, new)
  <2>1. FrameType(v.draft) /\ Shows(v.draft)
    BY <1>1 DEF Stored
  <2>2. /\ DOMAIN st \subseteq 0 .. n
        /\ \A f \in DOMAIN st : FrameType(st[f]) /\ (f # 0 => Shows(st[f]))
    BY <1>1 DEF Stored
  <2>3. DOMAIN new \subseteq 0 .. n
    BY <1>2, <1>3, <2>2
  <2>4. \A f \in DOMAIN new : FrameType(new[f]) /\ (f # 0 => Shows(new[f]))
    BY <1>2, <2>1, <2>2
  <2> QED BY <2>3, <2>4 DEF Stored
<1>7. Keeps(w, s, new)
  <2> SUFFICES ASSUME ~v.error
               PROVE  Keeps(w, s, new)
    BY DEF Keeps
  <2>1. Newest(v) = n - 1 /\ Newest(w) = n
    BY DEF Newest
  <2>2. InOrder(v, s, st) /\ Waits(v, s, st)
    BY <1>1 DEF Keeps
  <2>3. PICK lo \in 0 .. FirstFrame(n - 1) : DOMAIN st = lo .. n - 1 /\ Complete(v, st, lo)
    BY <1>1, <2>1 DEF Keeps
  <2>4. n - 1 \in Nat /\ lo \in 0 .. FirstFrame(n) /\ lo \in 0 .. n - 1
    <3> DEFINE p == n - 1
               a == FirstFrame(p)
               b == FirstFrame(n)
    <3>1. p \in Nat /\ p + 1 = n
      BY <1>3
    <3> HIDE DEF p
    <3>2. a \in 0 .. p /\ a <= b /\ b \in 0 .. n
      BY <1>3, <3>1, Retention
    <3>3. lo \in 0 .. a
      BY <2>3 DEF p
    <3> HIDE DEF a, b
    <3>4. lo \in 0 .. b /\ lo \in 0 .. p
      BY <3>1, <3>2, <3>3
    <3> QED BY <3>1, <3>4 DEF p, b
  <2>5. DOMAIN new = lo .. n
    BY <1>2, <1>3, <2>3, <2>4
  <2>6. /\ \A f \in DOMAIN st : f < n /\ new[f] = st[f] /\ Last(w, new, f) = Last(v, st, f)
        /\ Last(w, new, n) = s.revision /\ new[n].messages = v.batch
    <3>1. \A f \in DOMAIN st : f < n /\ f # n
      BY <1>3, <2>3, <2>4
    <3>2. \A f \in DOMAIN st : new[f] = st[f]
      BY <1>2, <3>1
    <3>3. v.draft.scene = s.revision /\ v.draft.messages = v.batch
      BY <2>2 DEF Waits
    <3> QED BY <1>2, <1>3, <3>1, <3>2, <3>3 DEF Last
  <2>7. n - 1 \in DOMAIN st /\ Last(v, st, n - 1) \in 0 .. s.revision
    BY <2>1, NewestIs
  <2>8. v.batch = (Last(v, st, n - 1) + 1) .. s.revision /\ v.buffer = {}
    BY <2>1, <2>2 DEF Waits
  <2>9. InOrder(w, s, new)
    <3>1. ASSUME NEW f \in DOMAIN new
          PROVE  /\ Last(w, new, f) \in 0 .. s.revision
                 /\ \A m \in new[f].messages : m <= Last(w, new, f)
      <4>1. CASE f = n
        BY <1>3, <2>6, <2>7, <2>8, <4>1
      <4>2. CASE f \in DOMAIN st
        BY <2>2, <2>6, <4>2 DEF InOrder
      <4> QED BY <1>2, <4>1, <4>2
    <3>2. ASSUME NEW f \in DOMAIN new, NEW g \in DOMAIN new, f < g
          PROVE  /\ Last(w, new, f) <= Last(w, new, g)
                 /\ \A m \in new[g].messages : m > Last(w, new, f)
      <4>1. f \in DOMAIN st
        BY <1>3, <2>3, <2>4, <2>5, <3>2
      <4>2. CASE g \in DOMAIN st
        BY <2>2, <2>6, <3>2, <4>1, <4>2 DEF InOrder
      <4>3. CASE g = n
        <5>1. Last(v, st, f) \in 0 .. s.revision /\ Last(v, st, f) <= Last(v, st, n - 1)
          <6>1. CASE f = n - 1
            BY <2>7, <6>1
          <6>2. CASE f < n - 1
            BY <2>2, <2>7, <4>1, <6>2 DEF InOrder
          <6>3. f = n - 1 \/ f < n - 1
            BY <1>3, <2>3, <2>4, <4>1
          <6> QED BY <6>1, <6>2, <6>3
        <5> QED BY <1>3, <2>6, <2>7, <2>8, <4>1, <4>3, <5>1
      <4> QED BY <1>2, <4>2, <4>3
    <3> QED BY <3>1, <3>2 DEF InOrder
  <2>10. Complete(w, new, lo)
    <3> SUFFICES ASSUME NEW m \in (Last(w, new, lo) + 1) .. Last(w, new, n)
                 PROVE  \E f \in DOMAIN new : m \in new[f].messages
      BY <2>1 DEF Complete
    <3>1. lo \in DOMAIN st /\ Last(w, new, lo) = Last(v, st, lo)
      BY <1>3, <2>3, <2>4, <2>6
    <3>2. Last(v, st, lo) \in Int
      BY <2>2, <3>1 DEF InOrder
    <3>3. m \in Int /\ m <= s.revision /\ m >= Last(v, st, lo) + 1
      BY <1>3, <2>6, <3>1, <3>2
    <3>4. CASE m <= Last(v, st, n - 1)
      <4>1. m \in (Last(v, st, lo) + 1) .. Last(v, st, n - 1)
        BY <2>7, <3>2, <3>3, <3>4
      <4>2. PICK f \in DOMAIN st : m \in st[f].messages
        BY <2>1, <2>3, <4>1 DEF Complete
      <4> QED BY <1>2, <2>6, <4>2
    <3>5. CASE ~(m <= Last(v, st, n - 1))
      <4>1. m \in v.batch
        BY <1>3, <2>7, <2>8, <3>3, <3>5
      <4> QED BY <1>2, <2>6, <4>1
    <3> QED BY <3>4, <3>5
  <2>11. Waits(w, s, new)
    <3>1. (s.revision + 1) .. s.revision = {}
      BY <1>3
    <3>2. (Last(w, new, Newest(w)) + 1) .. s.revision = {}
      BY <2>1, <2>6, <3>1
    <3> QED BY <2>8, <3>2 DEF Waits
  <2> QED BY <2>1, <2>4, <2>5, <2>9, <2>10, <2>11 DEF Keeps
<1>8. Windowed(w)
  <2>1. Seen(w) = Seen(v)
    BY DEF Seen
  <2> QED BY <1>1, <2>1 DEF Windowed
<1>9. Good(w, s, new)
  BY <1>4, <1>5, <1>6, <1>7, <1>8 DEF Good
<1> QED BY <1>9 DEF new

\* The store gives up the frames that are no longer retained; those it keeps are still
\* consecutive.
LEMMA CollectKeeps ==
  ASSUME NEW v, NEW s \in Sessions, NEW st, Good(v, s, st), v.job = "collect",
         NEW first, first = FirstFrame(v.frame)
  PROVE  Good(Rest(v), s, [f \in {g \in DOMAIN st : g >= first} |-> st[f]])
<1> DEFINE new == [f \in {g \in DOMAIN st : g >= first} |-> st[f]]
           w == Rest(v)
<1>1. /\ Shaped(v) /\ Typed(v, s) /\ Phased(v) /\ Held(v, s) /\ Stored(v, st)
      /\ Keeps(v, s, st) /\ Windowed(v)
  BY DEF Good
<1>2. /\ DOMAIN new = {g \in DOMAIN st : g >= first}
      /\ \A f \in DOMAIN new : f \in DOMAIN st /\ new[f] = st[f]
  OBVIOUS
<1>3. /\ Shaped(w) /\ ~w.pending /\ w.pending \in BOOLEAN
      /\ w.triggered \in BOOLEAN /\ w.job = "none" /\ w.batch = {}
      /\ w.phase = v.phase /\ w.frame = v.frame /\ w.buffer = v.buffer
      /\ w.windows = v.windows /\ w.error = v.error /\ w.since = v.since
  BY <1>1, RestFields
<1> HIDE DEF new, w
<1>4. s.revision \in 0 .. MaxCommits /\ v.frame \in 0 .. s.revision /\ v.phase = "on"
  BY <1>1 DEF Sessions, Typed, Phased
<1>5. w.error \in BOOLEAN /\ (w.error <=> v.error)
  BY <1>1, <1>3 DEF Typed
<1>6. Typed(w, s)
  BY <1>1, <1>3, <1>5 DEF Typed
<1>7. Phased(w) /\ Held(w, s)
  BY <1>3, <1>4 DEF Phased, Held
<1>8. Stored(w, new)
  BY <1>1, <1>2, <1>3, <1>4 DEF Stored
<1>9. Newest(w) = v.frame /\ Newest(v) = v.frame /\ Seen(w) = Seen(v)
  BY <1>3, <1>4 DEF Newest, Seen
<1>10. \A f \in DOMAIN new : Last(w, new, f) = Last(v, st, f)
  BY <1>2, <1>3 DEF Last
<1>11. Keeps(w, s, new)
  <2> SUFFICES ASSUME ~v.error
               PROVE  Keeps(w, s, new)
    BY <1>5 DEF Keeps
  <2>1. InOrder(v, s, st) /\ Waits(v, s, st)
    BY <1>1, <1>4 DEF Keeps
  <2>2. PICK lo \in 0 .. first : DOMAIN st = lo .. v.frame /\ Complete(v, st, lo)
    BY <1>1, <1>4, <1>9 DEF Keeps
  <2>3. first \in 0 .. v.frame
    BY <1>4, Retention
  <2>4. DOMAIN new = first .. v.frame
    BY <1>2, <1>4, <2>2, <2>3
  <2>5. first \in DOMAIN new /\ v.frame \in DOMAIN new /\ lo \in DOMAIN st /\ first \in DOMAIN st
    BY <1>4, <2>2, <2>3, <2>4
  <2>6. InOrder(w, s, new)
    BY <1>2, <1>10, <2>1 DEF InOrder
  <2>7. Complete(w, new, first)
    <3> SUFFICES ASSUME NEW m \in (Last(w, new, first) + 1) .. Last(w, new, v.frame)
                 PROVE  \E f \in DOMAIN new : m \in new[f].messages
      BY <1>9 DEF Complete
    <3>1. /\ Last(w, new, first) = Last(v, st, first)
          /\ Last(w, new, v.frame) = Last(v, st, v.frame)
      BY <1>10, <2>5
    <3>2. /\ Last(v, st, first) \in Nat /\ Last(v, st, lo) \in Nat
          /\ Last(v, st, lo) <= Last(v, st, first) /\ Last(v, st, v.frame) \in Nat
      <4>1. CASE lo = first
        BY <1>4, <2>1, <2>4, <2>5, <4>1, <1>2 DEF InOrder
      <4>2. CASE lo < first
        BY <1>4, <2>1, <2>4, <2>5, <4>2, <1>2 DEF InOrder
      <4> QED BY <2>2, <2>3, <4>1, <4>2
    <3>3. m \in (Last(v, st, lo) + 1) .. Last(v, st, v.frame) /\ m > Last(v, st, first)
      BY <3>1, <3>2
    <3>4. PICK f \in DOMAIN st : m \in st[f].messages
      BY <1>9, <2>2, <3>3 DEF Complete
    <3>5. f >= first
      <4>1. Last(v, st, f) \in Nat /\ m <= Last(v, st, f)
        BY <1>4, <2>1, <3>4 DEF InOrder
      <4>2. f < first => Last(v, st, f) <= Last(v, st, first)
        BY <2>1, <2>5, <3>4 DEF InOrder
      <4>3. ~(f < first)
        BY <3>2, <3>3, <4>1, <4>2
      <4> QED BY <1>4, <2>2, <2>3, <3>4, <4>3
    <3> QED BY <1>2, <3>4, <3>5
  <2>8. Waits(w, s, new)
    <3>1. Last(w, new, Newest(w)) = Last(v, st, Newest(v))
      BY <1>9, <1>10, <2>5
    <3>2. v.buffer = {} /\ v.buffer = (Last(v, st, Newest(v)) + 1) .. s.revision
      BY <2>1 DEF Waits
    <3> QED BY <1>3, <3>1, <3>2 DEF Waits
  <2>9. first \in 0 .. FirstFrame(Newest(w)) /\ DOMAIN new = first .. Newest(w)
    <3>1. FirstFrame(Newest(w)) = first
      BY <1>9
    <3>2. first \in 0 .. first
      BY <2>3
    <3> QED BY <1>9, <2>4, <3>1, <3>2
  <2> QED BY <2>6, <2>7, <2>8, <2>9 DEF Keeps
<1>12. Windowed(w)
  BY <1>1, <1>3, <1>5, <1>9 DEF Windowed
<1>13. Good(w, s, new)
  BY <1>3, <1>6, <1>7, <1>8, <1>11, <1>12 DEF Good
<1> QED BY <1>13 DEF w, new

\* close() cuts the windows short: what is still to come of them never will.
LEMMA CutShortKeeps ==
  ASSUME NEW x \in Windows, Split(x), NEW frame \in Nat, Fresh(x, frame), Grown(x, frame),
         x.rest = NoSpan
  PROVE  LET y == CutShort(x)
         IN y \in Windows /\ Split(y) /\ Fresh(y, frame) /\ Grown(y, frame)
<1>1. /\ x.from \in Nat /\ x.to \in Nat /\ x.actual \in SpanType /\ x.gap \in SpanType
      /\ x.rest \in SpanType /\ x.state \in {"pending", "partial", "complete"}
      /\ x.actual.from \in Int /\ x.actual.to \in Int
  BY DEF Windows, SpanType
<1>2. CASE x.state # "pending"
  BY <1>2 DEF CutShort
<1>3. CASE x.state = "pending"
  <2> DEFINE rest == [from |-> x.actual.to + 1, to |-> x.to]
             y == [x EXCEPT !.state = "partial", !.rest = rest]
  <2>1. CutShort(x) = y
    BY <1>3 DEF CutShort
  <2>2. rest \in SpanType /\ rest.from = x.actual.to + 1 /\ rest.to = x.to
    BY <1>1 DEF SpanType
  <2> HIDE DEF rest
  <2>3. /\ y \in Windows /\ y.state = "partial" /\ y.rest = rest /\ y.actual = x.actual
        /\ y.gap = x.gap /\ y.from = x.from /\ y.to = x.to
    BY <2>2 DEF Windows
  <2> HIDE DEF y
  <2>4. x.actual.to = frame /\ x.actual.to < x.to
    BY <1>3 DEF Grown
  <2>5. Split(y) /\ Fresh(y, frame)
    BY <2>3 DEF Split, Fresh
  <2>6. Grown(y, frame)
    BY <1>1, <2>2, <2>3, <2>4 DEF Grown
  <2> QED BY <2>1, <2>3, <2>5, <2>6
<1> QED BY <1>2, <1>3

\* The collection ends, or has ended.
LEMMA EndKeeps ==
  ASSUME NEW v, NEW s \in Sessions, NEW st, Good(v, s, st), v.phase \in {"on", "closing"},
         ~v.pending, NEW w, Shaped(w), w.phase \in {"closing", "closed"}, w.job = v.job,
         w.pending \in BOOLEAN, ~w.pending, w.triggered \in BOOLEAN, w.error \in BOOLEAN,
         v.error => w.error, w.frame = v.frame, w.since = v.since, w.buffer = v.buffer,
         w.batch = v.batch, Windowed(w)
  PROVE  Good(w, s, st)
<1>1. /\ Typed(v, s) /\ Phased(v) /\ Stored(v, st) /\ Keeps(v, s, st)
  BY DEF Good
<1>2. v.job = "none" /\ s.revision \in Nat
  BY <1>1 DEF Typed, Phased, Sessions
<1>3. Typed(w, s)
  BY <1>1 DEF Typed
<1>4. Phased(w) /\ Held(w, s)
  BY <1>2 DEF Phased, Held
<1>5. Stored(w, st)
  BY <1>1, <1>2 DEF Stored
<1>6. Newest(w) = Newest(v)
  BY <1>2 DEF Newest
<1>7. \A f : Last(w, st, f) = Last(v, st, f)
  BY DEF Last
<1>8. Keeps(w, s, st)
  BY <1>1, <1>2, <1>6, <1>7 DEF Keeps, InOrder, Complete, Waits
<1> QED BY <1>3, <1>4, <1>5, <1>8 DEF Good

-----------------------------------------------------------------------------
(* The invariant is inductive *)

LEMMA Initially == Init => IInv
<1> SUFFICES ASSUME Init PROVE IInv
  OBVIOUS
<1>1. MaxCommits \in Nat
  BY ConfigAssumption
<1>2. session \in Sessions /\ session.revision = 0 /\ session.action = "none"
  BY <1>1 DEF Init, Sessions
<1>3. /\ c.phase = "starting" /\ c.frame = 0 /\ c.buffer = {} /\ c.batch = {}
      /\ ~c.pending /\ c.pending \in BOOLEAN /\ ~c.triggered /\ c.triggered \in BOOLEAN
      /\ ~c.error /\ c.error \in BOOLEAN /\ c.job = "capture" /\ c.windows = <<>>
      /\ c.since = 0 /\ DOMAIN stored = {}
  BY DEF Init
<1>4. Shaped(c)
  <2> DEFINE a == MaxCount > 0 /\ MaxBytes > 0
  <2>1. c = [phase |-> "starting", frame |-> 0, buffer |-> {}, pending |-> FALSE,
             job |-> "capture", asked |-> a, triggered |-> FALSE,
             batch |-> {}, draft |-> NoDraft, lastTrigger |-> -1, windows |-> <<>>,
             checkpoints |-> {}, count |-> 0, bytes |-> 0, error |-> FALSE, since |-> 0]
    BY DEF Init
  <2> HIDE DEF a
  <2> QED BY <2>1 DEF Shaped
<1>5. Typed(c, session)
  BY <1>2, <1>3 DEF Typed
<1>6. Phased(c) /\ Held(c, session)
  BY <1>3 DEF Phased, Held
<1>7. Stored(c, stored)
  BY <1>3 DEF Stored
<1>8. Keeps(c, session, stored)
  BY <1>3 DEF Keeps
<1>9. Windowed(c)
  <2>1. c.windows \in Seq(Windows) /\ Len(c.windows) = 0
    BY <1>3
  <2>2. \A i : i \notin 1 .. Len(c.windows)
    BY <2>1
  <2> QED BY <2>1, <2>2 DEF Windowed
<1>10. config \in Configs /\ writer \in {"open", "complete", "failed"}
  BY DEF Init, Configs
<1> QED BY <1>2, <1>4, <1>5, <1>6, <1>7, <1>8, <1>9, <1>10 DEF Good, IInv

\* The steps of the session that commit nothing: only one that finds no frame pending
\* sends an action.
LEMMA SessionStepKeeps ==
  ASSUME IInv, SendAction \/ Rendered \/ Stop \/ ActionTimeout
  PROVE  IInv'
<1>1. /\ config \in Configs /\ session \in Sessions /\ Good(c, session, stored)
      /\ writer \in {"open", "complete", "failed"}
  BY DEF IInv
<1>2. UNCHANGED <<config, c, stored, writer>>
  BY DEF SendAction, Rendered, Stop, ActionTimeout
<1>3. Held(c, session)
  BY <1>1 DEF Good
<1>4. /\ session' \in Sessions /\ session'.revision = session.revision
      /\ c.pending => session'.action # "sent"
  <2>1. CASE SendAction
    <3> DEFINE r == IF session.run = "stopHook" THEN "stopping" ELSE session.run
    <3>1. session' = [session EXCEPT !.action = "sent", !.late = FALSE, !.run = r] /\ ~c.pending
      BY <2>1 DEF SendAction
    <3>2. r \in {"none", "running", "stopHook", "stopping"}
      BY <1>1 DEF Sessions
    <3> HIDE DEF r
    <3> QED BY <1>1, <3>1, <3>2 DEF Sessions
  <2>2. CASE Rendered
    BY <1>1, <2>2 DEF Rendered, Sessions
  <2>3. CASE Stop
    <3>1. session' = StopRun(session)
      BY <2>3 DEF Stop
    <3>2. StopRun(session) \in Sessions /\ StopRun(session).revision = session.revision
          /\ StopRun(session).action = session.action
      BY <1>1, Stopping
    <3> QED BY <1>3, <3>1, <3>2 DEF Held
  <2>4. CASE ActionTimeout
    BY <1>1, <2>4 DEF ActionTimeout, Sessions
  <2> QED BY <2>1, <2>2, <2>3, <2>4
<1>5. Good(c, session', stored)
  BY <1>1, <1>4, SessionKeeps
<1> QED BY <1>1, <1>2, <1>4, <1>5, NextState

LEMMA SceneUpdateKeeps ==
  ASSUME IInv, SceneUpdate
  PROVE  IInv'
<1> DEFINE up == session.revision + 1
           late == session.late \/ session.action = "applied"
           s == [session EXCEPT !.revision = up, !.late = late]
<1>1. session \in Sessions
  BY DEF IInv
<1>2. /\ c.phase \in {"starting", "on"} /\ session.revision < MaxCommits
      /\ UNCHANGED <<config, stored>>
  BY DEF SceneUpdate, Running
<1>3. PICK matched \in BOOLEAN : OnCommit(s, FALSE, matched)
  BY DEF SceneUpdate
<1>4. up \in 0 .. MaxCommits
  BY <1>1, <1>2, ConfigAssumption DEF Sessions
<1>5. s \in Sessions /\ s.revision = up /\ s.action = session.action
  <2>1. late \in BOOLEAN
    OBVIOUS
  <2> HIDE DEF up, late
  <2> QED BY <1>1, <1>4, <2>1 DEF Sessions
<1>6. Commit(s, session)
  BY <1>5 DEF Commit
<1> HIDE DEF s
<1> DEFINE isAction == FALSE
<1>7. isAction \in BOOLEAN /\ ~isAction /\ OnCommit(s, isAction, matched)
  BY <1>3
<1> HIDE DEF isAction
<1> QED BY <1>2, <1>5, <1>6, <1>7, CommitKeeps

LEMMA ActionResultKeeps ==
  ASSUME IInv, ActionResult
  PROVE  IInv'
<1> DEFINE up == session.revision + 1
           s == [session EXCEPT !.revision = up, !.action = "applied"]
<1>1. session \in Sessions
  BY DEF IInv
<1>2. /\ c.phase \in {"starting", "on"} /\ session.revision < MaxCommits
      /\ UNCHANGED <<config, stored>>
  BY DEF ActionResult, Running
<1>3. PICK matched \in BOOLEAN : OnCommit(s, TRUE, matched)
  BY DEF ActionResult
<1>4. up \in 0 .. MaxCommits
  BY <1>1, <1>2, ConfigAssumption DEF Sessions
<1>5. s \in Sessions /\ s.revision = up /\ s.action = "applied"
  <2> HIDE DEF up
  <2> QED BY <1>1, <1>4 DEF Sessions
<1>6. Commit(s, session)
  BY <1>5 DEF Commit
<1> HIDE DEF s
<1> DEFINE isAction == TRUE
<1>7. isAction \in BOOLEAN /\ isAction /\ OnCommit(s, isAction, matched)
  BY <1>3
<1> HIDE DEF isAction
<1> QED BY <1>2, <1>5, <1>6, <1>7, CommitKeeps

LEMMA DisconnectKeeps ==
  ASSUME IInv, Disconnect
  PROVE  IInv'
<1> DEFINE r == IF session.run = "none" THEN session.run ELSE "stopping"
           t == [session EXCEPT !.open = FALSE, !.action = "none", !.run = r]
           e == c.error \/ c.phase = "on"
           w == [c EXCEPT !.error = e]
<1>1. /\ config \in Configs /\ session \in Sessions /\ Good(c, session, stored)
      /\ writer \in {"open", "complete", "failed"}
  BY DEF IInv
<1>2. /\ c' = w /\ session' = t /\ c.phase \in {"starting", "on"}
      /\ UNCHANGED <<config, stored, writer>>
  BY DEF Disconnect, Running
<1>3. r \in {"none", "running", "stopHook", "stopping"}
  BY <1>1 DEF Sessions
<1> HIDE DEF r
<1>4. t \in Sessions /\ t.revision = session.revision /\ t.action = "none"
  BY <1>1, <1>3 DEF Sessions
<1> HIDE DEF t
<1>5. Shaped(c) /\ Typed(c, session) /\ Phased(c) /\ Stored(c, stored)
  BY <1>1 DEF Good
<1>6. e \in BOOLEAN /\ (e <=> c.error \/ c.phase = "on")
  OBVIOUS
<1> HIDE DEF e
<1>7. /\ Shaped(w) /\ w.error = e /\ w.phase = c.phase /\ w.job = c.job
      /\ w.pending = c.pending /\ w.triggered = c.triggered /\ w.frame = c.frame
      /\ w.since = c.since /\ w.buffer = c.buffer /\ w.batch = c.batch /\ w.draft = c.draft
      /\ w.windows = c.windows
  BY <1>5 DEF Shaped
<1> HIDE DEF w
<1>8. Typed(w, t)
  BY <1>4, <1>5, <1>6, <1>7 DEF Typed
<1>9. Phased(w) /\ Held(w, t)
  BY <1>4, <1>5, <1>6, <1>7 DEF Phased, Held
<1>10. Stored(w, stored)
  BY <1>5, <1>7 DEF Stored
<1>11. Keeps(w, t, stored)
  BY <1>2, <1>6, <1>7 DEF Keeps
<1>12. Windowed(w)
  <2>1. CASE c.phase = "on"
    BY <1>6, <1>7, <2>1 DEF Windowed
  <2>2. CASE c.phase = "starting"
    <3>1. Seen(w) = Seen(c) /\ Windowed(c) /\ (w.error <=> c.error)
      BY <1>1, <1>6, <1>7, <2>2 DEF Seen, Good
    <3> QED BY <1>7, <3>1 DEF Windowed
  <2> QED BY <1>2, <2>1, <2>2
<1>13. Good(w, t, stored)
  BY <1>7, <1>8, <1>9, <1>10, <1>11, <1>12 DEF Good
<1> QED BY <1>1, <1>2, <1>4, <1>13, NextState

LEMMA FailuresKeep ==
  ASSUME IInv, CaptureFails \/ StoreFails
  PROVE  IInv'
<1>1. /\ session \in Sessions /\ Phased(c) /\ Typed(c, session)
  BY DEF IInv, Good
<1>2. /\ c.job # "none" /\ Fail(session) /\ UNCHANGED <<config, stored>>
  BY DEF CaptureFails, StoreFails
<1>3. c.phase \in {"starting", "on"}
  BY <1>1, <1>2 DEF Phased, Typed
<1> HIDE DEF IInv
<1> QED BY <1>1, <1>2, <1>3, FailKeeps

LEMMA AppendedKeeps ==
  ASSUME IInv, Appended
  PROVE  IInv'
<1> DEFINE left == c.checkpoints \ Forgotten
           v == [c EXCEPT !.checkpoints = left]
           new == With(stored, c.frame, c.draft)
<1>1. /\ config \in Configs /\ session \in Sessions /\ Good(c, session, stored)
      /\ writer \in {"open", "complete", "failed"}
  BY DEF IInv
<1>2. /\ c.job = "append" /\ stored' = new /\ UNCHANGED config
      /\ IF c.phase = "starting"
           THEN IF session.open
                  THEN /\ c' = [Rest(v) EXCEPT !.phase = "on", !.since = session.revision]
                       /\ session' = [session EXCEPT !.run = "running"]
                       /\ UNCHANGED writer
                  ELSE /\ c' = [Rest(v) EXCEPT !.phase = "closed", !.error = TRUE]
                       /\ writer' = "failed"
                       /\ UNCHANGED session
           ELSE /\ c' = IF CollectsNow THEN [v EXCEPT !.job = "collect"] ELSE Rest(v)
                /\ UNCHANGED <<session, writer>>
  BY DEF Appended, With
<1> HIDE DEF left
<1>3. Shaped(c) /\ Typed(c, session) /\ Phased(c) /\ Stored(c, stored)
  BY <1>1 DEF Good
<1>4. /\ Shaped(v) /\ v.phase = c.phase /\ v.job = c.job /\ v.frame = c.frame
      /\ v.since = c.since /\ v.buffer = c.buffer /\ v.batch = c.batch /\ v.draft = c.draft
      /\ v.windows = c.windows /\ v.error = c.error /\ v.pending = c.pending
      /\ v.triggered = c.triggered
  BY <1>3 DEF Shaped
<1> HIDE DEF v
<1>5. /\ v.error \in BOOLEAN /\ v.pending \in BOOLEAN /\ v.triggered \in BOOLEAN
      /\ v.buffer \subseteq Commits /\ v.batch \subseteq Commits
  BY <1>3, <1>4 DEF Typed
<1>6. Good(v, session, stored)
  BY <1>1, <1>4, <1>5, CheckpointsApart
<1> DEFINE r == Rest(v)
<1>7. /\ Shaped(r) /\ ~r.pending /\ r.pending \in BOOLEAN /\ r.triggered \in BOOLEAN
      /\ r.job = "none" /\ r.batch = {} /\ r.phase = v.phase /\ r.frame = v.frame
      /\ r.buffer = v.buffer /\ r.windows = v.windows /\ r.error = v.error
      /\ r.since = v.since
  BY <1>4, RestFields
<1> HIDE DEF r
<1>8. new = With(stored, v.frame, v.draft)
  BY <1>4
<1> HIDE DEF new
<1>9. CASE c.phase = "starting" /\ session.open
  <2> DEFINE w == [r EXCEPT !.phase = "on", !.since = session.revision]
             t == [session EXCEPT !.run = "running"]
  <2>1. c' = w /\ session' = t /\ writer' = writer
    BY <1>2, <1>9 DEF r
  <2>2. t \in Sessions /\ t.revision = session.revision
    BY <1>1 DEF Sessions
  <2>3. /\ Shaped(w) /\ w.phase = "on" /\ w.since = session.revision /\ w.job = r.job
        /\ w.pending = r.pending /\ w.triggered = r.triggered /\ w.error = r.error
        /\ w.frame = r.frame /\ w.buffer = r.buffer /\ w.batch = r.batch
        /\ w.windows = r.windows
    BY <1>7 DEF Shaped
  <2>4. ~v.error
    BY <1>3, <1>4, <1>9 DEF Phased
  <2> HIDE DEF w, t
  <2>5. /\ ~w.pending /\ w.pending \in BOOLEAN /\ w.triggered \in BOOLEAN
        /\ ~w.error /\ w.error \in BOOLEAN
    BY <1>5, <1>7, <2>3, <2>4
  <2>6. Good(w, t, new)
    BY <1>1, <1>2, <1>4, <1>6, <1>7, <1>8, <1>9, <2>2, <2>3, <2>5, FirstFrameKeeps
  <2> QED BY <1>1, <1>2, <2>1, <2>2, <2>6, NextState
<1>10. CASE c.phase = "starting" /\ ~session.open
  <2> DEFINE w == [r EXCEPT !.phase = "closed", !.error = TRUE]
  <2>1. c' = w /\ session' = session /\ writer' = "failed"
    BY <1>2, <1>10 DEF r
  <2>2. /\ Shaped(w) /\ w.phase = "closed" /\ w.error = TRUE /\ w.job = r.job
        /\ w.pending = r.pending /\ w.triggered = r.triggered /\ w.since = r.since
        /\ w.frame = r.frame /\ w.buffer = r.buffer /\ w.batch = r.batch
    BY <1>7 DEF Shaped
  <2> HIDE DEF w
  <2>3. /\ ~w.pending /\ w.pending \in BOOLEAN /\ w.triggered \in BOOLEAN
        /\ w.error /\ w.error \in BOOLEAN
    BY <1>7, <2>2
  <2>4. Typed(w, session)
    BY <1>3, <1>4, <1>7, <2>2, <2>3 DEF Typed
  <2>5. Phased(w) /\ Held(w, session)
    BY <1>7, <2>2, <2>3 DEF Phased, Held
  <2>6. Stored(w, new)
    <3>1. /\ DOMAIN new = {0} /\ new[0] = c.draft /\ c.frame = 0
      BY <1>3, <1>10 DEF Stored, Phased, With, new
    <3>2. FrameType(c.draft)
      BY <1>2, <1>3 DEF Stored
    <3>3. w.frame = 0 /\ w.job = "none" /\ w.phase = "closed"
      BY <1>4, <1>7, <2>2, <3>1
    <3> QED BY <3>1, <3>2, <3>3 DEF Stored
  <2>7. Keeps(w, session, new) /\ Windowed(w)
    BY <2>3 DEF Keeps, Windowed
  <2>8. Good(w, session, new)
    BY <2>2, <2>4, <2>5, <2>6, <2>7 DEF Good
  <2> QED BY <1>1, <1>2, <2>1, <2>8, NextState
<1>11. CASE c.phase # "starting"
  <2>1. c.phase = "on" /\ c.pending
    BY <1>2, <1>3, <1>11 DEF Typed, Phased
  <2> DEFINE k == [v EXCEPT !.job = "collect"]
  <2>2. /\ c' = k \/ c' = r
        /\ UNCHANGED <<session, writer>>
    BY <1>2, <1>11 DEF r
  <2>3. /\ Shaped(k) /\ k.job = "collect" /\ k.phase = v.phase /\ k.since = v.since
        /\ k.pending = v.pending /\ k.triggered = v.triggered /\ k.error = v.error
        /\ k.frame = v.frame /\ k.buffer = v.buffer /\ k.batch = v.batch
        /\ k.windows = v.windows
    BY <1>4 DEF Shaped
  <2> HIDE DEF k
  <2>4. /\ v.phase = "on" /\ v.job = "append" /\ v.pending
    BY <1>2, <1>4, <2>1
  <2>5. Good(r, session, new)
    <3>1. /\ r.pending <=> r.job = "collect"
          /\ r.error \in BOOLEAN /\ (r.error <=> v.error) /\ r.phase = "on"
          /\ r.job \in {"none", "collect"} /\ r.batch \subseteq Commits
      BY <1>5, <1>7, <2>4
    <3> QED BY <1>1, <1>6, <1>7, <1>8, <2>4, <3>1, NextFrameKeeps
  <2>6. Good(k, session, new)
    <3>1. /\ k.pending \in BOOLEAN /\ (k.pending <=> k.job = "collect")
          /\ k.error \in BOOLEAN /\ (k.error <=> v.error) /\ k.phase = "on"
          /\ k.job \in {"none", "collect"} /\ k.batch \subseteq Commits
          /\ k.triggered \in BOOLEAN /\ (k.job = "none" => k.batch = {})
      BY <1>5, <2>3, <2>4
    <3> QED BY <1>1, <1>6, <1>8, <2>3, <2>4, <3>1, NextFrameKeeps
  <2>7. Good(c', session', stored')
    BY <1>2, <2>2, <2>5, <2>6
  <2> QED BY <1>1, <1>2, <2>2, <2>7, NextState
<1> QED BY <1>9, <1>10, <1>11

LEMMA CollectedKeeps ==
  ASSUME IInv, Collected
  PROVE  IInv'
<1>1. /\ config \in Configs /\ session \in Sessions /\ Good(c, session, stored)
      /\ writer \in {"open", "complete", "failed"}
  BY DEF IInv
<1> DEFINE first == FirstFrame(c.frame)
           new == [f \in {g \in DOMAIN stored : g >= first} |-> stored[f]]
           w == Rest(c)
<1>2. /\ c.job = "collect" /\ stored' = new /\ c' = w /\ UNCHANGED <<config, session, writer>>
  BY DEF Collected
<1>3. Good(w, session, new)
  <2> HIDE DEF first
  <2>1. first = FirstFrame(c.frame)
    BY DEF first
  <2> QED BY <1>1, <1>2, <2>1, CollectKeeps
<1> HIDE DEF new, w
<1> QED BY <1>1, <1>2, <1>3, NextState

LEMMA EndsKeep ==
  ASSUME IInv, Ends
  PROVE  IInv'
<1>1. /\ config \in Configs /\ session \in Sessions /\ Good(c, session, stored)
      /\ writer \in {"open", "complete", "failed"}
  BY DEF IInv
<1>2. Shaped(c) /\ Typed(c, session) /\ Phased(c) /\ Windowed(c)
  BY <1>1 DEF Good
<1>3. CASE End
  <2> DEFINE ws == [i \in DOMAIN c.windows |-> CutShort(c.windows[i])]
             w == [c EXCEPT !.phase = "closing", !.windows = ws]
  <2>1. /\ c' = w /\ UNCHANGED <<config, session, stored, writer>>
        /\ c.phase = "on" /\ ~c.pending
    BY <1>3 DEF End, Ending
  <2>2. c.job = "none" /\ c.frame \in Nat
    BY <1>1, <1>2, <2>1 DEF Phased, Typed, Sessions
  <2>3. ~c.error =>
          /\ ws \in Seq(Windows)
          /\ \A i \in 1 .. Len(ws) :
               Split(ws[i]) /\ Fresh(ws[i], c.frame) /\ Grown(ws[i], c.frame)
    <3> SUFFICES ASSUME ~c.error
                 PROVE  /\ ws \in Seq(Windows)
                        /\ \A i \in 1 .. Len(ws) :
                             Split(ws[i]) /\ Fresh(ws[i], c.frame) /\ Grown(ws[i], c.frame)
      OBVIOUS
    <3>1. Seen(c) = c.frame
      BY <2>2 DEF Seen
    <3>2. /\ c.windows \in Seq(Windows)
          /\ \A i \in 1 .. Len(c.windows) :
               /\ Split(c.windows[i]) /\ Fresh(c.windows[i], c.frame)
               /\ Grown(c.windows[i], c.frame) /\ c.windows[i].rest = NoSpan
      BY <1>2, <2>1, <3>1 DEF Windowed
    <3>3. DOMAIN c.windows = 1 .. Len(c.windows) /\ Len(c.windows) \in Nat
          /\ \A i \in 1 .. Len(c.windows) : c.windows[i] \in Windows
      BY <3>2
    <3> DEFINE W(i) == CutShort(c.windows[i])
    <3>4. \A i \in 1 .. Len(c.windows) :
            W(i) \in Windows /\ Split(W(i)) /\ Fresh(W(i), c.frame) /\ Grown(W(i), c.frame)
      BY <2>2, <3>2, <3>3, CutShortKeeps
    <3>5. ws = [i \in DOMAIN c.windows |-> W(i)]
      OBVIOUS
    <3> HIDE DEF ws, W
    <3>6. ws \in Seq(Windows) /\ Len(ws) = Len(c.windows)
          /\ \A i \in 1 .. Len(c.windows) : ws[i] = W(i)
      BY <3>3, <3>4, <3>5
    <3> QED BY <3>4, <3>6
  <2> HIDE DEF ws
  <2>4. /\ Shaped(w) /\ w.phase = "closing" /\ w.windows = ws /\ w.job = c.job
        /\ w.pending = c.pending /\ w.triggered = c.triggered /\ w.error = c.error
        /\ w.frame = c.frame /\ w.since = c.since /\ w.buffer = c.buffer /\ w.batch = c.batch
    BY <1>2 DEF Shaped
  <2> HIDE DEF w
  <2>5. /\ w.pending \in BOOLEAN /\ ~w.pending /\ w.triggered \in BOOLEAN
        /\ w.error \in BOOLEAN /\ (w.error <=> c.error)
    BY <1>2, <2>1, <2>4 DEF Typed
  <2>6. Windowed(w)
    <3>1. Seen(w) = c.frame
      BY <2>4 DEF Seen
    <3> QED BY <2>3, <2>4, <2>5, <3>1 DEF Windowed
  <2>7. Good(w, session, stored)
    BY <1>1, <2>1, <2>4, <2>5, <2>6, EndKeeps
  <2> QED BY <1>1, <2>1, <2>7, NextState
<1>4. CASE Closed \/ CloseFails
  <2> DEFINE y == [c EXCEPT !.phase = "closed"]
             z == [c EXCEPT !.phase = "closed", !.error = TRUE]
  <2>1. /\ c' \in {y, z} /\ UNCHANGED <<config, session, stored>>
        /\ c.phase = "closing" /\ writer' \in {"open", "complete", "failed"}
    BY <1>1, <1>4 DEF Closed, CloseFails
  <2>2. c.job = "none" /\ ~c.pending
    BY <1>2, <2>1 DEF Phased
  <2>3. /\ Shaped(y) /\ y.phase = "closed" /\ y.windows = c.windows /\ y.job = c.job
        /\ y.pending = c.pending /\ y.triggered = c.triggered /\ y.error = c.error
        /\ y.frame = c.frame /\ y.since = c.since /\ y.buffer = c.buffer /\ y.batch = c.batch
    BY <1>2 DEF Shaped
  <2>4. /\ Shaped(z) /\ z.phase = "closed" /\ z.windows = c.windows /\ z.job = c.job
        /\ z.pending = c.pending /\ z.triggered = c.triggered /\ z.error = TRUE
        /\ z.frame = c.frame /\ z.since = c.since /\ z.buffer = c.buffer /\ z.batch = c.batch
    BY <1>2 DEF Shaped
  <2> HIDE DEF y, z
  <2>5. Good(y, session, stored)
    <3>1. /\ y.pending \in BOOLEAN /\ ~y.pending /\ y.triggered \in BOOLEAN
          /\ y.error \in BOOLEAN /\ (y.error <=> c.error)
      BY <1>2, <2>2, <2>3 DEF Typed
    <3>2. Seen(y) = Seen(c)
      BY <2>1, <2>3 DEF Seen
    <3>3. Windowed(y)
      BY <1>2, <2>1, <2>3, <3>1, <3>2 DEF Windowed
    <3> QED BY <1>1, <2>1, <2>2, <2>3, <3>1, <3>3, EndKeeps
  <2>6. Good(z, session, stored)
    <3>1. /\ z.pending \in BOOLEAN /\ ~z.pending /\ z.triggered \in BOOLEAN
          /\ z.error \in BOOLEAN /\ z.error
      BY <1>2, <2>2, <2>4 DEF Typed
    <3>2. Windowed(z)
      BY <3>1 DEF Windowed
    <3> QED BY <1>1, <2>1, <2>2, <2>4, <3>1, <3>2, EndKeeps
  <2> QED BY <1>1, <2>1, <2>5, <2>6, NextState
<1> QED BY <1>3, <1>4 DEF Ends

LEMMA Step == IInv /\ [Next]_vars => IInv'
<1> SUFFICES ASSUME IInv, [Next]_vars
             PROVE  IInv'
  OBVIOUS
<1>1. CASE SendAction \/ Rendered \/ Stop \/ ActionTimeout
  BY <1>1, SessionStepKeeps
<1>2. CASE SceneUpdate
  BY <1>2, SceneUpdateKeeps
<1>3. CASE ActionResult
  BY <1>3, ActionResultKeeps
<1>4. CASE Disconnect
  BY <1>4, DisconnectKeeps
<1>5. CASE Captured
  BY <1>5, CapturedKeeps
<1>6. CASE CaptureFails \/ StoreFails
  BY <1>6, FailuresKeep
<1>7. CASE Appended
  BY <1>7, AppendedKeeps
<1>8. CASE Collected
  BY <1>8, CollectedKeeps
<1>9. CASE Ends
  BY <1>9, EndsKeep
<1>10. CASE UNCHANGED vars
  <2>1. /\ config \in Configs /\ session \in Sessions /\ Good(c, session, stored)
        /\ writer \in {"open", "complete", "failed"}
    BY DEF IInv
  <2> QED BY <1>10, <2>1, NextState DEF vars
<1> QED BY <1>1, <1>2, <1>3, <1>4, <1>5, <1>6, <1>7, <1>8, <1>9, <1>10 DEF Next, Chain

-----------------------------------------------------------------------------
(* What is kept back for the next frame *)

KeptBack ==
  c.phase # "starting" /\ ~c.error /\ c.buffer # {} =>
    session.action = "sent" \/ session.late

\* A commit is kept back while an action is in flight, or a frame takes all there is.
LEMMA CommitKeepsBack ==
  ASSUME IInv, KeptBack, Running, NEW s \in Sessions, NEW isAction \in BOOLEAN, NEW matched,
         ~isAction => s.action = session.action /\ (session.late => s.late),
         ~isAction /\ session.action = "applied" => s.late,
         OnCommit(s, isAction, matched)
  PROVE  KeptBack'
<1>1. Shaped(c) /\ session \in Sessions /\ c.frame \in Nat /\ c.phase \in {"starting", "on"}
  BY DEF IInv, Good, Typed, Sessions, Running
<1> DEFINE takes == Takes(c, s.revision, isAction)
           v == Begin(c, takes, matched)
<1>2. \/ (c.phase # "on" \/ c.error) /\ c' = c
      \/ c' = [c EXCEPT !.error = TRUE]
      \/ ~isAction /\ InFlight /\ c' = [c EXCEPT !.buffer = takes] /\ session' = s
      \/ c' = Broken([v EXCEPT !.buffer = {}])
      \/ c' = [v EXCEPT !.asked = FALSE]
      \/ c' = v
  BY DEF OnCommit
<1>3. Shaped(v) /\ v.buffer = {}
  BY <1>1, BeginFields DEF Began
<1> HIDE DEF takes, v
<1>4. CASE (c.phase # "on" \/ c.error) /\ c' = c
  BY <1>1, <1>4 DEF KeptBack
<1>5. CASE c' = [c EXCEPT !.error = TRUE]
  <2>1. c'.error
    BY <1>1, <1>5 DEF Shaped
  <2> QED BY <2>1 DEF KeptBack
<1>6. CASE ~isAction /\ InFlight /\ session' = s
  <2>1. s.action = "sent" \/ s.late
    BY <1>1, <1>6 DEF InFlight, Sessions
  <2> QED BY <1>6, <2>1 DEF KeptBack
<1>7. CASE c' = Broken([v EXCEPT !.buffer = {}])
  <2> DEFINE u == [v EXCEPT !.buffer = {}]
  <2>1. Shaped(u)
    BY <1>3 DEF Shaped
  <2> HIDE DEF u
  <2>2. Broken(u).error
    BY <2>1, BrokenFields
  <2> QED BY <1>7, <2>2 DEF KeptBack, u
<1>8. CASE c' = [v EXCEPT !.asked = FALSE] \/ c' = v
  <2>1. c'.buffer = {}
    BY <1>3, <1>8 DEF Shaped
  <2> QED BY <2>1 DEF KeptBack
<1> QED BY <1>2, <1>4, <1>5, <1>6, <1>7, <1>8

LEMMA SessionKeepsBack ==
  ASSUME IInv, KeptBack,
         SendAction \/ Rendered \/ Stop \/ ActionTimeout \/ SceneUpdate \/ ActionResult \/ Disconnect
  PROVE  KeptBack'
<1>1. config \in Configs /\ session \in Sessions /\ Shaped(c) /\ session.revision \in Nat
  BY DEF IInv, Good, Sessions
<1>2. CASE SendAction \/ ActionTimeout
  <2>1. session'.action = "sent" \/ session'.late
    BY <1>1, <1>2 DEF SendAction, ActionTimeout, Sessions
  <2> QED BY <2>1 DEF KeptBack
<1>3. CASE Rendered
  <2>1. c' = c /\ session'.late = session.late /\ session.action # "sent"
    BY <1>1, <1>3 DEF Rendered, Sessions
  <2> QED BY <2>1 DEF KeptBack
<1>4. CASE Stop
  <2>1. c' = c /\ session'.late = session.late /\ session'.action = session.action
    BY <1>1, <1>4, Stopping DEF Stop
  <2> QED BY <2>1 DEF KeptBack
<1>5. CASE SceneUpdate
  <2> DEFINE up == session.revision + 1
             late == session.late \/ session.action = "applied"
             s == [session EXCEPT !.revision = up, !.late = late]
  <2>1. PICK matched \in BOOLEAN : OnCommit(s, FALSE, matched)
    BY <1>5 DEF SceneUpdate
  <2>2. late \in BOOLEAN /\ (late <=> session.late \/ session.action = "applied")
    OBVIOUS
  <2> HIDE DEF up, late
  <2>3. s \in Sessions /\ s.action = session.action /\ s.late = late
    <3>1. up \in 0 .. MaxCommits
      BY <1>1, <1>5, ConfigAssumption DEF SceneUpdate, up
    <3> QED BY <1>1, <2>2, <3>1 DEF Sessions
  <2> HIDE DEF s
  <2> DEFINE isAction == FALSE
  <2>4. isAction \in BOOLEAN /\ ~isAction /\ OnCommit(s, isAction, matched)
    BY <2>1
  <2> HIDE DEF isAction
  <2>5. Running
    BY <1>5 DEF SceneUpdate
  <2> QED BY <2>2, <2>3, <2>4, <2>5, CommitKeepsBack
<1>6. CASE ActionResult
  <2> DEFINE up == session.revision + 1
             s == [session EXCEPT !.revision = up, !.action = "applied"]
  <2>1. PICK matched \in BOOLEAN : OnCommit(s, TRUE, matched)
    BY <1>6 DEF ActionResult
  <2>2. s \in Sessions
    <3>1. up \in 0 .. MaxCommits
      BY <1>1, <1>6, ConfigAssumption DEF ActionResult
    <3> HIDE DEF up
    <3> QED BY <1>1, <3>1 DEF Sessions
  <2> HIDE DEF s
  <2> DEFINE isAction == TRUE
  <2>3. isAction \in BOOLEAN /\ isAction /\ OnCommit(s, isAction, matched)
    BY <2>1
  <2> HIDE DEF isAction
  <2>4. Running
    BY <1>6 DEF ActionResult
  <2> QED BY <2>2, <2>3, <2>4, CommitKeepsBack
<1>7. CASE Disconnect
  <2>1. c.phase = "starting" \/ c.phase = "on"
    BY <1>7 DEF Disconnect, Running
  <2>2. c'.phase = c.phase /\ (c.phase = "on" => c'.error)
    BY <1>1, <1>7 DEF Disconnect, Shaped
  <2> QED BY <2>1, <2>2 DEF KeptBack
<1> QED BY <1>2, <1>3, <1>4, <1>5, <1>6, <1>7

\* When the chain of frames goes on, nothing is kept back; the end changes nothing of it.
LEMMA ChainKeepsBack ==
  ASSUME IInv, KeptBack, Chain \/ Ends
  PROVE  KeptBack'
<1>1. Shaped(c) /\ session \in Sessions /\ Phased(c) /\ Keeps(c, session, stored) /\ Typed(c, session)
  BY DEF IInv, Good
<1>2. c.job # "none" /\ ~c.error => c.buffer = {}
  BY <1>1 DEF Keeps, Waits, Phased, Typed
<1>3. ASSUME NEW s, Fail(s)
      PROVE  KeptBack'
  <2>1. Shaped(Rest(c)) /\ Broken(c).error
    BY <1>1, RestFields, BrokenFields
  <2> DEFINE r == Rest(c)
  <2> HIDE DEF r
  <2>2. c' = [r EXCEPT !.phase = "closed", !.error = TRUE] \/ c' = Broken(c)
    BY <1>3 DEF Fail, r
  <2>3. c'.error
    BY <2>1, <2>2 DEF Shaped, r
  <2> QED BY <2>3 DEF KeptBack
<1>4. ASSUME c.job # "none", c'.error <=> c.error, c'.buffer = c.buffer
      PROVE  KeptBack'
  BY <1>2, <1>4 DEF KeptBack
<1>5. CASE Captured
  <2>1. PICK bytes \in IF c.asked /\ session.open THEN Sizes ELSE {0} :
          LET over == bytes > 0 /\ TooLarge(c, bytes)
              kept == IF over THEN 0 ELSE bytes
              v == IF kept > 0 THEN Retain(c, kept) ELSE c
              s == IF over /\ config.overflow = "stop" THEN StopRun(session) ELSE session
          IN IF Refused(over) THEN Fail(s)
               ELSE /\ c' = [v EXCEPT !.job = "append", !.windows = WindowsAt(v),
                                      !.draft = [messages |-> c.batch, scene |-> session.revision,
                                                 bytes |-> kept]]
                    /\ session' = s
                    /\ UNCHANGED writer
    BY <1>5 DEF Captured
  <2> DEFINE over == bytes > 0 /\ TooLarge(c, bytes)
             kept == IF over THEN 0 ELSE bytes
             v == IF kept > 0 THEN Retain(c, kept) ELSE c
             s == IF over /\ config.overflow = "stop" THEN StopRun(session) ELSE session
             wins == WindowsAt(v)
             draft == [messages |-> c.batch, scene |-> session.revision, bytes |-> kept]
  <2>2. Fail(s) \/ c' = [v EXCEPT !.job = "append", !.windows = wins, !.draft = draft]
    BY <2>1
  <2>3. Shaped(v) /\ v.buffer = c.buffer /\ v.error = c.error
    <3> DEFINE n == c.count + 1
               m == c.bytes + kept
               p == c.checkpoints \cup {[frame |-> c.frame, bytes |-> kept]}
    <3>1. v = c \/ v = [c EXCEPT !.count = n, !.bytes = m, !.checkpoints = p]
      BY DEF Retain
    <3> HIDE DEF n, m, p, v
    <3> QED BY <1>1, <3>1 DEF Shaped
  <2> HIDE DEF v, s, wins, draft
  <2>4. CASE c' = [v EXCEPT !.job = "append", !.windows = wins, !.draft = draft]
    <3>1. c'.error = c.error /\ c'.buffer = c.buffer
      BY <2>3, <2>4 DEF Shaped
    <3> QED BY <1>4, <1>5, <3>1 DEF Captured
  <2> QED BY <1>3, <2>2, <2>4
<1>6. CASE CaptureFails \/ StoreFails
  BY <1>3, <1>6 DEF CaptureFails, StoreFails
<1>7. CASE Appended
  <2> DEFINE left == c.checkpoints \ Forgotten
             v == [c EXCEPT !.checkpoints = left]
             r == Rest(v)
             rev == session.revision
  <2>1. \/ c' = [r EXCEPT !.phase = "on", !.since = rev]
        \/ c' = [r EXCEPT !.phase = "closed", !.error = TRUE]
        \/ c' = [v EXCEPT !.job = "collect"]
        \/ c' = r
    BY <1>7 DEF Appended
  <2> HIDE DEF left, rev
  <2>2. Shaped(v) /\ v.error = c.error /\ v.buffer = c.buffer
    BY <1>1 DEF Shaped
  <2> HIDE DEF v
  <2>3. Shaped(r) /\ r.error = c.error /\ r.buffer = c.buffer
    BY <2>2, RestFields
  <2> HIDE DEF r
  <2>4. CASE c' = [r EXCEPT !.phase = "closed", !.error = TRUE]
    <3>1. c'.error
      BY <2>3, <2>4 DEF Shaped
    <3> QED BY <3>1 DEF KeptBack
  <2>5. CASE c' # [r EXCEPT !.phase = "closed", !.error = TRUE]
    <3>1. c'.error = c.error /\ c'.buffer = c.buffer
      BY <2>1, <2>2, <2>3, <2>5 DEF Shaped
    <3> QED BY <1>4, <1>7, <3>1 DEF Appended
  <2> QED BY <2>4, <2>5
<1>8. CASE Collected
  <2>1. c'.error = c.error /\ c'.buffer = c.buffer /\ c.job # "none"
    BY <1>1, <1>8, RestFields DEF Collected
  <2> QED BY <1>4, <2>1
<1>9. CASE Ends
  <2> DEFINE wins == [i \in DOMAIN c.windows |-> CutShort(c.windows[i])]
  <2>1. \/ c' = [c EXCEPT !.phase = "closing", !.windows = wins]
        \/ c' = [c EXCEPT !.phase = "closed"]
        \/ c' = [c EXCEPT !.phase = "closed", !.error = TRUE]
    BY <1>9 DEF Ends, End, Closed, CloseFails
  <2>2. c.phase # "starting" /\ session' = session
    BY <1>9 DEF Ends, End, Ending, Closed, CloseFails
  <2> HIDE DEF wins
  <2>3. c'.error \/ (c'.error = c.error /\ c'.buffer = c.buffer)
    BY <1>1, <2>1 DEF Shaped
  <2> QED BY <2>2, <2>3 DEF KeptBack
<1> QED BY <1>5, <1>6, <1>7, <1>8, <1>9 DEF Chain

-----------------------------------------------------------------------------
(* Theorems *)

LEMMA Invariance == Spec => []IInv
BY Initially, Step, PTL DEF Spec

\* The fields of the session, the collection and the store are what RecordingCollection.ts:132-157
\* declares, and the hold of the dispatch is taken exactly while a frame is being written.
THEOREM TypeCorrect == Spec => []TypeOK
<1>1. ASSUME IInv
      PROVE  TypeOK
  <2>1. session \in Sessions /\ Typed(c, session) /\ Phased(c) /\ Stored(c, stored)
    BY <1>1 DEF IInv, Good
  <2>2. session.revision \in 0 .. MaxCommits /\ MaxCommits \in Nat
    BY <2>1, ConfigAssumption DEF Sessions
  <2>3. c.pending = (c.phase = "on" /\ c.job # "none")
    <3> DEFINE p == c.phase = "on" /\ c.job # "none"
    <3>1. c.pending \in BOOLEAN /\ (c.pending <=> p)
      BY <2>1 DEF Typed, Phased
    <3>2. c.pending = p
      BY <3>1, Zenon
    <3> QED BY <3>2
  <2>4. c.frame \in 0 .. MaxCommits /\ DOMAIN stored \subseteq 0 .. MaxCommits
    BY <2>1, <2>2 DEF Typed, Stored
  <2> QED BY <1>1, <2>1, <2>2, <2>3, <2>4 DEF IInv, TypeOK, Sessions, Typed, Frames
<1> QED BY <1>1, Invariance, PTL

LEMMA KeepingBack == Spec => []KeptBack
<1>1. Init => KeptBack
  BY DEF Init, KeptBack
<1>2. IInv /\ KeptBack /\ [Next]_vars => KeptBack'
  <2> SUFFICES ASSUME IInv, KeptBack, [Next]_vars
               PROVE  KeptBack'
    OBVIOUS
  <2>1. CASE SendAction \/ Rendered \/ Stop \/ ActionTimeout \/ SceneUpdate \/ ActionResult
             \/ Disconnect
    BY <2>1, SessionKeepsBack
  <2>2. CASE Chain \/ Ends
    BY <2>2, ChainKeepsBack
  <2>3. CASE UNCHANGED vars
    BY <2>3 DEF vars, KeptBack
  <2> QED BY <2>1, <2>2, <2>3 DEF Next
<1> QED BY <1>1, <1>2, Invariance, PTL DEF Spec

\* What the listener of commits collects (RecordingCollection.ts:261-279) is in one stored
\* frame, which shows it, or in the frame that is being written, or kept back for the next
\* one. It is kept back while a result is awaited, and otherwise only after an action that
\* was given up, or whose result came before it: that change may end in no frame.
THEOREM CommitsAreKept == Spec => []EveryCommitIsKept
<1>1. ASSUME IInv, KeptBack
      PROVE  EveryCommitIsKept
  <2>1. session \in Sessions /\ Good(c, session, stored)
    BY <1>1 DEF IInv
  <2>2. ASSUME NEW f \in DOMAIN stored \ {0}
        PROVE  stored[f].scene = Max(stored[f].messages)
    <3>1. FrameType(stored[f]) /\ Shows(stored[f])
      BY <2>1 DEF Good, Stored
    <3>2. stored[f].messages \subseteq Int
      BY <3>1, ConfigAssumption DEF FrameType, Commits
    <3>3. Max(stored[f].messages) = stored[f].scene
      BY <3>1, <3>2, MaxIs DEF Shows
    <3> QED BY <3>3
  <2>3. ASSUME c.phase # "starting", ~c.error
        PROVE  LET upTo(f) == IF f = 0 THEN c.since ELSE stored[f].scene
                   oldest == upTo(Min(DOMAIN stored))
                   newest == upTo(Max(DOMAIN stored))
                   writing == IF c.job = "collect" THEN {} ELSE c.batch
               IN /\ (oldest + 1) .. newest \subseteq UNION {stored[f].messages : f \in DOMAIN stored}
                  /\ \A f, g \in DOMAIN stored : f # g => stored[f].messages \cap stored[g].messages = {}
                  /\ (newest + 1) .. session.revision = writing \cup c.buffer
                  /\ c.buffer # {} => session.action = "sent" \/ session.late
    <3> DEFINE upTo(f) == Last(c, stored, f)
               top == Newest(c)
               writing == IF c.job = "collect" THEN {} ELSE c.batch
    <3>1. InOrder(c, session, stored) /\ Waits(c, session, stored) /\ Typed(c, session)
      BY <2>1, <2>3 DEF Good, Keeps
    <3>2. PICK lo \in 0 .. FirstFrame(top) :
            DOMAIN stored = lo .. top /\ Complete(c, stored, lo)
      BY <2>1, <2>3 DEF Good, Keeps
    <3>3. /\ top \in Nat /\ top \in DOMAIN stored /\ upTo(top) \in 0 .. session.revision
      BY <2>1, <2>3, NewestIs
    <3>4. writing \cup c.buffer = (upTo(top) + 1) .. session.revision
      BY <3>1 DEF Waits, Typed
    <3>5. (upTo(lo) + 1) .. upTo(top) \subseteq UNION {stored[f].messages : f \in DOMAIN stored}
      <4>1. \A m \in (upTo(lo) + 1) .. upTo(top) : \E f \in DOMAIN stored : m \in stored[f].messages
        BY <3>2 DEF Complete
      <4> HIDE DEF upTo, top
      <4> QED BY <4>1
    <3> HIDE DEF top
    <3>6. lo \in DOMAIN stored /\ lo \in Int /\ lo <= top
      BY <3>2, <3>3
    <3>7. DOMAIN stored \subseteq Int /\ \A f \in DOMAIN stored : lo <= f /\ f <= top
      BY <3>2, <3>3, <3>6
    <3>8. Min(DOMAIN stored) = lo /\ Max(DOMAIN stored) = top
      BY <3>3, <3>6, <3>7, MinIs, MaxIs
    <3>9. ASSUME NEW f \in DOMAIN stored, NEW g \in DOMAIN stored, f < g
          PROVE  stored[f].messages \cap stored[g].messages = {}
      <4>1. \A m \in stored[f].messages : m <= upTo(f) /\ m \in Int
        <5>1. stored[f].messages \subseteq Int
          BY <2>1, ConfigAssumption DEF Good, Stored, FrameType, Commits
        <5> QED BY <3>1, <5>1 DEF InOrder
      <4>2. \A m \in stored[g].messages : m > upTo(f)
        BY <3>1, <3>9 DEF InOrder
      <4>3. upTo(f) \in Int
        BY <3>1 DEF InOrder
      <4> HIDE DEF upTo
      <4> QED BY <4>1, <4>2, <4>3
    <3>10. \A f, g \in DOMAIN stored : f # g => stored[f].messages \cap stored[g].messages = {}
      <4>1. \A f, g \in DOMAIN stored : f = g \/ f < g \/ g < f
        BY <3>7
      <4> QED BY <3>9, <4>1
    <3>11. c.buffer # {} => session.action = "sent" \/ session.late
      BY <1>1, <2>3 DEF KeptBack
    <3> HIDE DEF writing
    <3> QED BY <3>4, <3>5, <3>8, <3>10, <3>11, Zenon DEF Last, writing
  <2> QED BY <2>2, <2>3, Zenon DEF EveryCommitIsKept
<1> QED BY <1>1, Invariance, KeepingBack, PTL

\* A result of an action never meets a frame that is being written, so no action of the
\* run makes the collection fail (the hold of RecordingCollection.ts:275-276, 415-418).
THEOREM ResultsMeetNoHold == Spec => ResultsDoNotOverrun
<1>1. ASSUME IInv
      PROVE  c.pending => session.action # "sent"
  BY <1>1 DEF IInv, Good, Held
<1>2. IInv /\ [Next]_vars =>
        [session.action = "sent" /\ session'.action = "applied" /\ c.pending
           => c'.error = c.error]_vars
  BY <1>1
<1> QED BY <1>2, Invariance, PTL DEF Spec, ResultsDoNotOverrun

\* The parts of a window, seen as ranges: what it has, what is missing before that, and
\* what is missing or still to come after it.
LEMMA PartsOfAWindow ==
  ASSUME NEW x \in Windows, NEW n \in Nat, Split(x), Grown(x, n), Fresh(x, n),
         NEW lo \in 0 .. FirstFrame(n)
  PROVE  LET toCome == IF x.state = "pending" THEN (x.actual.to + 1) .. x.to ELSE {}
         IN /\ x.from .. x.to = (UNION {Parts(x)[k] : k \in 1 .. 3}) \cup toCome
            /\ \A k, l \in 1 .. 3 : k # l => Parts(x)[k] \cap Parts(x)[l] = {}
            /\ x.state = "complete" <=> Span(x.actual) = x.from .. x.to
            /\ Span(x.actual) \subseteq lo .. n
<1> DEFINE toCome == IF x.state = "pending" THEN (x.actual.to + 1) .. x.to ELSE {}
           b == x.actual.from
           e == x.actual.to
           A == Span(x.gap)
           B == Span(x.actual)
           C == Span(x.rest)
<1>1. /\ x.from \in Nat /\ x.to \in Nat /\ x.gap \in SpanType /\ x.rest \in SpanType
      /\ x.state \in {"pending", "partial", "complete"} /\ b \in Int /\ e \in Int
      /\ x.gap.from \in Int /\ x.gap.to \in Int /\ x.rest.from \in Int /\ x.rest.to \in Int
  BY DEF Windows, SpanType
<1>2. /\ x.from <= x.to /\ x.from <= b /\ b <= e + 1 /\ e <= x.to
      /\ IF x.gap = NoSpan THEN b = x.from
         ELSE x.gap.from = x.from /\ x.gap.to = b - 1 /\ x.gap.from <= x.gap.to
  BY DEF Split
<1>3. /\ x.state = "pending" => e = n /\ e < x.to /\ x.rest = NoSpan
      /\ x.state # "pending" =>
           \/ e = x.to /\ x.to <= n /\ x.rest = NoSpan
           \/ /\ x.state = "partial" /\ e = n /\ e < x.to
              /\ x.rest.from = e + 1 /\ x.rest.to = x.to
      /\ x.state = "complete" <=> (x.gap = NoSpan /\ e = x.to)
  BY DEF Grown
<1>4. B = b .. e
  BY DEF Span
<1>5. A = x.from .. (b - 1)
  <2>1. CASE x.gap = NoSpan
    <3>1. A = {} /\ b = x.from
      BY <1>2, <2>1 DEF Span, NoSpan
    <3>2. x.from .. (x.from - 1) = {}
      BY <1>1
    <3> QED BY <3>1, <3>2
  <2>2. CASE x.gap # NoSpan
    BY <1>2, <2>2 DEF Span
  <2> QED BY <2>1, <2>2
<1>6. /\ x.rest = NoSpan => C = {}
      /\ x.rest # NoSpan => C = (e + 1) .. x.to /\ x.state # "pending"
  <2>1. CASE x.rest = NoSpan
    BY <2>1 DEF Span, NoSpan
  <2>2. CASE x.rest # NoSpan
    BY <1>3, <2>2 DEF Span
  <2> QED BY <2>1, <2>2
<1>7. C \cup toCome = (e + 1) .. x.to /\ C \subseteq (e + 1) .. x.to
  <2>1. CASE x.state = "pending"
    BY <1>3, <1>6, <2>1
  <2>2. CASE x.state # "pending" /\ x.rest # NoSpan
    BY <1>6, <2>2
  <2>3. CASE x.state # "pending" /\ x.rest = NoSpan
    <3>1. e = x.to
      <4>1. x.rest.from = 0 /\ x.rest.to = -1
        BY <2>3 DEF NoSpan
      <4> QED BY <1>1, <1>3, <2>3, <4>1
    <3>2. (x.to + 1) .. x.to = {}
      BY <1>1
    <3> QED BY <1>6, <2>3, <3>1, <3>2
  <2> QED BY <2>1, <2>2, <2>3
<1>8. Parts(x)[1] = A /\ Parts(x)[2] = B /\ Parts(x)[3] = C
  BY DEF Parts
<1> HIDE DEF toCome, A, B, C
<1>9. x.from .. x.to = A \cup B \cup C \cup toCome
  <2>1. x.from .. x.to = A \cup B \cup ((e + 1) .. x.to)
    BY <1>1, <1>2, <1>4, <1>5, SMTT(30)
  <2> QED BY <1>7, <2>1
<1>10. UNION {Parts(x)[k] : k \in 1 .. 3} = A \cup B \cup C
  <2>1. \A k : k \in 1 .. 3 <=> k = 1 \/ k = 2 \/ k = 3
    OBVIOUS
  <2> QED BY <1>8, <2>1
<1>11. A \cap B = {} /\ A \cap C = {} /\ B \cap C = {}
  <2> DEFINE D == (e + 1) .. x.to
  <2>1. A \cap B = {} /\ A \cap D = {} /\ B \cap D = {}
    BY <1>1, <1>2, <1>4, <1>5
  <2> QED BY <1>7, <2>1
<1>12. \A k, l \in 1 .. 3 : k # l => Parts(x)[k] \cap Parts(x)[l] = {}
  <2>1. \A k : k \in 1 .. 3 <=> k = 1 \/ k = 2 \/ k = 3
    OBVIOUS
  <2> QED BY <1>8, <1>11, <2>1
<1>13. x.state = "complete" <=> B = x.from .. x.to
  <2>1. ASSUME x.state = "complete"
        PROVE  B = x.from .. x.to
    BY <1>2, <1>3, <1>4, <2>1
  <2>2. ASSUME B = x.from .. x.to
        PROVE  x.state = "complete"
    <3>1. b = x.from /\ e = x.to
      <4>1. x.from \in B /\ x.to \in B
        BY <1>1, <1>2, <2>2
      <4> QED BY <1>1, <1>2, <1>4, <4>1
    <3>2. x.gap = NoSpan
      BY <1>1, <1>2, <3>1
    <3> QED BY <1>3, <3>1, <3>2
  <2> QED BY <2>1, <2>2
<1>14. B \subseteq lo .. n
  <2> DEFINE first == FirstFrame(n)
  <2>1. first \in 0 .. n
    BY Retention
  <2>2. b >= first \/ b = e + 1
    BY DEF Fresh
  <2> HIDE DEF first
  <2>3. lo \in 0 .. first
    BY DEF first
  <2>4. e <= n
    BY <1>1, <1>3
  <2> QED BY <1>1, <1>4, <2>1, <2>2, <2>3, <2>4
<1>15. x.from .. x.to = (UNION {Parts(x)[k] : k \in 1 .. 3}) \cup toCome
  BY <1>9, <1>10
<1> QED BY <1>12, <1>13, <1>14, <1>15, Zenon DEF toCome, B

\* Every frame that a window asked for is in it, or said to be missing, or still to come,
\* and the frames it has can be read (the windows of RecordingCollection.ts:347-399, 517-525).
THEOREM WindowsAreExact == Spec => []WindowsAddUp
<1>1. ASSUME IInv
      PROVE  WindowsAddUp
  <2> SUFFICES ASSUME c.job \notin {"append", "collect"}, ~c.error,
                      NEW i \in DOMAIN c.windows
               PROVE  LET x == c.windows[i]
                          toCome == IF x.state = "pending" THEN (x.actual.to + 1) .. x.to ELSE {}
                      IN /\ x.from .. x.to = (UNION {Parts(x)[k] : k \in 1 .. 3}) \cup toCome
                         /\ \A k, l \in 1 .. 3 : k # l => Parts(x)[k] \cap Parts(x)[l] = {}
                         /\ x.state = "complete" <=> Span(x.actual) = x.from .. x.to
                         /\ Span(x.actual) \subseteq DOMAIN stored
    BY DEF WindowsAddUp
  <2>1. session \in Sessions /\ Good(c, session, stored) /\ Windowed(c)
    BY <1>1 DEF IInv, Good
  <2>2. /\ c.windows \in Seq(Windows)
        /\ c.phase = "starting" => Len(c.windows) = 0
        /\ \A j \in 1 .. Len(c.windows) :
             /\ Split(c.windows[j]) /\ Fresh(c.windows[j], Seen(c))
             /\ Grown(c.windows[j], Seen(c))
    BY <2>1 DEF Windowed
  <2>3. i \in 1 .. Len(c.windows) /\ c.windows[i] \in Windows
    BY <2>2
  <2>4. c.phase # "starting"
    BY <2>2, <2>3
  <2>5. Seen(c) = Newest(c)
    BY DEF Seen, Newest
  <2>6. Newest(c) \in Nat
    BY <2>1, <2>4, NewestIs
  <2>7. PICK lo \in 0 .. FirstFrame(Newest(c)) : DOMAIN stored = lo .. Newest(c)
    BY <2>1, <2>4 DEF Good, Keeps
  <2> DEFINE x == c.windows[i]
             n == Newest(c)
  <2>8. Split(x) /\ Fresh(x, n) /\ Grown(x, n) /\ x \in Windows
    BY <2>2, <2>3, <2>5
  <2> HIDE DEF x, n
  <2>9. LET toCome == IF x.state = "pending" THEN (x.actual.to + 1) .. x.to ELSE {}
        IN /\ x.from .. x.to = (UNION {Parts(x)[k] : k \in 1 .. 3}) \cup toCome
           /\ \A k, l \in 1 .. 3 : k # l => Parts(x)[k] \cap Parts(x)[l] = {}
           /\ x.state = "complete" <=> Span(x.actual) = x.from .. x.to
           /\ Span(x.actual) \subseteq lo .. n
    BY <2>6, <2>7, <2>8, PartsOfAWindow DEF n
  <2> QED BY <2>7, <2>9 DEF x, n
<1> QED BY <1>1, Invariance, PTL

-----------------------------------------------------------------------------
(* Lemmas: sums over finite sets. MapThenSumSet takes one element after    *)
(* another; that the order does not matter is by smallest counterexample.  *)

Pick(s) == CHOOSE x \in s : TRUE

Unfolds(b, S, g) ==
  g = [s \in SUBSET S |-> IF s = {} THEN 0 ELSE b[Pick(s)] + g[s \ {Pick(s)}]]

Unfolding(b, S) == CHOOSE g : Unfolds(b, S, g)

\* The sum of b[x] for x in S.
Total(b, S) == Unfolding(b, S)[S]

LEMMA Smallest ==
  ASSUME NEW B, B # {}, \A T \in B : IsFiniteSet(T)
  PROVE  \E T \in B : \A U \in B : ~(Cardinality(U) < Cardinality(T))
<1> DEFINE N == {n \in Nat : \E T \in B : Cardinality(T) = n}
<1>1. \A T \in B : Cardinality(T) \in N
  BY FS_CardinalityType
<1>2. PICK n \in N : \A m \in N : ~(<<m, n>> \in OpToRel(<, Nat))
  <2> HIDE DEF N
  <2>1. N # {}
    BY <1>1
  <2>2. N \subseteq Nat
    BY DEF N
  <2> QED BY <2>1, <2>2, WFMin, NatLessThanWellFounded, Zenon
<1>3. \A m \in N : ~(m < n)
  BY <1>2 DEF OpToRel
<1> QED BY <1>1, <1>3

LEMMA Picked == ASSUME NEW s, s # {} PROVE Pick(s) \in s
BY DEF Pick

LEMMA Smaller ==
  ASSUME NEW S, IsFiniteSet(S), NEW x \in S
  PROVE  IsFiniteSet(S \ {x}) /\ Cardinality(S \ {x}) < Cardinality(S)
<1>1. Cardinality(S) \in Nat
  BY FS_CardinalityType
<1> QED BY <1>1, FS_RemoveElement

LEMMA UnfoldingsAgree ==
  ASSUME NEW b, NEW S, NEW T, IsFiniteSet(S), S \subseteq T,
         NEW g, NEW h, Unfolds(b, S, g), Unfolds(b, T, h)
  PROVE  \A s \in SUBSET S : g[s] = h[s]
<1> DEFINE B == {s \in SUBSET S : g[s] # h[s]}
<1> SUFFICES ASSUME B # {} PROVE FALSE
  OBVIOUS
<1>1. \A s \in B : IsFiniteSet(s)
  BY FS_Subset
<1>2. PICK s \in B : \A u \in B : ~(Cardinality(u) < Cardinality(s))
  <2> HIDE DEF B
  <2> QED BY <1>1, Smallest
<1>3. s \subseteq S /\ s \subseteq T /\ IsFiniteSet(s)
  BY <1>1
<1>4. /\ g[s] = IF s = {} THEN 0 ELSE b[Pick(s)] + g[s \ {Pick(s)}]
      /\ h[s] = IF s = {} THEN 0 ELSE b[Pick(s)] + h[s \ {Pick(s)}]
  BY <1>3 DEF Unfolds
<1>5. s # {}
  BY <1>4
<1>6. s \ {Pick(s)} \notin B
  BY <1>2, <1>3, <1>5, Picked, Smaller
<1>7. s \ {Pick(s)} \in SUBSET S
  BY <1>3
<1> QED BY <1>4, <1>6, <1>7

LEMMA Unfolded ==
  ASSUME NEW b, NEW S, IsFiniteSet(S)
  PROVE  Unfolds(b, S, Unfolding(b, S))
<1> DEFINE B == {T \in SUBSET S : ~(\E g : Unfolds(b, T, g))}
<1>1. \A T : (\E g : Unfolds(b, T, g)) => Unfolds(b, T, Unfolding(b, T))
  BY DEF Unfolding
<1> SUFFICES ASSUME B # {} PROVE FALSE
  BY <1>1
<1>2. \A T \in B : IsFiniteSet(T)
  BY FS_Subset
<1>3. PICK T \in B : \A U \in B : ~(Cardinality(U) < Cardinality(T))
  <2> HIDE DEF B
  <2> QED BY <1>2, Smallest
<1>4. T \subseteq S /\ IsFiniteSet(T)
  BY <1>2
<1>5. \A U \in SUBSET T : U # T => Unfolds(b, U, Unfolding(b, U)) /\ IsFiniteSet(U)
  <2> SUFFICES ASSUME NEW U \in SUBSET T, U # T
               PROVE  Unfolds(b, U, Unfolding(b, U)) /\ IsFiniteSet(U)
    OBVIOUS
  <2>1. IsFiniteSet(U) /\ Cardinality(U) < Cardinality(T)
    BY <1>4, FS_Subset, FS_CardinalityType
  <2>2. U \notin B /\ U \in SUBSET S
    BY <1>3, <1>4, <2>1
  <2> QED BY <1>1, <2>1, <2>2
<1> DEFINE g == [s \in SUBSET T |-> IF s = {} THEN 0 ELSE b[Pick(s)] + Total(b, s \ {Pick(s)})]
<1>6. \A s \in SUBSET T : s # {} => g[s \ {Pick(s)}] = Total(b, s \ {Pick(s)})
  <2> SUFFICES ASSUME NEW s \in SUBSET T, s # {}
               PROVE  g[s \ {Pick(s)}] = Total(b, s \ {Pick(s)})
    OBVIOUS
  <2> DEFINE u == s \ {Pick(s)}
             v == u \ {Pick(u)}
  <2>1. u \in SUBSET T /\ u # T
    BY Picked
  <2>2. v \in SUBSET T /\ v # T /\ v \in SUBSET u /\ v \in SUBSET v /\ u \in SUBSET u
    BY <2>1
  <2>3. g[u] = IF u = {} THEN 0 ELSE b[Pick(u)] + Total(b, v)
    BY <2>1
  <2>4. Unfolds(b, u, Unfolding(b, u)) /\ Unfolds(b, v, Unfolding(b, v)) /\ IsFiniteSet(v)
    BY <1>5, <2>1, <2>2
  <2> HIDE DEF g, u, v
  <2>5. Unfolding(b, v)[v] = Unfolding(b, u)[v]
    BY <2>2, <2>4, UnfoldingsAgree
  <2>6. Unfolding(b, u)[u] = IF u = {} THEN 0 ELSE b[Pick(u)] + Unfolding(b, u)[v]
    BY <2>2, <2>4 DEF Unfolds, v
  <2>7. g[u] = Total(b, u)
    BY <2>3, <2>5, <2>6 DEF Total
  <2> QED BY <2>7 DEF u
<1>7. Unfolds(b, T, g)
  BY <1>6 DEF Unfolds
<1> QED BY <1>7

LEMMA TotalIs ==
  ASSUME NEW b, NEW S, IsFiniteSet(S)
  PROVE  Total(b, S) = IF S = {} THEN 0 ELSE b[Pick(S)] + Total(b, S \ {Pick(S)})
<1> DEFINE u == S \ {Pick(S)}
<1>1. IsFiniteSet(u) /\ u \subseteq S
  BY FS_Subset
<1>2. Unfolds(b, S, Unfolding(b, S)) /\ Unfolds(b, u, Unfolding(b, u))
  BY <1>1, Unfolded
<1>3. Unfolding(b, u)[u] = Unfolding(b, S)[u]
  <2> HIDE DEF u
  <2> QED BY <1>1, <1>2, UnfoldingsAgree
<1> QED BY <1>2, <1>3 DEF Total, Unfolds

\* One element more or less.
LEMMA TotalAdds ==
  ASSUME NEW b, NEW S, IsFiniteSet(S), \A x \in S : b[x] \in Int
  PROVE  /\ Total(b, S) \in Int /\ Total(b, {}) = 0
         /\ \A x \in S : Total(b, S) = b[x] + Total(b, S \ {x})
<1> DEFINE Sound(T) == Total(b, T) \in Int /\ \A x \in T : Total(b, T) = b[x] + Total(b, T \ {x})
           B == {T \in SUBSET S : ~Sound(T)}
<1>0. Total(b, {}) = 0
  BY TotalIs, FS_EmptySet
<1> SUFFICES ASSUME B # {} PROVE FALSE
  BY <1>0
<1>1. \A T \in SUBSET S : IsFiniteSet(T)
  BY FS_Subset
<1>2. PICK T \in B : \A U \in B : ~(Cardinality(U) < Cardinality(T))
  <2>1. \A T \in B : IsFiniteSet(T)
    BY <1>1
  <2> HIDE DEF B
  <2> QED BY <2>1, Smallest
<1>3. T \in SUBSET S /\ IsFiniteSet(T)
  BY <1>1
<1>4. \A U \in SUBSET T : U # T => Sound(U)
  <2> SUFFICES ASSUME NEW U \in SUBSET T, U # T PROVE Sound(U)
    OBVIOUS
  <2>1. IsFiniteSet(U) /\ Cardinality(U) < Cardinality(T)
    BY <1>3, FS_Subset, FS_CardinalityType
  <2>2. U \in SUBSET S
    BY <1>3
  <2>3. U \notin B
    BY <1>2, <2>1
  <2> QED BY <2>2, <2>3
<1>5. T # {}
  <2>1. Sound({})
    BY <1>0
  <2> HIDE DEF Sound
  <2> QED BY <1>2, <2>1
<1> DEFINE y == Pick(T)
<1>6. y \in T /\ Total(b, T) = b[y] + Total(b, T \ {y})
  BY <1>3, <1>5, TotalIs, Picked
<1>7. Total(b, T) \in Int
  BY <1>3, <1>4, <1>6
<1>8. ASSUME NEW x \in T PROVE Total(b, T) = b[x] + Total(b, T \ {x})
  <2> HIDE DEF y
  <2>1. CASE x = y
    BY <1>6, <2>1
  <2>2. CASE x # y
    <3> DEFINE u == T \ {x}
               v == T \ {y}
               r == u \ {y}
    <3>1. /\ v \ {x} = r /\ x \in v /\ y \in u
          /\ u \in SUBSET T /\ u # T /\ v \in SUBSET T /\ v # T /\ r \in SUBSET T /\ r # T
      BY <1>6, <2>2
    <3>2. Total(b, u) \in Int /\ Total(b, v) \in Int /\ Total(b, r) \in Int
      BY <1>4, <3>1
    <3>3. Total(b, v) = b[x] + Total(b, r) /\ Total(b, u) = b[y] + Total(b, r)
      <4> HIDE DEF u, v, r
      <4> QED BY <1>4, <3>1 DEF r
    <3>4. b[x] \in Int /\ b[y] \in Int /\ Total(b, T) = b[y] + Total(b, v)
      BY <1>3, <1>6
    <3> HIDE DEF u, v, r
    <3>5. Total(b, T) = b[x] + Total(b, u)
      BY <3>2, <3>3, <3>4
    <3> QED BY <3>5 DEF u
  <2> QED BY <2>1, <2>2
<1> QED BY <1>2, <1>7, <1>8

LEMMA TotalOfSame ==
  ASSUME NEW b, NEW d, NEW S, \A x \in S : b[x] = d[x]
  PROVE  Total(b, S) = Total(d, S)
<1>1. \A s \in SUBSET S : s # {} => b[Pick(s)] = d[Pick(s)]
  BY Picked
<1>2. \A g : Unfolds(b, S, g) <=> Unfolds(d, S, g)
  <2> SUFFICES ASSUME NEW g PROVE Unfolds(b, S, g) <=> Unfolds(d, S, g)
    OBVIOUS
  <2>1. [s \in SUBSET S |-> IF s = {} THEN 0 ELSE b[Pick(s)] + g[s \ {Pick(s)}]]
        = [s \in SUBSET S |-> IF s = {} THEN 0 ELSE d[Pick(s)] + g[s \ {Pick(s)}]]
    BY <1>1
  <2> QED BY <2>1 DEF Unfolds
<1> QED BY <1>2 DEF Total, Unfolding

\* A part and the rest.
LEMMA TotalWithout ==
  ASSUME NEW b, NEW S, IsFiniteSet(S), \A x \in S : b[x] \in Nat, NEW R \in SUBSET S
  PROVE  /\ Total(b, S \ R) = Total(b, S) - Total(b, R)
         /\ Total(b, S) \in Nat /\ Total(b, R) \in Nat /\ Total(b, R) <= Total(b, S)
<1> DEFINE Sound(T) == Total(b, S \ T) = Total(b, S) - Total(b, T)
           B == {T \in SUBSET S : ~Sound(T)}
           N == {T \in SUBSET S : Total(b, T) \notin Nat}
<1>1. \A T \in SUBSET S :
        /\ IsFiniteSet(T) /\ Total(b, T) \in Int
        /\ \A x \in T : Total(b, T) = b[x] + Total(b, T \ {x}) /\ b[x] \in Nat
  BY FS_Subset, TotalAdds
<1>2. Total(b, {}) = 0
  BY TotalIs, FS_EmptySet
<1>3. N = {}
  <2> SUFFICES ASSUME N # {} PROVE FALSE
    OBVIOUS
  <2>1. PICK T \in N : \A U \in N : ~(Cardinality(U) < Cardinality(T))
    <3>1. \A T \in N : IsFiniteSet(T)
      BY <1>1
    <3> HIDE DEF N
    <3> QED BY <3>1, Smallest
  <2>2. PICK x \in T : TRUE
    BY <1>2, <2>1
  <2>3. T \ {x} \notin N /\ T \ {x} \in SUBSET S
    BY <1>1, <2>1, Smaller
  <2> QED BY <1>1, <2>1, <2>3
<1>4. B = {}
  <2> SUFFICES ASSUME B # {} PROVE FALSE
    OBVIOUS
  <2>1. PICK T \in B : \A U \in B : ~(Cardinality(U) < Cardinality(T))
    <3>1. \A T \in B : IsFiniteSet(T)
      BY <1>1
    <3> HIDE DEF B
    <3> QED BY <3>1, Smallest
  <2>2. T # {}
    <3>1. S \ {} = S /\ Total(b, S) \in Int
      BY <1>1
    <3> QED BY <1>2, <2>1, <3>1
  <2>3. PICK x \in T : TRUE
    BY <2>2
  <2>4. T \in SUBSET S /\ T \ {x} \in SUBSET S /\ Sound(T \ {x})
    BY <1>1, <2>1, Smaller
  <2>5. x \in S \ (T \ {x}) /\ S \ (T \ {x}) \in SUBSET S /\ (S \ (T \ {x})) \ {x} = S \ T
        /\ S \ T \in SUBSET S
    BY <2>4
  <2> DEFINE A == S \ (T \ {x})
             C == S \ T
             D == T \ {x}
  <2>6. /\ Total(b, A) = b[x] + Total(b, C) /\ Total(b, T) = b[x] + Total(b, D)
        /\ Total(b, A) = Total(b, S) - Total(b, D)
        /\ b[x] \in Int /\ Total(b, C) \in Int /\ Total(b, D) \in Int /\ Total(b, S) \in Int
    <3>1. A \in SUBSET S /\ C \in SUBSET S /\ D \in SUBSET S /\ T \in SUBSET S /\ S \in SUBSET S
          /\ x \in A /\ A \ {x} = C /\ D = T \ {x} /\ x \in T
      BY <2>4, <2>5
    <3>2. Total(b, A) = Total(b, S) - Total(b, D)
      BY <2>4
    <3> HIDE DEF A, C, D
    <3>3. Total(b, A) = b[x] + Total(b, A \ {x})
      BY <1>1, <3>1
    <3>4. Total(b, T) = b[x] + Total(b, T \ {x}) /\ b[x] \in Int
      BY <1>1, <3>1
    <3> QED BY <1>1, <3>1, <3>2, <3>3, <3>4
  <2>7. Sound(T)
    <3>1. Total(b, C) = Total(b, S) - Total(b, T)
      <4> HIDE DEF A, C, D
      <4> QED BY <2>6
    <3> QED BY <3>1
  <2> QED BY <2>1, <2>7
<1>5. Total(b, S) \in Nat /\ Total(b, R) \in Nat /\ Total(b, S \ R) \in Nat
  BY <1>3
<1> QED BY <1>4, <1>5

\* The charges of the frames in D.
Charges(b, D) == {[frame |-> f, bytes |-> b[f]] : f \in D}

LEMMA ChargesAddUp ==
  ASSUME NEW b, NEW D, IsFiniteSet(D), \A f \in D : b[f] \in Nat
  PROVE  /\ IsFiniteSet(Charges(b, D)) /\ Cardinality(Charges(b, D)) = Cardinality(D)
         /\ MapThenSumSet(LAMBDA x : x.bytes, Charges(b, D)) = Total(b, D)
<1> DEFINE w == [x \in Charges(b, D) |-> x.bytes]
           Sound(R) == /\ IsFiniteSet(Charges(b, R)) /\ Cardinality(Charges(b, R)) = Cardinality(R)
                       /\ Total(w, Charges(b, R)) = Total(b, R)
           B == {R \in SUBSET D : ~Sound(R)}
<1>1. \A R \in SUBSET D : IsFiniteSet(R)
  BY FS_Subset
<1>2. B = {}
  <2> SUFFICES ASSUME B # {} PROVE FALSE
    OBVIOUS
  <2>1. PICK R \in B : \A U \in B : ~(Cardinality(U) < Cardinality(R))
    <3>1. \A T \in B : IsFiniteSet(T)
      BY <1>1
    <3> HIDE DEF B
    <3> QED BY <3>1, Smallest
  <2>2. R # {}
    <3>1. Charges(b, {}) = {}
      BY DEF Charges
    <3>2. Sound({})
      BY <3>1, FS_EmptySet, TotalIs
    <3> HIDE DEF Sound
    <3> QED BY <2>1, <3>2
  <2>3. PICK f \in R : TRUE
    BY <2>2
  <2> DEFINE r == [frame |-> f, bytes |-> b[f]]
             Q == R \ {f}
  <2>4. R \in SUBSET D /\ Q \in SUBSET D /\ Sound(Q) /\ IsFiniteSet(Q) /\ IsFiniteSet(R)
    BY <1>1, <2>1, Smaller
  <2>5. /\ Charges(b, R) = Charges(b, Q) \cup {r} /\ r \notin Charges(b, Q)
        /\ Charges(b, R) \ {r} = Charges(b, Q) /\ r \in Charges(b, R) /\ R = Q \cup {f} /\ f \notin Q
    <3>1. R = Q \cup {f} /\ f \notin Q
      OBVIOUS
    <3>2. \A x \in Charges(b, Q) : x.frame \in Q
      BY DEF Charges
    <3>3. r.frame = f
      OBVIOUS
    <3> HIDE DEF Q
    <3>4. Charges(b, R) = Charges(b, Q) \cup {r}
      BY <3>1 DEF Charges
    <3> HIDE DEF r
    <3>5. r \notin Charges(b, Q)
      BY <3>1, <3>2, <3>3
    <3> QED BY <3>1, <3>4, <3>5
  <2>6. \A x \in Charges(b, R) : w[x] \in Int
    BY <2>4 DEF Charges
  <2>7. w[r] = b[f] /\ b[f] \in Int /\ \A x \in R : b[x] \in Int
    BY <2>4 DEF Charges
  <2> HIDE DEF w, r, Q
  <2>8. IsFiniteSet(Charges(b, R)) /\ Cardinality(Charges(b, R)) = Cardinality(R)
    BY <2>4, <2>5, FS_AddElement
  <2>9. Total(w, Charges(b, R)) = b[f] + Total(b, Q)
    BY <2>4, <2>5, <2>6, <2>7, <2>8, TotalAdds
  <2>10. Total(b, R) = b[f] + Total(b, Q)
    BY <2>4, <2>7, TotalAdds DEF Q
  <2> QED BY <2>1, <2>8, <2>9, <2>10
<1>3. MapThenSumSet(LAMBDA x : x.bytes, Charges(b, D)) = Total(w, Charges(b, D))
  <2> DEFINE S == Charges(b, D)
             Bytes(g) == g = [s \in SUBSET S |-> IF s = {} THEN 0 ELSE Pick(s).bytes + g[s \ {Pick(s)}]]
  <2>1. MapThenSumSet(LAMBDA x : x.bytes, S) = (CHOOSE g : Bytes(g))[S]
    BY DEF MapThenSumSet, MapThenFoldSet, Pick
  <2>2. \A s \in SUBSET S : s # {} => w[Pick(s)] = Pick(s).bytes
    BY Picked
  <2>3. \A g : Bytes(g) <=> Unfolds(w, S, g)
    BY <2>2 DEF Unfolds
  <2> HIDE DEF Bytes, w, S
  <2> QED BY <2>1, <2>3 DEF Total, Unfolding, S
<1> QED BY <1>2, <1>3

LEMMA StoredBytesAddUp ==
  ASSUME NEW S
  PROVE  MapThenSumSet(LAMBDA f : stored[f].bytes, S) = Total([f \in S |-> stored[f].bytes], S)
<1> DEFINE w == [f \in S |-> stored[f].bytes]
           Bytes(g) == g = [s \in SUBSET S |-> IF s = {} THEN 0 ELSE stored[Pick(s)].bytes + g[s \ {Pick(s)}]]
<1>1. MapThenSumSet(LAMBDA f : stored[f].bytes, S) = (CHOOSE g : Bytes(g))[S]
  BY DEF MapThenSumSet, MapThenFoldSet, Pick
<1>2. \A s \in SUBSET S : s # {} => w[Pick(s)] = stored[Pick(s)].bytes
  BY Picked
<1>3. \A g : Bytes(g) <=> Unfolds(w, S, g)
  BY <1>2 DEF Unfolds
<1>4. MapThenSumSet(LAMBDA f : stored[f].bytes, S) = Total(w, S)
  <2> HIDE DEF Bytes, w
  <2> QED BY <1>1, <1>3 DEF Total, Unfolding
<1> QED BY <1>4

-----------------------------------------------------------------------------
(* The budget of checkpoints *)

\* D are the frames whose checkpoints are charged, b their sizes. A rolling collection
\* knows them; in a full history the charge stays when the checkpoint is forgotten. Every
\* checkpoint in the range that the store retains is charged, and the one of the frame
\* that is being written.
Ledger(v, st, b, D) ==
  /\ D \subseteq 0 .. v.frame /\ b \in [D -> Nat]
  /\ v.count = Cardinality(D) /\ v.count <= MaxCount
  /\ v.bytes = Total(b, D) /\ v.bytes <= MaxBytes
  /\ config.mode = "rolling" => v.checkpoints = Charges(b, D)
  /\ v.job = "capture" => v.frame \notin D
  /\ v.job = "append" =>
       /\ v.draft.bytes \in Nat
       /\ v.draft.bytes > 0 => v.frame \in D /\ b[v.frame] = v.draft.bytes
  /\ \A f \in DOMAIN st :
       /\ st[f].bytes \in Nat
       /\ f >= FirstFrame(v.frame) /\ st[f].bytes > 0 => f \in D /\ b[f] = st[f].bytes

Charged(v, st) == \E D \in SUBSET Nat : \E b \in [D -> Nat] : Ledger(v, st, b, D)

LEMMA FramesAreFinite ==
  ASSUME NEW n \in Nat, NEW D, D \subseteq 0 .. n
  PROVE  IsFiniteSet(D)
<1>1. IsFiniteSet(0 .. n)
  BY FS_Interval
<1> QED BY <1>1, FS_Subset

\* The account of v is that of w, whose frames are those of v, or the one v was writing.
LEMMA SameAccount ==
  ASSUME NEW v, NEW st, Charged(v, st), NEW w, NEW st2,
         w.frame = v.frame, w.count = v.count, w.bytes = v.bytes,
         config.mode = "rolling" => w.checkpoints = v.checkpoints,
         w.job = "capture" => v.job = "capture",
         w.job = "append" => v.job = "append" /\ w.draft = v.draft,
         \A f \in DOMAIN st2 : \/ f \in DOMAIN st /\ st2[f] = st[f]
                               \/ f = v.frame /\ v.job = "append" /\ st2[f] = v.draft
  PROVE  Charged(w, st2)
<1>1. PICK D \in SUBSET Nat : \E b \in [D -> Nat] : Ledger(v, st, b, D)
  BY DEF Charged
<1>2. PICK b \in [D -> Nat] : Ledger(v, st, b, D)
  BY <1>1
<1>3. \A f \in DOMAIN st2 :
        /\ st2[f].bytes \in Nat
        /\ f >= FirstFrame(w.frame) /\ st2[f].bytes > 0 => f \in D /\ b[f] = st2[f].bytes
  BY <1>2 DEF Ledger
<1>4. Ledger(w, st2, b, D)
  BY <1>2, <1>3 DEF Ledger
<1> QED BY <1>4 DEF Charged

\* A frame begins: the charges of forgotten frames are taken back.
LEMMA EvictedAccount ==
  ASSUME config \in Configs, NEW v, NEW st, Charged(v, st), v.frame \in Nat,
         DOMAIN st \subseteq 0 .. v.frame, NEW w, w.frame = v.frame + 1, w.job = "capture",
         NEW gone, gone = {x \in v.checkpoints : config.mode = "rolling" /\ x.frame < FirstFrame(w.frame)},
         w.checkpoints = v.checkpoints \ gone, w.count = v.count - Cardinality(gone),
         w.bytes = v.bytes - MapThenSumSet(LAMBDA x : x.bytes, gone)
  PROVE  Charged(w, st)
<1>1. PICK D \in SUBSET Nat : \E b \in [D -> Nat] : Ledger(v, st, b, D)
  BY DEF Charged
<1>2. PICK b \in [D -> Nat] : Ledger(v, st, b, D)
  BY <1>1
<1>3. IsFiniteSet(D) /\ D \subseteq 0 .. v.frame
  BY <1>2, FramesAreFinite DEF Ledger
<1>4. FirstFrame(v.frame) \in Nat /\ FirstFrame(w.frame) \in Nat /\ FirstFrame(v.frame) <= FirstFrame(w.frame)
  BY Retention
<1> DEFINE G == {f \in D : config.mode = "rolling" /\ f < FirstFrame(w.frame)}
           E == D \ G
           e == [f \in E |-> b[f]]
<1>5. G \subseteq D /\ E \subseteq D /\ E = D \ G /\ e \in [E -> Nat] /\ \A f \in E : e[f] = b[f]
  OBVIOUS
<1>6. gone = Charges(b, G)
  <2>1. CASE config.mode = "rolling"
    <3>1. v.checkpoints = Charges(b, D)
      BY <1>2, <2>1 DEF Ledger
    <3> QED BY <2>1, <3>1 DEF Charges
  <2>2. CASE config.mode # "rolling"
    BY <2>2 DEF Charges
  <2> QED BY <2>1, <2>2
<1>7. config.mode = "rolling" => w.checkpoints = Charges(e, E)
  <2> SUFFICES ASSUME config.mode = "rolling" PROVE w.checkpoints = Charges(e, E)
    OBVIOUS
  <2>1. v.checkpoints = Charges(b, D)
    BY <1>2 DEF Ledger
  <2>2. Charges(b, D) \ Charges(b, G) = Charges(b, E)
    <3>1. \A f \in D, g \in D : [frame |-> f, bytes |-> b[f]] = [frame |-> g, bytes |-> b[g]] => f = g
      <4> SUFFICES ASSUME NEW f \in D, NEW g \in D, [frame |-> f, bytes |-> b[f]] = [frame |-> g, bytes |-> b[g]]
                   PROVE  f = g
        OBVIOUS
      <4>1. [frame |-> f, bytes |-> b[f]].frame = [frame |-> g, bytes |-> b[g]].frame
        OBVIOUS
      <4> QED BY <4>1
    <3> HIDE DEF G, E
    <3> QED BY <1>5, <3>1 DEF Charges
  <2>3. Charges(b, E) = Charges(e, E)
    <3> HIDE DEF E, e
    <3> QED BY <1>5 DEF Charges
  <2> QED BY <1>6, <2>1, <2>2, <2>3
<1>8. IsFiniteSet(G) /\ IsFiniteSet(E) /\ \A f \in D : b[f] \in Nat
  BY <1>2, <1>3, <1>5, FS_Subset
<1> HIDE DEF G, E, e
<1>9. /\ w.count = Cardinality(E) /\ w.count <= MaxCount
      /\ w.bytes = Total(e, E) /\ w.bytes <= MaxBytes
  <2>1. Cardinality(gone) = Cardinality(G) /\ MapThenSumSet(LAMBDA x : x.bytes, gone) = Total(b, G)
    <3>1. \A f \in G : b[f] \in Nat
      BY <1>5, <1>8
    <3> QED BY <1>6, <1>8, <3>1, ChargesAddUp
  <2>2. Total(b, E) = Total(b, D) - Total(b, G) /\ Total(b, D) \in Nat /\ Total(b, G) \in Nat
    BY <1>3, <1>5, <1>8, TotalWithout
  <2>3. Total(e, E) = Total(b, E)
    BY <1>5, TotalOfSame
  <2>4. Cardinality(E) = Cardinality(D) - Cardinality(G)
    <3>1. D = E \cup G /\ E \cap G = {}
      BY <1>5
    <3>2. Cardinality(D) = Cardinality(E) + Cardinality(G) - Cardinality({})
      BY <1>8, <3>1, FS_Union
    <3> QED BY <1>8, <3>2, FS_EmptySet, FS_CardinalityType
  <2>5. Cardinality(G) \in Nat /\ Cardinality(D) \in Nat /\ Cardinality(E) \in Nat
    BY <1>3, <1>8, FS_CardinalityType
  <2>6. v.count = Cardinality(D) /\ v.count <= MaxCount /\ v.bytes = Total(b, D) /\ v.bytes <= MaxBytes
    BY <1>2 DEF Ledger
  <2> QED BY <2>1, <2>2, <2>3, <2>4, <2>5, <2>6, ConfigAssumption
<1>10. \A f \in DOMAIN st :
         /\ st[f].bytes \in Nat
         /\ f >= FirstFrame(w.frame) /\ st[f].bytes > 0 => f \in E /\ e[f] = st[f].bytes
  <2> SUFFICES ASSUME NEW f \in DOMAIN st
               PROVE  /\ st[f].bytes \in Nat
                      /\ f >= FirstFrame(w.frame) /\ st[f].bytes > 0 => f \in E /\ e[f] = st[f].bytes
    OBVIOUS
  <2>1. f \in Nat
    OBVIOUS
  <2>2. /\ st[f].bytes \in Nat
        /\ f >= FirstFrame(v.frame) /\ st[f].bytes > 0 => f \in D /\ b[f] = st[f].bytes
    BY <1>2 DEF Ledger
  <2> QED BY <1>4, <1>5, <2>1, <2>2 DEF G
<1>11. w.frame \notin E /\ E \subseteq 0 .. w.frame
  BY <1>3, <1>5
<1>12. Ledger(w, st, e, E)
  BY <1>5, <1>7, <1>9, <1>10, <1>11 DEF Ledger
<1>13. E \in SUBSET Nat
  BY <1>5
<1> QED BY <1>5, <1>12, <1>13 DEF Charged

\* A captured frame is charged with its checkpoint, if the budget allows.
LEMMA RetainedAccount ==
  ASSUME NEW v, NEW st, Charged(v, st), v.frame \in Nat, DOMAIN st \subseteq 0 .. v.frame,
         v.job = "capture", NEW kept \in Nat, kept > 0 => ~TooLarge(v, kept),
         NEW w, w.frame = v.frame, w.job = "append", w.draft.bytes = kept,
         kept = 0 => /\ w.count = v.count /\ w.bytes = v.bytes /\ w.checkpoints = v.checkpoints,
         kept > 0 => /\ w.count = v.count + 1 /\ w.bytes = v.bytes + kept
                     /\ w.checkpoints = v.checkpoints \cup {[frame |-> v.frame, bytes |-> kept]},
         v.frame \notin DOMAIN st
  PROVE  Charged(w, st)
<1>1. PICK D \in SUBSET Nat : \E b \in [D -> Nat] : Ledger(v, st, b, D)
  BY DEF Charged
<1>2. PICK b \in [D -> Nat] : Ledger(v, st, b, D)
  BY <1>1
<1>3. CASE kept = 0
  <2>1. Ledger(w, st, b, D)
    BY <1>2, <1>3 DEF Ledger
  <2> QED BY <2>1 DEF Charged
<1>4. CASE kept > 0
  <2> DEFINE n == v.frame
             E == D \cup {n}
             e == [f \in E |-> IF f = n THEN kept ELSE b[f]]
  <2>1. /\ IsFiniteSet(D) /\ n \notin D /\ D \subseteq 0 .. n /\ n \in Nat
        /\ \A f \in D : b[f] \in Nat
    BY <1>2, FramesAreFinite DEF Ledger
  <2>2. /\ E \in SUBSET Nat /\ e \in [E -> Nat] /\ e[n] = kept /\ \A f \in D : e[f] = b[f]
        /\ E \ {n} = D /\ n \in E /\ E = D \cup {n}
    BY <2>1
  <2>3. [frame |-> n, bytes |-> kept] = [frame |-> n, bytes |-> e[n]]
    BY <2>2
  <2> HIDE DEF n, E, e
  <2>4. IsFiniteSet(E) /\ Cardinality(E) = Cardinality(D) + 1
    BY <2>1, <2>2, FS_AddElement
  <2>5. Total(e, E) = kept + Total(b, D) /\ Total(b, D) \in Int
    <3>1. \A f \in E : e[f] \in Int
      <4>1. e \in [E -> Nat]
        BY <2>2
      <4>2. \A f \in E : e[f] \in Nat
        BY <4>1
      <4> QED BY <4>2
    <3>2. Total(e, E) = e[n] + Total(e, E \ {n})
      <4>1. \A x \in E : Total(e, E) = e[x] + Total(e, E \ {x})
        BY <2>4, <3>1, TotalAdds
      <4>2. n \in E
        BY <2>2
      <4> QED BY <4>1, <4>2, Zenon
    <3>3. Total(e, D) = Total(b, D)
      <4>1. \A f \in D : e[f] = b[f]
        BY <2>2
      <4>2. (\A f \in D : e[f] = b[f]) => Total(e, D) = Total(b, D)
        BY ONLY TotalOfSame
      <4> QED BY <4>1, <4>2
    <3>4. \A f \in D : b[f] \in Int
      BY <2>1
    <3> QED BY <2>1, <2>2, <3>2, <3>3, <3>4, TotalAdds
  <2>6. /\ v.count = Cardinality(D) /\ v.bytes = Total(b, D)
        /\ config.mode = "rolling" => v.checkpoints = Charges(b, D)
        /\ \A f \in DOMAIN st :
             /\ st[f].bytes \in Nat
             /\ f >= FirstFrame(v.frame) /\ st[f].bytes > 0 => f \in D /\ b[f] = st[f].bytes
    BY <1>2 DEF Ledger
  <2>7. w.count = Cardinality(E) /\ w.count <= MaxCount /\ w.bytes = Total(e, E) /\ w.bytes <= MaxBytes
    <3>1. Cardinality(D) \in Nat
      BY <2>1, FS_CardinalityType
    <3>2. v.count < MaxCount /\ v.bytes + kept <= MaxBytes
      BY <1>4, <2>5, <2>6, <3>1, ConfigAssumption DEF TooLarge
    <3> QED BY <1>4, <2>4, <2>5, <2>6, <3>1, <3>2, ConfigAssumption
  <2>8. config.mode = "rolling" => w.checkpoints = Charges(e, E)
    <3>1. w.checkpoints = v.checkpoints \cup {[frame |-> n, bytes |-> kept]}
      BY <1>4 DEF n
    <3>2. Charges(e, E) = Charges(b, D) \cup {[frame |-> n, bytes |-> e[n]]}
      BY <2>2 DEF Charges
    <3> QED BY <2>3, <2>6, <3>1, <3>2
  <2>9. \A f \in DOMAIN st :
          /\ st[f].bytes \in Nat
          /\ f >= FirstFrame(w.frame) /\ st[f].bytes > 0 => f \in E /\ e[f] = st[f].bytes
    BY <2>2, <2>6
  <2>10. E \subseteq 0 .. w.frame
    BY <2>1, <2>2 DEF n
  <2>11. w.draft.bytes \in Nat /\ w.frame \in E /\ e[w.frame] = w.draft.bytes
    BY <2>2 DEF n
  <2>12. Ledger(w, st, e, E)
    BY <2>2, <2>7, <2>8, <2>9, <2>10, <2>11 DEF Ledger
  <2> QED BY <2>2, <2>12 DEF Charged
<1> QED BY <1>3, <1>4

LEMMA NextAccount ==
  ASSUME UNCHANGED config, Charged(c', stored')
  PROVE  Charged(c, stored)'
BY DEF Charged, Ledger, FirstFrame

\* What a step leaves alone of the account.
SameCharges(w, v) ==
  /\ w.frame = v.frame /\ w.count = v.count /\ w.bytes = v.bytes /\ w.checkpoints = v.checkpoints
  /\ w.job \in {"capture", "append"} => w.job = v.job /\ w.draft = v.draft

LEMMA SameChargesKeep ==
  ASSUME NEW v, NEW st, Charged(v, st), NEW w, SameCharges(w, v)
  PROVE  Charged(w, st)
BY SameAccount DEF SameCharges

LEMMA RestCharges ==
  ASSUME NEW v, Shaped(v)
  PROVE  SameCharges(Rest(v), v) /\ Shaped(Rest(v))
<1> DEFINE r == Rest(v)
<1>1. /\ Shaped(r) /\ r.job = "none" /\ r.frame = v.frame /\ r.count = v.count
      /\ r.bytes = v.bytes /\ r.checkpoints = v.checkpoints
  BY DEF Rest, Shaped
<1> HIDE DEF r
<1> QED BY <1>1 DEF SameCharges, r

\* Fields that the account does not speak of.
LEMMA OtherCharges ==
  ASSUME NEW v, Shaped(v), NEW a
  PROVE  /\ SameCharges([v EXCEPT !.error = a], v)
         /\ SameCharges([v EXCEPT !.buffer = a], v) /\ Shaped([v EXCEPT !.buffer = a])
         /\ SameCharges([v EXCEPT !.asked = a], v)
<1>1. /\ [v EXCEPT !.error = a].frame = v.frame /\ [v EXCEPT !.error = a].count = v.count
      /\ [v EXCEPT !.error = a].bytes = v.bytes /\ [v EXCEPT !.error = a].job = v.job
      /\ [v EXCEPT !.error = a].checkpoints = v.checkpoints /\ [v EXCEPT !.error = a].draft = v.draft
  BY DEF Shaped
<1>2. /\ [v EXCEPT !.buffer = a].frame = v.frame /\ [v EXCEPT !.buffer = a].count = v.count
      /\ [v EXCEPT !.buffer = a].bytes = v.bytes /\ [v EXCEPT !.buffer = a].job = v.job
      /\ [v EXCEPT !.buffer = a].checkpoints = v.checkpoints /\ [v EXCEPT !.buffer = a].draft = v.draft
      /\ Shaped([v EXCEPT !.buffer = a])
  BY DEF Shaped
<1>3. /\ [v EXCEPT !.asked = a].frame = v.frame /\ [v EXCEPT !.asked = a].count = v.count
      /\ [v EXCEPT !.asked = a].bytes = v.bytes /\ [v EXCEPT !.asked = a].job = v.job
      /\ [v EXCEPT !.asked = a].checkpoints = v.checkpoints /\ [v EXCEPT !.asked = a].draft = v.draft
  BY DEF Shaped
<1> QED BY <1>1, <1>2, <1>3 DEF SameCharges

LEMMA BrokenCharges ==
  ASSUME NEW v, Shaped(v)
  PROVE  SameCharges(Broken(v), v)
<1> DEFINE r == Rest(v)
<1>1. SameCharges(r, v) /\ Shaped(r) /\ r.job = "none"
  BY RestCharges, RestFields
<1>2. Broken(v) = [r EXCEPT !.error = TRUE]
  BY DEF Broken
<1> HIDE DEF r
<1>3. SameCharges([r EXCEPT !.error = TRUE], r)
  BY <1>1, OtherCharges
<1> QED BY <1>1, <1>2, <1>3 DEF SameCharges

LEMMA BeginCharges ==
  ASSUME config \in Configs, NEW v, Shaped(v), v.frame \in Nat, NEW batch, NEW matched,
         NEW st, Charged(v, st), DOMAIN st \subseteq 0 .. v.frame
  PROVE  Charged(Begin(v, batch, matched), st) /\ Shaped(Begin(v, batch, matched))
<1> DEFINE up == v.frame + 1
           u == [v EXCEPT !.frame = up]
<1> HIDE DEF up
<1>1. /\ Shaped(u) /\ u.frame = up /\ u.checkpoints = v.checkpoints /\ u.count = v.count
      /\ u.bytes = v.bytes
  BY DEF Shaped
<1> HIDE DEF u
<1> DEFINE gone == {x \in u.checkpoints :
                      config.mode = "rolling" /\ x.frame < FirstFrame(u.frame)}
           fewer == u.count - Cardinality(gone)
           less == u.bytes - MapThenSumSet(LAMBDA x : x.bytes, gone)
           left == u.checkpoints \ gone
           next == [u EXCEPT !.checkpoints = left, !.count = fewer, !.bytes = less]
<1>2. Evict(u) = next
  BY DEF Evict
<1> HIDE DEF gone, fewer, less, left
<1>3. /\ Shaped(next) /\ next.frame = up /\ next.checkpoints = left /\ next.count = fewer
      /\ next.bytes = less
  BY <1>1 DEF Shaped
<1> HIDE DEF next
<1> DEFINE tr == /\ matched
                 /\ Len(next.windows) < MaxTriggers
                 /\ \/ next.lastTrigger = -1
                    \/ next.frame - next.lastTrigger > Cooldown
           lt == IF tr THEN next.frame ELSE next.lastTrigger
           as == Wanted(next, tr)
           w == [next EXCEPT !.pending = TRUE, !.job = "capture", !.batch = batch, !.buffer = {},
                             !.triggered = tr, !.lastTrigger = lt, !.asked = as]
<1>4. Begin(v, batch, matched) = w
  BY <1>2 DEF Begin, u, up
<1> HIDE DEF tr, lt, as
<1>5. /\ w.job = "capture" /\ w.frame = up /\ w.checkpoints = left /\ w.count = fewer
      /\ w.bytes = less /\ Shaped(w)
  BY <1>3 DEF Shaped
<1> HIDE DEF w
<1>6. gone = {x \in v.checkpoints : config.mode = "rolling" /\ x.frame < FirstFrame(w.frame)}
  BY <1>1, <1>5 DEF gone
<1>7. /\ w.checkpoints = v.checkpoints \ gone /\ w.count = v.count - Cardinality(gone)
      /\ w.bytes = v.bytes - MapThenSumSet(LAMBDA x : x.bytes, gone)
  BY <1>1, <1>5 DEF left, fewer, less
<1>8. w.frame = v.frame + 1
  BY <1>5 DEF up
<1>9. Charged(w, st)
  BY <1>5, <1>6, <1>7, <1>8, EvictedAccount
<1> QED BY <1>4, <1>5, <1>9

LEMMA CommitCharges ==
  ASSUME IInv, Charged(c, stored), NEW s, NEW isAction, NEW matched,
         OnCommit(s, isAction, matched), UNCHANGED <<config, stored>>
  PROVE  Charged(c, stored)'
<1>1. config \in Configs /\ Shaped(c) /\ c.frame \in Nat /\ DOMAIN stored \subseteq 0 .. c.frame
  BY DEF IInv, Good, Typed, Stored, Sessions
<1> SUFFICES Charged(c', stored)
  BY NextAccount
<1> DEFINE takes == Takes(c, s.revision, isAction)
           v == Begin(c, takes, matched)
<1>2. \/ c' = c
      \/ c' = [c EXCEPT !.error = TRUE]
      \/ c' = [c EXCEPT !.buffer = takes]
      \/ c' = Broken([v EXCEPT !.buffer = {}])
      \/ c' = [v EXCEPT !.asked = FALSE]
      \/ c' = v
  BY DEF OnCommit
<1>3. Charged(v, stored) /\ Shaped(v)
  BY <1>1, BeginCharges
<1> HIDE DEF takes, v
<1>4. \A a : SameCharges([c EXCEPT !.error = a], c) /\ SameCharges([c EXCEPT !.buffer = a], c)
  BY <1>1, OtherCharges
<1>5. CASE c' = [c EXCEPT !.error = TRUE] \/ c' = [c EXCEPT !.buffer = takes]
  <2>1. SameCharges(c', c)
    BY <1>4, <1>5
  <2> QED BY <2>1, SameChargesKeep
<1>6. CASE c' = Broken([v EXCEPT !.buffer = {}])
  <2> DEFINE u == [v EXCEPT !.buffer = {}]
  <2>1. SameCharges(u, v) /\ Shaped(u)
    BY <1>3, OtherCharges
  <2> HIDE DEF u
  <2>2. Charged(u, stored) /\ SameCharges(Broken(u), u)
    BY <1>3, <2>1, SameChargesKeep, BrokenCharges
  <2>3. Charged(Broken(u), stored)
    BY <2>2, SameChargesKeep
  <2> QED BY <1>6, <2>3 DEF u
<1>7. CASE c' = [v EXCEPT !.asked = FALSE]
  <2>1. SameCharges(c', v)
    BY <1>3, <1>7, OtherCharges
  <2> QED BY <1>3, <2>1, SameChargesKeep
<1> QED BY <1>2, <1>3, <1>5, <1>6, <1>7

LEMMA FailCharges ==
  ASSUME IInv, Charged(c, stored), NEW s, Fail(s), UNCHANGED <<config, stored>>
  PROVE  Charged(c, stored)'
<1>1. Shaped(c)
  BY DEF IInv, Good
<1> DEFINE r == Rest(c)
<1>2. SameCharges(r, c) /\ Shaped(r) /\ r.job = "none" /\ SameCharges(Broken(c), c)
  BY <1>1, RestCharges, RestFields, BrokenCharges
<1>3. c' = [r EXCEPT !.phase = "closed", !.error = TRUE] \/ c' = Broken(c)
  BY DEF Fail
<1> HIDE DEF r
<1>4. SameCharges([r EXCEPT !.phase = "closed", !.error = TRUE], r)
  <2> DEFINE w == [r EXCEPT !.phase = "closed", !.error = TRUE]
  <2>1. /\ w.frame = r.frame /\ w.count = r.count /\ w.bytes = r.bytes /\ w.job = r.job
        /\ w.checkpoints = r.checkpoints /\ w.draft = r.draft
    BY <1>2 DEF Shaped
  <2> HIDE DEF w
  <2> QED BY <2>1 DEF SameCharges, w
<1>5. SameCharges(c', c)
  BY <1>2, <1>3, <1>4 DEF SameCharges
<1>6. Charged(c', stored)
  BY <1>5, SameChargesKeep
<1> QED BY <1>6, NextAccount

LEMMA CapturedCharges ==
  ASSUME IInv, Charged(c, stored), Captured
  PROVE  Charged(c, stored)'
<1>1. /\ Shaped(c) /\ c.frame \in Nat /\ DOMAIN stored \subseteq 0 .. c.frame
      /\ c.phase = "starting" => DOMAIN stored = {}
      /\ c.job = "capture" /\ UNCHANGED <<config, stored>>
  BY DEF IInv, Good, Typed, Stored, Sessions, Captured
<1>2. PICK bytes \in IF c.asked /\ session.open THEN Sizes ELSE {0} :
        LET over == bytes > 0 /\ TooLarge(c, bytes)
            kept == IF over THEN 0 ELSE bytes
            v == IF kept > 0 THEN Retain(c, kept) ELSE c
            s == IF over /\ config.overflow = "stop" THEN StopRun(session) ELSE session
        IN IF Refused(over) THEN Fail(s)
           ELSE /\ c' = [v EXCEPT !.job = "append", !.windows = WindowsAt(v),
                                  !.draft = [messages |-> c.batch, scene |-> session.revision,
                                             bytes |-> kept]]
                /\ session' = s
                /\ UNCHANGED writer
  BY Zenon DEF Captured
<1> DEFINE over == bytes > 0 /\ TooLarge(c, bytes)
           kept == IF over THEN 0 ELSE bytes
           v == IF kept > 0 THEN Retain(c, kept) ELSE c
           s == IF over /\ config.overflow = "stop" THEN StopRun(session) ELSE session
           draft == [messages |-> c.batch, scene |-> session.revision, bytes |-> kept]
           wins == WindowsAt(v)
<1>3. bytes \in Nat
  BY ConfigAssumption DEF Sizes
<1>4. kept \in Nat /\ (kept > 0 => ~TooLarge(c, kept)) /\ draft.bytes = kept
  BY <1>3
<1>5. CASE Refused(over)
  BY <1>1, <1>2, <1>5, FailCharges
<1>6. CASE ~Refused(over)
  <2>1. c' = [v EXCEPT !.job = "append", !.windows = wins, !.draft = draft]
    BY <1>2, <1>6
  <2>2. c.frame \notin DOMAIN stored
    <3>1. ~c.error
      BY <1>6 DEF Refused
    <3>2. CASE c.phase = "starting"
      BY <1>1, <3>2
    <3>3. CASE c.phase # "starting"
      <4>1. Newest(c) = c.frame - 1
        BY <1>1, <3>3 DEF IInv, Good, Typed, Phased, Newest
      <4>2. PICK lo \in 0 .. FirstFrame(Newest(c)) : DOMAIN stored = lo .. Newest(c)
        BY <3>1, <3>3 DEF IInv, Good, Keeps
      <4> QED BY <1>1, <4>1, <4>2
    <3> QED BY <3>2, <3>3
  <2>3. /\ Shaped(v) /\ v.frame = c.frame
        /\ kept = 0 => v.count = c.count /\ v.bytes = c.bytes /\ v.checkpoints = c.checkpoints
        /\ kept > 0 => /\ v.count = c.count + 1 /\ v.bytes = c.bytes + kept
                       /\ v.checkpoints = c.checkpoints \cup {[frame |-> c.frame, bytes |-> kept]}
    <3>1. CASE kept > 0
      <4> DEFINE n == c.count + 1
                 m == c.bytes + kept
                 p == c.checkpoints \cup {[frame |-> c.frame, bytes |-> kept]}
      <4>1. v = [c EXCEPT !.count = n, !.bytes = m, !.checkpoints = p]
        BY <3>1 DEF Retain
      <4> HIDE DEF n, m, p, kept, v
      <4>2. Shaped(v) /\ v.frame = c.frame /\ v.count = n /\ v.bytes = m /\ v.checkpoints = p
        BY <1>1, <4>1 DEF Shaped
      <4> QED BY <3>1, <4>2 DEF n, m, p
    <3>2. CASE ~(kept > 0)
      <4>1. v = c
        BY <3>2
      <4> HIDE DEF kept, v
      <4> QED BY <1>1, <3>2, <4>1
    <3> QED BY <3>1, <3>2
  <2> HIDE DEF v, kept, draft, wins
  <2>4. /\ c'.job = "append" /\ c'.draft = draft /\ c'.frame = c.frame /\ c'.count = v.count
        /\ c'.bytes = v.bytes /\ c'.checkpoints = v.checkpoints
    BY <2>1, <2>3 DEF Shaped
  <2>5. Charged(c', stored)
    <3>1. /\ kept = 0 => c'.count = c.count /\ c'.bytes = c.bytes /\ c'.checkpoints = c.checkpoints
          /\ kept > 0 => /\ c'.count = c.count + 1 /\ c'.bytes = c.bytes + kept
                         /\ c'.checkpoints = c.checkpoints \cup {[frame |-> c.frame, bytes |-> kept]}
      BY <2>3, <2>4
    <3> QED BY <1>1, <1>4, <2>2, <2>4, <3>1, RetainedAccount
  <2> QED BY <1>1, <2>5, NextAccount
<1> QED BY <1>5, <1>6

LEMMA AppendedCharges ==
  ASSUME IInv, Charged(c, stored), Appended
  PROVE  Charged(c, stored)'
<1>1. /\ Shaped(c) /\ config \in Configs /\ UNCHANGED config /\ c.job = "append"
      /\ stored' = [f \in DOMAIN stored \cup {c.frame} |->
                      IF f = c.frame THEN c.draft ELSE stored[f]]
  BY DEF IInv, Good, Appended
<1> DEFINE left == c.checkpoints \ Forgotten
           v == [c EXCEPT !.checkpoints = left]
           r == Rest(v)
           rev == session.revision
<1>2. \/ c' = [r EXCEPT !.phase = "on", !.since = rev]
      \/ c' = [r EXCEPT !.phase = "closed", !.error = TRUE]
      \/ c' = [v EXCEPT !.job = "collect"]
      \/ c' = r
  BY DEF Appended
<1>3. config.mode = "rolling" => left = c.checkpoints
  BY DEF Forgotten
<1> HIDE DEF left, rev
<1>4. Shaped(v) /\ v.frame = c.frame /\ v.count = c.count /\ v.bytes = c.bytes /\ v.checkpoints = left
  BY <1>1 DEF Shaped
<1> HIDE DEF v
<1>5. Shaped(r) /\ r.job = "none" /\ SameCharges(r, v)
  BY <1>4, RestCharges, RestFields
<1> HIDE DEF r
<1>6. /\ c'.frame = c.frame /\ c'.count = c.count /\ c'.bytes = c.bytes /\ c'.checkpoints = left
      /\ c'.job \in {"none", "collect"}
  <2>1. CASE c' = [r EXCEPT !.phase = "on", !.since = rev] \/ c' = [r EXCEPT !.phase = "closed", !.error = TRUE]
    <3>1. /\ c'.frame = r.frame /\ c'.count = r.count /\ c'.bytes = r.bytes
          /\ c'.checkpoints = r.checkpoints /\ c'.job = r.job
      BY <1>5, <2>1 DEF Shaped
    <3> QED BY <1>4, <1>5, <3>1 DEF SameCharges
  <2>2. CASE c' = [v EXCEPT !.job = "collect"]
    BY <1>4, <2>2 DEF Shaped
  <2>3. CASE c' = r
    BY <1>4, <1>5, <2>3 DEF SameCharges
  <2> QED BY <1>2, <2>1, <2>2, <2>3
<1>7. \A f \in DOMAIN stored' : \/ f \in DOMAIN stored /\ stored'[f] = stored[f]
                                \/ f = c.frame /\ c.job = "append" /\ stored'[f] = c.draft
  BY <1>1
<1>8. Charged(c', stored')
  BY <1>3, <1>6, <1>7, SameAccount
<1> QED BY <1>1, <1>8, NextAccount

LEMMA CollectedCharges ==
  ASSUME IInv, Charged(c, stored), Collected
  PROVE  Charged(c, stored)'
<1>1. /\ Shaped(c) /\ UNCHANGED config /\ c' = Rest(c)
      /\ stored' = [f \in {g \in DOMAIN stored : g >= FirstFrame(c.frame)} |-> stored[f]]
  BY DEF IInv, Good, Collected
<1>2. SameCharges(c', c) /\ c'.job = "none"
  BY <1>1, RestCharges, RestFields
<1>3. Charged(c', stored')
  BY <1>1, <1>2, SameAccount DEF SameCharges
<1> QED BY <1>1, <1>3, NextAccount

LEMMA EndsCharge ==
  ASSUME IInv, Charged(c, stored), Ends
  PROVE  Charged(c, stored)'
<1>1. Shaped(c) /\ UNCHANGED <<config, stored>>
  BY DEF IInv, Good, Ends, End, Closed, CloseFails
<1> DEFINE wins == [i \in DOMAIN c.windows |-> CutShort(c.windows[i])]
<1>2. \/ c' = [c EXCEPT !.phase = "closing", !.windows = wins]
      \/ c' = [c EXCEPT !.phase = "closed"]
      \/ c' = [c EXCEPT !.phase = "closed", !.error = TRUE]
  BY DEF Ends, End, Closed, CloseFails
<1> HIDE DEF wins
<1>3. /\ c'.frame = c.frame /\ c'.count = c.count /\ c'.bytes = c.bytes
      /\ c'.checkpoints = c.checkpoints /\ c'.job = c.job /\ c'.draft = c.draft
  BY <1>1, <1>2 DEF Shaped
<1>4. Charged(c', stored)
  BY <1>3, SameChargesKeep DEF SameCharges
<1> QED BY <1>1, <1>4, NextAccount

LEMMA BudgetStep ==
  ASSUME IInv, Charged(c, stored), [Next]_vars
  PROVE  Charged(c, stored)'
<1>1. CASE SendAction \/ Rendered \/ Stop \/ ActionTimeout \/ UNCHANGED vars
  <2>1. UNCHANGED <<config, c, stored>>
    BY <1>1 DEF SendAction, Rendered, Stop, ActionTimeout, vars
  <2> QED BY <2>1, NextAccount
<1>2. CASE SceneUpdate
  BY <1>2, CommitCharges DEF SceneUpdate
<1>3. CASE ActionResult
  BY <1>3, CommitCharges DEF ActionResult
<1>4. CASE Disconnect
  <2> DEFINE e == c.error \/ c.phase = "on"
  <2>1. Shaped(c) /\ UNCHANGED <<config, stored>> /\ c' = [c EXCEPT !.error = e]
    BY <1>4 DEF IInv, Good, Disconnect
  <2> HIDE DEF e
  <2>2. SameCharges(c', c)
    BY <2>1, OtherCharges
  <2>3. Charged(c', stored)
    BY <2>2, SameChargesKeep
  <2> QED BY <2>1, <2>3, NextAccount
<1>5. CASE Captured
  BY <1>5, CapturedCharges
<1>6. CASE CaptureFails \/ StoreFails
  BY <1>6, FailCharges DEF CaptureFails, StoreFails
<1>7. CASE Appended
  BY <1>7, AppendedCharges
<1>8. CASE Collected
  BY <1>8, CollectedCharges
<1>9. CASE Ends
  BY <1>9, EndsCharge
<1> QED BY <1>1, <1>2, <1>3, <1>4, <1>5, <1>6, <1>7, <1>8, <1>9 DEF Next, Chain

LEMMA NothingCharged == Init => Charged(c, stored)
<1> SUFFICES ASSUME Init PROVE Charged(c, stored)
  OBVIOUS
<1>1. /\ c.frame = 0 /\ c.job = "capture" /\ c.checkpoints = {} /\ c.count = 0 /\ c.bytes = 0
      /\ DOMAIN stored = {}
  BY DEF Init
<1> DEFINE b == [f \in {} |-> 0]
<1>2. b \in [{} -> Nat] /\ Total(b, {}) = 0 /\ Cardinality({}) = 0 /\ Charges(b, {}) = {}
  BY TotalIs, FS_EmptySet DEF Charges
<1> HIDE DEF b
<1>3. Ledger(c, stored, b, {})
  BY <1>1, <1>2, ConfigAssumption DEF Ledger
<1> QED BY <1>2, <1>3 DEF Charged

\* What the collection has charged to the budget of checkpoints is within it, and so are
\* the checkpoints in the range of frames that the store retains, whatever was evicted,
\* refused or lost (retainCheckpoint, evictRetainedCheckpoints, pruneExpiredCheckpoints).
THEOREM CheckpointsFit == Spec => []CheckpointsWithinBudget
<1>1. ASSUME IInv, Charged(c, stored) PROVE CheckpointsWithinBudget
  <2>1. PICK D \in SUBSET Nat : \E b \in [D -> Nat] : Ledger(c, stored, b, D)
    BY <1>1 DEF Charged
  <2>2. PICK b \in [D -> Nat] : Ledger(c, stored, b, D)
    BY <2>1
  <2>3. c.frame \in Nat
    BY <1>1 DEF IInv, Good, Typed, Sessions
  <2>4. IsFiniteSet(D) /\ \A f \in D : b[f] \in Nat
    BY <2>2, <2>3, FramesAreFinite DEF Ledger
  <2> DEFINE kept == {f \in DOMAIN stored : f >= FirstFrame(c.frame) /\ stored[f].bytes > 0}
             w == [f \in kept |-> stored[f].bytes]
  <2>5. kept \subseteq D /\ \A f \in kept : w[f] = b[f]
    BY <2>2 DEF Ledger
  <2>6. MapThenSumSet(LAMBDA f : stored[f].bytes, kept) = Total(w, kept)
    BY StoredBytesAddUp
  <2> HIDE DEF kept, w
  <2>7. Total(w, kept) = Total(b, kept) /\ Total(b, kept) <= Total(b, D)
        /\ Total(b, D) \in Nat /\ Total(b, kept) \in Nat
    <3>1. Total(w, kept) = Total(b, kept)
      <4>1. \A f \in kept : w[f] = b[f]
        BY <2>5
      <4> QED BY <4>1, TotalOfSame, Zenon
    <3>2. Total(b, kept) <= Total(b, D) /\ Total(b, D) \in Nat /\ Total(b, kept) \in Nat
      BY <2>4, <2>5, TotalWithout
    <3> QED BY <3>1, <3>2
  <2>8. Cardinality(kept) <= Cardinality(D) /\ Cardinality(kept) \in Nat /\ Cardinality(D) \in Nat
    BY <2>4, <2>5, FS_Subset, FS_CardinalityType
  <2>9. /\ c.count = Cardinality(D) /\ c.count <= MaxCount
        /\ c.bytes = Total(b, D) /\ c.bytes <= MaxBytes
    BY <2>2 DEF Ledger
  <2>10. /\ c.count \in 0 .. MaxCount /\ c.bytes \in 0 .. MaxBytes
         /\ Cardinality(kept) <= MaxCount /\ Total(w, kept) <= MaxBytes
    BY <2>7, <2>8, <2>9, ConfigAssumption
  <2> QED BY <2>6, <2>10 DEF CheckpointsWithinBudget, kept
<1> QED BY <1>1, Invariance, NothingCharged, BudgetStep, PTL DEF Spec

=============================================================================
