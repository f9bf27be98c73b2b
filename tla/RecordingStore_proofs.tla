------------------------ MODULE RecordingStore_proofs ------------------------
(***************************************************************************)
(* The safety of RecordingStore.tla for every number of frames and         *)
(* readers, and that it implements Recording.tla.                          *)
(*                                                                         *)
(* The inductive invariant has two layers. Control says where the writer   *)
(* is and what its counters and its draft mean; it needs nothing about     *)
(* what is stored. Storage says what the disk holds for the writer, for    *)
(* the published root and for the readers; it rests on Control, and on Cut *)
(* about the rebuild tool.                                                 *)
(***************************************************************************)
EXTENDS RecordingStore, WellFoundedInduction, TLAPS

CommitSteps == {"content", "boundary", "segment", "index", "root", "publish", "scan", "pins"}
CollectSteps == {"scan", "pins", "sweepRoots", "pruneIndex", "sweep"}
CloseSteps == {"root", "publish", "scan", "pins", "release"}
Steps == {"none", "content", "boundary", "segment", "index", "root", "publish", "scan", "pins",
          "sweepRoots", "pruneIndex", "sweep", "release"}

Writer ==
  [state : {"absent", "open", "closed"}, observed : -1 .. MaxFrame, next : Nat, pending : Nat,
   generation : Nat, root : Root \cup {NoRoot}, failure : BOOLEAN, collecting : BOOLEAN,
   written : SUBSET Contents, job : {"none", "commit", "collect", "close"}, step : Steps,
   draft : Root \cup {NoRoot}, todo : SUBSET (Readers \X Generations),
   pinned : SUBSET Generations, floor : Frames, reachable : SUBSET (Objects \cup {None})]

Reader == [pc : ReaderPcs, root : Root \cup {NoRoot}, active : BOOLEAN,
           verdict : {"none", "interrupted"}]

Types ==
  /\ mode \in {"rolling", "full-history"}
  /\ content \in [Frames -> Contents \cup {None}]
  /\ objects \subseteq Objects /\ segments \subseteq Frames /\ index \subseteq Frames
  /\ roots \subseteq Root
  /\ root \in Root \cup {None}
  /\ lease \in {"none", "writer", "rebuild", "dead"}
  /\ w \in Writer
  /\ reader \in [Readers -> Reader]

\* Which steps a job has, and what holds while it runs.
Jobs ==
  /\ w.state = "absent" => w = Absent
  /\ w.job = "none" => w.step = "none"
  /\ w.job = "commit" => w.step \in CommitSteps /\ w.pending > 0
  /\ w.job = "collect" => w.step \in CollectSteps /\ w.collecting /\ w.pending = 0
                          /\ w.root # NoRoot
  /\ w.job = "close" => w.step \in CloseSteps /\ w.state = "closed" /\ w.pending = 0
                        /\ (w.step = "release" \/ w.root # NoRoot)
  /\ w.collecting => w.state = "open"
  /\ w.step \in {"sweepRoots", "pruneIndex", "sweep"} => w.todo = {}

\* The counters. A commit or a close takes one generation, before it publishes.
Numbered == w.job \in {"commit", "close"} /\ w.step \in {"publish", "scan", "pins", "release"}
Counters ==
  /\ w.next + w.pending <= w.observed + 1
  /\ ~w.failure => w.next + w.pending = w.observed + 1
  /\ w.generation >= 1
  /\ w.generation <= w.next + (IF Numbered THEN 2 ELSE 1)

\* The published root and the writer's place behind it; a commit that is Settling has
\* published and still prunes old roots.
Settling == w.job = "commit" /\ w.step \in {"scan", "pins"}
Closing == w.job = "close" /\ w.step \in {"scan", "pins", "release"}
Position ==
  /\ root # None => root.first <= root.last
  /\ w.state # "absent" =>
       /\ Published.generation < w.generation
       /\ Settling => Published.last = w.next
       /\ ~Settling => Published.last < w.next
       /\ ~Settling /\ (w.job = "commit" \/ ~w.failure) => w.next = Published.last + 1
       /\ ~Closing => Published.status \in {"none", "open"}

\* The root that is about to be published.
Draft ==
  w.step = "publish" =>
    /\ w.draft \in Root
    /\ w.draft.generation + 1 = w.generation
    /\ Published.generation < w.draft.generation
    /\ w.draft.first <= w.draft.last
    /\ w.job = "commit" => /\ w.draft.last = w.next /\ w.draft.status = "open"
                           /\ Published.first <= w.draft.first
    /\ w.job = "close" => /\ w.draft.first = Published.first /\ w.draft.last = Published.last
                          /\ w.draft.status \in {"complete", "failed"}
                          /\ w.draft.status = "complete" => w.draft.last = w.observed

\* A frame that is queued or stored has a content; what is stored has had its turn.
Contented ==
  /\ \A f \in Frames : f \in objects \/ Queued(f) => content[f] \in Contents
  /\ w.state # "absent" => \A f \in Frames \cap objects :
                             f < w.next \/ (f = w.next /\ w.job = "commit")

\* A reader that read a root has the published one or an earlier one.
Reads(r) == reader[r].pc \notin {"idle", "closed"}
ReaderRoots ==
  \A r \in Readers :
    /\ Reads(r) => /\ root # None /\ reader[r].root \in Root
                   /\ reader[r].root.first <= reader[r].root.last
                   /\ reader[r].root.last <= root.last
                   /\ reader[r].root = root \/ Generation(r) < root.generation
    /\ reader[r].pc = "recovering" /\ ~reader[r].active => w.state = "absent"
    /\ reader[r].verdict = "interrupted" => reader[r].pc = "open"

Control == /\ Types /\ Jobs /\ Counters /\ Position /\ Draft /\ Contented /\ ReaderRoots
           /\ WriterIsAlone /\ InterruptedIsTrue

-----------------------------------------------------------------------------
\* Roots are told apart by their generation, and the ones in use are stored.
RootsStored ==
  /\ \A x, y \in roots : x.generation = y.generation => x = y
  /\ w.state # "absent" => \A x \in roots : x.generation < w.generation
  /\ root # None => root \in roots
  /\ w.step = "publish" => w.draft \in roots
  /\ \A r \in Readers : IsOpen(r) => reader[r].root \in roots

\* How far a commit has come; and what a writer remembers to have stored is stored.
Progress ==
  /\ w.written \subseteq objects
  /\ w.job = "commit" =>
       /\ w.step \in CommitSteps \ {"content"} => content[w.next] \in objects
       /\ w.step \in CommitSteps \ {"content", "boundary"} => w.next \in objects
       /\ w.step \in {"root", "publish"} => w.next \in index

\* A collection knows the generation of every open reader, or has still to read its pin.
Tracked ==
  w.step \in {"pins", "sweepRoots", "pruneIndex", "sweep"} =>
    \A r \in Readers : IsOpen(r) =>
      \/ Generation(r) \in Keep
      \/ <<r, Generation(r)>> \in w.todo

\* What it keeps covers every frame that someone is entitled to.
Covers(x) == \A f \in Span(x) : f >= w.floor /\ f \in w.reachable /\ content[f] \in w.reachable
Covered ==
  w.step \in {"pruneIndex", "sweep"} =>
    /\ Covers(Published)
    /\ \A r \in Readers : IsOpen(r) => Covers(reader[r].root)

\* There is a root while the index is rebuilt for it.
Rebuilding == lease = "rebuild" => root # None

\* The part of PromisedIsReadable about frames: an open reader misses at most rows below
\* the cut of the last rebuild.
Promise ==
  /\ \A f \in Span(Published) : Readable(f)
  /\ \A r \in Readers : IsOpen(r) =>
       \A f \in Span(reader[r].root) : Stored(f) /\ (f \in index \/ f < cut)

\* The rest of it: there was a rebuild only once the writer was gone.
Cut == cut \in Frames /\ (cut > 0 => cut = Published.first /\ w.state = "absent")

Storage == RootsStored /\ Progress /\ Tracked /\ Covered /\ Rebuilding /\ Promise

-----------------------------------------------------------------------------
\* What the constants are is known everywhere.
USE BoundsAssumption, NamesAssumption, NoneAssumption

LEMMA AbsentIsWriter == Absent \in Writer
BY DEF Absent, Writer, Steps, Frames

LEMMA PublishedFacts ==
  ASSUME Types
  PROVE  /\ Published \in Root \cup {NoRoot}
         /\ Published.generation \in Nat /\ Published.first \in Nat /\ Published.last \in Int
         /\ root = None => Published = NoRoot
         /\ root # None => Published = root /\ root \in Root
         /\ NoRoot \notin Root
BY DEF Types, Published, Root, NoRoot, Generations, Frames

LEMMA RootFacts ==
  ASSUME NEW x \in Root
  PROVE  x.generation \in Nat /\ x.first \in Nat /\ x.last \in Nat
BY DEF Root, Generations, Frames

LEMMA NextIsQueued ==
  ASSUME Control, w.job = "commit"
  PROVE  w.next \in Frames /\ content[w.next] \in Contents /\ w.state # "absent"
<1>1. w.next \in Frames /\ w.state # "absent"
  BY DEF Control, Types, Writer, Jobs, Counters, Frames, Absent
<1>2. Queued(w.next)
  BY DEF Control, Types, Writer, Jobs, Queued
<1> QED BY <1>1, <1>2 DEF Control, Contented

\* v is u after its job ended.
Ended(u, v) ==
  /\ v.state = u.state /\ v.observed = u.observed /\ v.generation = u.generation
  /\ v.written = u.written
  /\ u.job = "commit" => /\ v.next = u.next + 1 /\ v.pending = u.pending - 1
                         /\ v.collecting = u.collecting /\ v.job = "none" /\ v.step = "none"
  /\ u.job = "collect" => /\ v.next = u.next /\ v.pending = u.pending
                          /\ v.collecting = FALSE /\ v.job = "none" /\ v.step = "none"
  /\ u.job = "close" => /\ v.next = u.next /\ v.pending = u.pending
                        /\ v.collecting = u.collecting /\ v.job = "close" /\ v.step = "release"

LEMMA DoneFacts ==
  ASSUME NEW v \in Writer, v.job # "none", v.job = "commit" => v.pending > 0
  PROVE  /\ Done(v) \in Writer /\ Ended(v, Done(v))
         /\ Done(v).root = v.root /\ Done(v).failure = v.failure
         /\ Done(v).draft = v.draft /\ Done(v).todo = v.todo
<1>1. v.job \in {"commit", "collect", "close"}
  BY DEF Writer
<1>2. CASE v.job = "commit"
  <2>1. v.next + 1 \in Nat /\ v.pending - 1 \in Nat
    BY <1>2 DEF Writer
  <2>2. Done(v) = [v EXCEPT !.next = @ + 1, !.pending = @ - 1, !.job = "none", !.step = "none"]
    BY <1>2 DEF Done
  <2>3. Done(v) \in Writer
    BY <2>1, <2>2, ZenonT(60) DEF Writer, Steps
  <2> QED BY <1>2, <2>2, <2>3 DEF Writer, Ended
<1>3. CASE v.job = "collect"
  <2>1. 0 \in Frames /\ {} \in SUBSET (Objects \cup {None}) /\ {} \in SUBSET Generations
    BY DEF Frames
  <2>2. Done(v) = [v EXCEPT !.collecting = FALSE, !.job = "none", !.step = "none",
                            !.floor = 0, !.reachable = {}, !.pinned = {}]
    BY <1>3 DEF Done
  <2>3. Done(v) \in Writer
    BY <2>1, <2>2, ZenonT(60) DEF Writer, Steps
  <2> QED BY <1>3, <2>2, <2>3 DEF Writer, Ended
<1>4. CASE v.job = "close"
  BY <1>4 DEF Done, Writer, Steps, Ended
<1> QED BY <1>1, <1>2, <1>3, <1>4

LEMMA CommitRootFacts ==
  ASSUME Control, w.job = "commit", w.step = "root"
  PROVE  /\ CommitRoot \in Root
         /\ CommitRoot.generation = w.generation /\ CommitRoot.status = "open"
         /\ CommitRoot.last = w.next /\ CommitRoot.first <= w.next
         /\ Published.first <= CommitRoot.first
<1> DEFINE first == IF w.root = NoRoot THEN w.next ELSE w.root.first
           floor == IF mode = "rolling" THEN Later(first, w.next - MaxFrames) ELSE first
<1>1. w.next \in Frames /\ w.generation \in Generations /\ w.root = Published /\ MaxFrames >= 1
  <2>1. w.next \in Frames /\ w.root = Published
    BY NextIsQueued DEF Control, WriterIsAlone
  <2>2. w.generation \in Nat /\ w.generation >= 1 /\ w.generation <= w.next + 1
    BY DEF Control, Types, Writer, Counters, Numbered
  <2> QED BY <2>1, <2>2 DEF Frames, Generations
<1>2. Published.last < w.next /\ (Published # NoRoot => Published.first <= Published.last)
  BY <1>1, NextIsQueued, PublishedFacts DEF Control, Position, Settling
<1>3. first \in Frames /\ first <= w.next /\ Published.first <= first
  BY <1>1, <1>2, PublishedFacts DEF Control, Frames, NoRoot
<1>4. floor \in Frames /\ floor <= w.next /\ first <= floor
  BY <1>1, <1>3 DEF Later, Frames
<1>5. CommitRoot = [generation |-> w.generation, first |-> floor, last |-> w.next, status |-> "open"]
  BY DEF CommitRoot
<1> QED BY <1>1, <1>3, <1>4, <1>5, PublishedFacts DEF Root, Frames, Control

LEMMA FinalRootFacts ==
  ASSUME Control, w.job = "close", w.step = "root"
  PROVE  /\ FinalRoot \in Root
         /\ FinalRoot.generation = w.generation /\ FinalRoot.status \in {"complete", "failed"}
         /\ FinalRoot.first = Published.first /\ FinalRoot.last = Published.last
         /\ FinalRoot.status = "complete" => ~w.failure
         /\ Published.first <= Published.last
<1>1. /\ w.root = Published /\ Published = root /\ root \in Root
      /\ Published.first <= Published.last
  BY PublishedFacts DEF Control, Jobs, WriterIsAlone, Position
<1>2. w.generation \in Generations
  BY DEF Control, Types, Writer, Jobs, Counters, Numbered, Generations
<1>3. w.root \in Root
  BY <1>1
<1>4. FinalRoot \in Root
  BY <1>2, <1>3 DEF FinalRoot, Root
<1> QED BY <1>1, <1>3, <1>4 DEF FinalRoot, Root

LEMMA FailFacts ==
  ASSUME Control, w.job # "none", w.step # "release", Fail
  PROVE  /\ w \in Writer /\ w.job \in {"commit", "collect", "close"} /\ w.state # "absent"
         /\ w.job = "commit" => w.pending > 0
         /\ w.job # "close" =>
              /\ w' \in Writer /\ Ended(w, w') /\ w'.root = w.root /\ w'.todo = {}
              /\ w'.failure \in {w.failure, TRUE}
              /\ w.job = "commit" => w'.failure
              /\ lease' = lease /\ content' \in {content, Without({w.next})}
              /\ w.job = "collect" => w'.failure = w.failure /\ content' = content
         /\ w.job = "close" => w' = Absent /\ lease' = "none" /\ content' = content
<1> USE DEF Control
<1>1. /\ w \in Writer /\ w.job \in {"commit", "collect", "close"} /\ w.state # "absent"
      /\ w.job = "commit" => w.pending > 0
  BY DEF Types, Jobs, Writer, Absent
<1>2. Done(w) \in Writer /\ Ended(w, Done(w)) /\ Done(w).failure = w.failure
      /\ Done(w).root = w.root /\ Done(w).draft = w.draft
  BY <1>1, DoneFacts
<1>3. w.job # "close" =>
        /\ w' \in Writer /\ Ended(w, w') /\ w'.root = w.root /\ w'.todo = {}
        /\ w'.failure \in {w.failure, TRUE}
        /\ w.job = "commit" => w'.failure
        /\ lease' = lease /\ content' \in {content, Without({w.next})}
        /\ w.job = "collect" => w'.failure = w.failure /\ content' = content
  BY <1>1, <1>2, ZenonT(60) DEF Fail, Writer, Ended
<1> QED BY <1>1, <1>3 DEF Fail

LEMMA FailControl ==
  ASSUME Control, w.job # "none", w.step # "release", Fail,
         UNCHANGED <<mode, cut, objects, segments, index, roots, root, reader>>
  PROVE  Control'
<1> USE DEF Control
<1>1. /\ w \in Writer /\ w.job \in {"commit", "collect", "close"} /\ w.state # "absent"
      /\ w.job = "commit" => w.pending > 0
  BY FailFacts
<1>3. CASE w.job # "close"
  <2>1. /\ w' \in Writer /\ Ended(w, w') /\ w'.root = w.root /\ w'.todo = {}
        /\ w'.failure \in {w.failure, TRUE}
        /\ w.job = "commit" => w'.failure
        /\ lease' = lease /\ content' \in {content, Without({w.next})}
        /\ w.job = "collect" => w'.failure = w.failure /\ content' = content
    BY <1>3, FailFacts
  <2>2. Types'
    BY <2>1 DEF Types, Without
  <2>3. Jobs' /\ Draft'
    BY <2>1, <1>1, <1>3 DEF Ended, Jobs, Draft
  <2>4. Counters'
    BY <2>1, <1>1, <1>3 DEF Ended, Writer, Counters, Numbered
  <2>5. Position'
    BY <2>1, <1>1, <1>3, PublishedFacts DEF Ended, Writer, Position, Settling, Closing, Published
  <2>6. Contented'
    <3>1. \A f \in Frames : Queued(f)' => Queued(f) /\ (w.job = "commit" => f # w.next)
      BY <2>1, <1>1, <1>3 DEF Queued, Ended, Writer, Frames
    <3>2. \A f \in Frames : \/ content'[f] = content[f]
                            \/ f = w.next /\ f \notin objects /\ w.job = "commit"
      BY <2>1, <1>1, <1>3 DEF Without
    <3>3. \A f \in Frames : f < w.next \/ f = w.next => f < w.next + 1
      BY <1>1 DEF Writer, Frames
    <3> QED BY <1>1, <1>3, <2>1, <3>1, <3>2, <3>3, NextIsQueued DEF Contented, Ended
  <2>7. ReaderRoots' /\ WriterIsAlone' /\ InterruptedIsTrue'
    BY <2>1, <1>1 DEF Ended, ReaderRoots, Reads, Generation, WriterIsAlone,
       InterruptedIsTrue, Published
  <2> QED BY <2>2, <2>3, <2>4, <2>5, <2>6, <2>7
<1>4. CASE w.job = "close"
  <2>1. w' = Absent /\ lease' = "none" /\ content' = content
    BY <1>4, FailFacts
  <2>2. Types'
    BY <2>1, AbsentIsWriter DEF Types
  <2>3. Jobs' /\ Counters' /\ Draft' /\ Position'
    BY <2>1 DEF Absent, Jobs, Counters, Numbered, Draft, Position
  <2>4. Contented'
    BY <2>1 DEF Absent, Types, Contented, Queued
  <2>5. ReaderRoots' /\ WriterIsAlone' /\ InterruptedIsTrue'
    BY <2>1 DEF Absent, ReaderRoots, Reads, Generation, WriterIsAlone, InterruptedIsTrue
  <2> QED BY <2>2, <2>3, <2>4, <2>5
<1> QED BY <1>3, <1>4

-----------------------------------------------------------------------------
(* Each action preserves Control. *)

LEMMA CreateControl ==
  ASSUME Control, Create PROVE Control'
<1> USE DEF Control
<1>1. w' \in Writer
  BY AbsentIsWriter DEF Create, LeaseIsFree, Types, Writer, Steps
<1>2. Types'
  BY <1>1 DEF Create, LeaseIsFree, Types
<1>3. Jobs' /\ Counters'
  BY <1>1 DEF Create, LeaseIsFree, Types, Writer, Absent, Jobs, Counters, Numbered,
     CommitSteps, CollectSteps, CloseSteps
<1>4. Position' /\ Draft'
  BY DEF Create, Absent, Position, Draft, Settling, Closing, Published, NoRoot
<1>5. Contented'
  BY <1>1 DEF Create, LeaseIsFree, Types, Writer, Absent, Jobs, Counters, Contented, Queued
<1>6. ReaderRoots' /\ WriterIsAlone' /\ InterruptedIsTrue'
  BY <1>1 DEF Create, LeaseIsFree, Types, Absent, ReaderRoots, Reads, Generation,
     WriterIsAlone, InterruptedIsTrue, Jobs, Published
<1> QED BY <1>2, <1>3, <1>4, <1>5, <1>6

LEMMA AppendControl ==
  ASSUME NEW c \in Contents, Control, Append(c) PROVE Control'
<1> USE DEF Control
<1>1. /\ w \in Writer /\ w.state = "open" /\ ~w.collecting /\ ~w.failure /\ w.observed < MaxFrame
      /\ UNCHANGED <<mode, cut, disk, reader>>
      /\ \/ w' = [w EXCEPT !.observed = @ + 1, !.failure = TRUE] /\ content' = content
         \/ /\ w' = [w EXCEPT !.observed = @ + 1, !.pending = @ + 1]
            /\ content' = [content EXCEPT ![w.observed + 1] = c]
  BY DEF Append, Types
<1>2. w' \in Writer
  <2>1. w.observed + 1 \in -1 .. MaxFrame /\ w.pending + 1 \in Nat
    BY <1>1 DEF Writer
  <2>2. /\ [w EXCEPT !.observed = @ + 1, !.failure = TRUE] \in Writer
        /\ [w EXCEPT !.observed = @ + 1, !.pending = @ + 1] \in Writer
    BY <1>1, <2>1 DEF Writer
  <2> QED BY <1>1, <2>2
<1>3. /\ w'.state = w.state /\ w'.observed = w.observed + 1 /\ w'.next = w.next
      /\ w'.generation = w.generation /\ w'.root = w.root /\ w'.collecting = w.collecting
      /\ w'.written = w.written /\ w'.job = w.job /\ w'.step = w.step /\ w'.draft = w.draft
      /\ w'.todo = w.todo
      /\ \/ w'.failure /\ w'.pending = w.pending
         \/ ~w'.failure /\ w'.pending = w.pending + 1
  BY <1>1, ZenonT(60) DEF Writer
<1>4. Types'
  BY <1>1, <1>2 DEF Types, disk
<1>5. Jobs'
  BY <1>1, <1>3 DEF Jobs, Absent, Writer
<1>6. Counters'
  BY <1>1, <1>3 DEF Counters, Numbered, Writer
<1>7. Position'
  BY <1>1, <1>3 DEF Position, Settling, Closing, Published, disk
<1>8. Draft'
  BY <1>1, <1>3 DEF Draft, Published, disk, Jobs
<1>9. Contented'
  <2>1. w.next + w.pending = w.observed + 1 /\ w.next \in Nat /\ w.pending \in Nat /\ w.observed \in Int
    BY <1>1 DEF Counters, Writer
  <2>2. \A f \in Frames : Queued(f)' => \/ Queued(f) /\ f # w.observed + 1
                                        \/ f = w.observed + 1 /\ content'[f] = c
    <3>1. CASE w'.failure
      BY <1>1, <1>3, <2>1, <3>1 DEF Queued, Frames
    <3>2. CASE ~w'.failure
      <4>1. content' = [content EXCEPT ![w.observed + 1] = c] /\ w'.pending = w.pending + 1
        BY <1>1, <1>3, <3>2 DEF Writer
      <4>2. \A f \in Frames : f = w.observed + 1 => content'[f] = c
        BY <4>1 DEF Types
      <4> QED BY <1>3, <2>1, <4>1, <4>2 DEF Queued, Frames
    <3> QED BY <3>1, <3>2
  <2>3. \A f \in Frames \cap objects : f # w.observed + 1
    BY <1>1, <2>1 DEF Contented, Frames, Jobs
  <2>4. \A f \in Frames : f # w.observed + 1 => content'[f] = content[f]
    BY <1>1 DEF Types
  <2> QED BY <1>1, <1>3, <2>2, <2>3, <2>4 DEF Contented, disk
<1>10. ReaderRoots' /\ WriterIsAlone' /\ InterruptedIsTrue'
  BY <1>1, <1>3 DEF ReaderRoots, Reads, Generation, WriterIsAlone, InterruptedIsTrue,
     Published, disk
<1> QED BY <1>4, <1>5, <1>6, <1>7, <1>8, <1>9, <1>10

LEMMA StartCommitControl ==
  ASSUME Control, StartCommit PROVE Control'
<1> USE DEF Control
<1>1. w' \in Writer
  BY AbsentIsWriter, ZenonT(60) DEF StartCommit, disk, Types, Writer, Steps
<1>2. Types'
  BY <1>1 DEF StartCommit, disk, Types
<1>3. Jobs' /\ Counters'
  BY <1>1 DEF StartCommit, disk, Types, Writer, Absent, Jobs, Counters, Numbered,
     CommitSteps, CollectSteps, CloseSteps
<1>4. Position' /\ Draft'
  BY <1>1, PublishedFacts DEF StartCommit, disk, Types, Writer, Absent, Jobs, Counters,
     Position, Draft, Settling, Closing, Published, WriterIsAlone
<1>5. Contented'
  BY <1>1 DEF StartCommit, disk, Types, Writer, Absent, Jobs, Counters, Contented, Queued
<1>6. ReaderRoots' /\ WriterIsAlone' /\ InterruptedIsTrue'
  BY <1>1 DEF StartCommit, disk, Types, Absent, ReaderRoots, Reads, Generation,
     WriterIsAlone, InterruptedIsTrue, Jobs, Published
<1> QED BY <1>2, <1>3, <1>4, <1>5, <1>6

LEMMA SkipCommitControl ==
  ASSUME Control, SkipCommit PROVE Control'
<1> USE DEF Control
<1>0. w \in Writer /\ w.next + 1 \in Nat /\ w.pending - 1 \in Nat
  BY DEF SkipCommit, Types, Writer
<1>1. w' \in Writer
  BY <1>0 DEF SkipCommit, Writer
<1>2. Types'
  BY <1>1 DEF SkipCommit, disk, Types
<1>3. Jobs' /\ Counters'
  BY <1>1 DEF SkipCommit, disk, Types, Writer, Absent, Jobs, Counters, Numbered,
     CommitSteps, CollectSteps, CloseSteps
<1>4. Position' /\ Draft'
  BY <1>1, PublishedFacts DEF SkipCommit, disk, Types, Writer, Absent, Jobs, Counters,
     Position, Draft, Settling, Closing, Published, WriterIsAlone
<1>5. Contented'
  <2>1. \A f \in Frames : Queued(f)' => Queued(f) /\ f # w.next
    BY <1>0 DEF SkipCommit, Queued, Writer, Frames
  <2>2. w.state # "absent"
    BY DEF SkipCommit, Jobs, Absent
  <2>3. \A f \in Frames : f < w.next \/ f = w.next => f < w.next + 1
    BY <1>0 DEF Writer, Frames
  <2>4. \A f \in Frames : f \in objects => f # w.next
    BY <1>0, <2>2 DEF SkipCommit, Contented, Writer, Frames
  <2>5. \A f \in Frames : f # w.next => content'[f] = content[f]
    BY DEF SkipCommit, Types
  <2> QED BY <1>0, <2>1, <2>2, <2>3, <2>4, <2>5 DEF Contented, SkipCommit, disk, Writer
<1>6. ReaderRoots' /\ WriterIsAlone' /\ InterruptedIsTrue'
  BY <1>1 DEF SkipCommit, disk, Types, Absent, ReaderRoots, Reads, Generation,
     WriterIsAlone, InterruptedIsTrue, Jobs, Published
<1> QED BY <1>2, <1>3, <1>4, <1>5, <1>6

LEMMA PutContentControl ==
  ASSUME Control, PutContent PROVE Control'
<1> USE DEF Control
<1>0. w.next \in Frames /\ content[w.next] \in Contents
  BY NextIsQueued DEF PutContent, At
<1>1. w' \in Writer
  <2>1. w.written \cup {content[w.next]} \in SUBSET Contents
    BY <1>0 DEF Types, Writer
  <2> QED BY <2>1, ZenonT(60) DEF PutContent, Types, Writer, Steps
<1>2. Types'
  BY <1>0, <1>1 DEF PutContent, Types, Objects
<1>3. Jobs' /\ Counters'
  BY <1>1 DEF PutContent, At, Types, Writer, Absent, Jobs, Counters, Numbered,
     CommitSteps, CollectSteps, CloseSteps
<1>4. Position' /\ Draft'
  BY <1>1, PublishedFacts DEF PutContent, At, Types, Writer, Absent, Jobs, Counters,
     Position, Draft, Settling, Closing, Published, WriterIsAlone
<1>5. Contented'
  <2>1. \A f \in Frames : f \in objects' => f \in objects
    BY <1>0 DEF PutContent, Frames
  <2> QED BY <2>1 DEF PutContent, At, Types, Writer, Contented, Queued
<1>6. ReaderRoots' /\ WriterIsAlone' /\ InterruptedIsTrue'
  BY <1>1 DEF PutContent, At, Types, Absent, ReaderRoots, Reads, Generation,
     WriterIsAlone, InterruptedIsTrue, Jobs, Published
<1> QED BY <1>2, <1>3, <1>4, <1>5, <1>6

LEMMA PutBoundaryControl ==
  ASSUME Control, PutBoundary PROVE Control'
<1> USE DEF Control
<1>0. w.next \in Frames /\ content[w.next] \in Contents
  BY NextIsQueued DEF PutBoundary, At
<1>1. w' \in Writer
  BY DEF PutBoundary, Types, Writer, Steps
<1>2. Types'
  BY <1>0, <1>1 DEF PutBoundary, Types, Objects
<1>3. Jobs' /\ Counters'
  BY <1>1 DEF PutBoundary, At, Types, Writer, Absent, Jobs, Counters, Numbered,
     CommitSteps, CollectSteps, CloseSteps
<1>4. Position' /\ Draft'
  BY <1>1, PublishedFacts DEF PutBoundary, At, Types, Writer, Absent, Jobs, Counters,
     Position, Draft, Settling, Closing, Published, WriterIsAlone
<1>5. Contented'
  BY <1>1 DEF PutBoundary, At, Types, Writer, Absent, Jobs, Counters, Contented, Queued
<1>6. ReaderRoots' /\ WriterIsAlone' /\ InterruptedIsTrue'
  BY <1>1 DEF PutBoundary, At, Types, Absent, ReaderRoots, Reads, Generation,
     WriterIsAlone, InterruptedIsTrue, Jobs, Published
<1> QED BY <1>2, <1>3, <1>4, <1>5, <1>6

LEMMA PutSegmentControl ==
  ASSUME Control, PutSegment PROVE Control'
<1> USE DEF Control
<1>1. w' \in Writer
  BY AbsentIsWriter DEF PutSegment, At, Types, Writer, Steps
<1>2. Types'
  BY <1>1, NextIsQueued DEF PutSegment, At, Types
<1>3. Jobs' /\ Counters'
  BY <1>1 DEF PutSegment, At, Types, Writer, Absent, Jobs, Counters, Numbered,
     CommitSteps, CollectSteps, CloseSteps
<1>4. Position' /\ Draft'
  BY <1>1, PublishedFacts DEF PutSegment, At, Types, Writer, Absent, Jobs, Counters,
     Position, Draft, Settling, Closing, Published, WriterIsAlone
<1>5. Contented'
  BY <1>1 DEF PutSegment, At, Types, Writer, Absent, Jobs, Counters, Contented, Queued
<1>6. ReaderRoots' /\ WriterIsAlone' /\ InterruptedIsTrue'
  BY <1>1 DEF PutSegment, At, Types, Absent, ReaderRoots, Reads, Generation,
     WriterIsAlone, InterruptedIsTrue, Jobs, Published
<1> QED BY <1>2, <1>3, <1>4, <1>5, <1>6

LEMMA PutIndexControl ==
  ASSUME Control, PutIndex PROVE Control'
<1> USE DEF Control
<1>1. w' \in Writer
  BY AbsentIsWriter DEF PutIndex, At, Types, Writer, Steps
<1>2. Types'
  BY <1>1, NextIsQueued DEF PutIndex, At, Types
<1>3. Jobs' /\ Counters'
  BY <1>1 DEF PutIndex, At, Types, Writer, Absent, Jobs, Counters, Numbered,
     CommitSteps, CollectSteps, CloseSteps
<1>4. Position' /\ Draft'
  BY <1>1, PublishedFacts DEF PutIndex, At, Types, Writer, Absent, Jobs, Counters,
     Position, Draft, Settling, Closing, Published, WriterIsAlone
<1>5. Contented'
  BY <1>1 DEF PutIndex, At, Types, Writer, Absent, Jobs, Counters, Contented, Queued
<1>6. ReaderRoots' /\ WriterIsAlone' /\ InterruptedIsTrue'
  BY <1>1 DEF PutIndex, At, Types, Absent, ReaderRoots, Reads, Generation,
     WriterIsAlone, InterruptedIsTrue, Jobs, Published
<1> QED BY <1>2, <1>3, <1>4, <1>5, <1>6

LEMMA PutRootControl ==
  ASSUME Control, PutRoot PROVE Control'
<1> DEFINE d == IF w.job = "close" THEN FinalRoot ELSE CommitRoot
<1> USE DEF Control
<1>1. /\ w.job \in {"commit", "close"} /\ w.step = "root" /\ w \in Writer
      /\ w' = [w EXCEPT !.generation = @ + 1, !.draft = d, !.step = "publish"]
      /\ roots' = roots \cup {d}
      /\ UNCHANGED <<mode, cut, content, objects, segments, index, root, lease, reader>>
  BY DEF PutRoot, Types, Writer, Jobs, CollectSteps
<1>2. /\ d \in Root /\ d.generation = w.generation /\ d.first <= d.last
      /\ w.job = "commit" => /\ d.last = w.next /\ d.status = "open"
                             /\ Published.first <= d.first
      /\ w.job = "close" => /\ d.first = Published.first /\ d.last = Published.last
                            /\ d.status \in {"complete", "failed"}
                            /\ d.status = "complete" => ~w.failure
  BY <1>1, CommitRootFacts, FinalRootFacts
<1>3. w.state # "absent"
  BY <1>1 DEF Jobs, Absent
<1> HIDE DEF d
<1>4. w' \in Writer
  <2>1. w.generation + 1 \in Nat /\ d \in Root \cup {NoRoot}
    BY <1>1, <1>2 DEF Writer
  <2> QED BY <1>1, <2>1 DEF Writer, Steps
<1>5. Types'
  BY <1>1, <1>2, <1>4 DEF Types
<1>6. Jobs' /\ Counters'
  BY <1>1, <1>3 DEF Writer, Jobs, Counters, Numbered, CommitSteps, CloseSteps
<1>7. Published' = Published /\ Published.last \in Int /\ Published.generation \in Nat
  BY <1>1, PublishedFacts DEF Published
<1>8. Position'
  BY <1>1, <1>3, <1>7 DEF Writer, Position, Settling, Closing
<1>9. Draft'
  <2>1. w.job = "close" /\ ~w.failure => Published.last = w.observed
    BY <1>1, <1>3, <1>7 DEF Writer, Position, Settling, Counters, Jobs
  <2> QED BY <1>1, <1>2, <1>3, <1>7, <2>1 DEF Writer, Draft, Position
<1>10. Contented'
  BY <1>1 DEF Writer, Contented, Queued
<1>11. ReaderRoots' /\ WriterIsAlone' /\ InterruptedIsTrue'
  BY <1>1, <1>7 DEF Writer, ReaderRoots, Reads, Generation, WriterIsAlone, InterruptedIsTrue
<1> QED BY <1>5, <1>6, <1>8, <1>9, <1>10, <1>11

LEMMA PublishRootFacts ==
  ASSUME Control, PublishRoot
  PROVE  /\ w \in Writer /\ w.step = "publish" /\ w.job \in {"commit", "close"}
         /\ w.state # "absent" /\ w.root = Published
         /\ root' = w.draft /\ w.draft \in Root /\ root' # None /\ Published' = w.draft
         /\ UNCHANGED <<mode, cut, content, objects, segments, index, roots, lease, reader>>
         /\ w' \in Writer /\ w'.root = w.draft /\ w'.draft = NoRoot /\ w'.failure = w.failure
         /\ \/ Ended(w, w')
            \/ /\ w'.state = w.state /\ w'.observed = w.observed /\ w'.generation = w.generation
               /\ w'.next = w.next /\ w'.pending = w.pending /\ w'.collecting = w.collecting
               /\ w'.written = w.written /\ w'.job = w.job /\ w'.step = "scan"
<1> USE DEF Control
<1>1. /\ w \in Writer /\ w.step = "publish" /\ w.job \in {"commit", "close"}
      /\ w.state # "absent" /\ w.root = Published
      /\ root' = w.draft /\ w.draft \in Root
      /\ UNCHANGED <<mode, cut, content, objects, segments, index, roots, lease, reader>>
  BY DEF PublishRoot, Types, Writer, Jobs, CollectSteps, Absent, Draft, WriterIsAlone
<1>2. root' # None /\ Published' = w.draft
  BY <1>1 DEF Published
<1> DEFINE v == [w EXCEPT !.root = w.draft, !.draft = NoRoot]
<1>3. /\ w' \in Writer /\ w'.root = w.draft /\ w'.draft = NoRoot /\ w'.failure = w.failure
      /\ \/ Ended(w, w')
         \/ /\ w'.state = w.state /\ w'.observed = w.observed /\ w'.generation = w.generation
            /\ w'.next = w.next /\ w'.pending = w.pending /\ w'.collecting = w.collecting
            /\ w'.written = w.written /\ w'.job = w.job /\ w'.step = "scan"
  <2>1. /\ v \in Writer /\ v.job = w.job /\ v.pending = w.pending
        /\ v.root = w.draft /\ v.draft = NoRoot /\ v.failure = w.failure
        /\ v.state = w.state /\ v.observed = w.observed /\ v.generation = w.generation
        /\ v.next = w.next /\ v.collecting = w.collecting /\ v.written = w.written
    BY <1>1 DEF Writer
  <2>2. w' = [v EXCEPT !.step = "scan"] \/ w' = Done(v)
    BY DEF PublishRoot
  <2> HIDE DEF v
  <2>3. CASE w' = [v EXCEPT !.step = "scan"]
    BY <2>1, <2>3 DEF Writer, Steps
  <2>4. CASE w' = Done(v)
    <3>1. v.job # "none" /\ (v.job = "commit" => v.pending > 0)
      BY <1>1, <2>1 DEF Jobs
    <3> QED BY <2>1, <2>4, <3>1, DoneFacts, ZenonT(60) DEF Ended
  <2> QED BY <2>2, <2>3, <2>4
<1> QED BY <1>1, <1>2, <1>3

LEMMA PublishRootControl ==
  ASSUME Control, PublishRoot PROVE Control'
<1> USE DEF Control
<1>1. /\ w \in Writer /\ w.step = "publish" /\ w.job \in {"commit", "close"}
      /\ w.state # "absent" /\ w.root = Published
      /\ root' = w.draft /\ w.draft \in Root
      /\ UNCHANGED <<mode, cut, content, objects, segments, index, roots, lease, reader>>
  BY PublishRootFacts
<1>2. root' # None /\ Published' = w.draft
  BY PublishRootFacts
<1>3. /\ w' \in Writer /\ w'.root = w.draft /\ w'.draft = NoRoot /\ w'.failure = w.failure
      /\ \/ Ended(w, w')
         \/ /\ w'.state = w.state /\ w'.observed = w.observed /\ w'.generation = w.generation
            /\ w'.next = w.next /\ w'.pending = w.pending /\ w'.collecting = w.collecting
            /\ w'.written = w.written /\ w'.job = w.job /\ w'.step = "scan"
  BY PublishRootFacts
<1>4. Types'
  BY <1>1, <1>3 DEF Types
<1>5. Jobs' /\ Draft'
  <2>1. w.draft # NoRoot
    BY <1>1, PublishedFacts
  <2> QED BY <1>1, <1>3, <2>1 DEF Ended, Jobs, CommitSteps, CloseSteps, Draft
<1>6. Counters'
  BY <1>1, <1>3 DEF Ended, Writer, Counters, Numbered
<1>7. Position'
  <2>1. w.draft.last \in Int /\ w.draft.generation \in Nat /\ Published.last \in Int
    BY <1>1, RootFacts, PublishedFacts
  <2>2. w.next \in Int /\ w.generation \in Int
    BY <1>1 DEF Writer
  <2> QED BY <1>1, <1>2, <1>3, <2>1, <2>2 DEF Ended, Position, Settling, Closing, Draft
<1>8. Contented'
  <2>1. \A f \in Frames : Queued(f)' => Queued(f)
    BY <1>1, <1>3 DEF Ended, Writer, Queued, Frames
  <2>2. \A f \in Frames : f < w.next \/ f = w.next => f < w.next + 1
    BY <1>1 DEF Writer, Frames
  <2>3. w.job = "close" => w'.next = w.next
    BY <1>1, <1>3 DEF Ended
  <2> QED BY <1>1, <1>3, <2>1, <2>2, <2>3 DEF Ended, Contented
<1>9. ReaderRoots'
  <2>1. /\ Published.generation < w.draft.generation /\ Published.last <= w.draft.last
        /\ w.draft.last \in Int /\ w.draft.generation \in Nat
        /\ Published.last \in Int /\ Published.generation \in Nat
    BY <1>1, RootFacts, PublishedFacts DEF Draft, Position, Settling
  <2>2. root # None => root = Published
    BY PublishedFacts
  <2> QED BY <1>1, <1>2, <1>3, <2>1, <2>2, RootFacts DEF ReaderRoots, Reads, Generation, Ended
<1>10. WriterIsAlone' /\ InterruptedIsTrue'
  BY <1>1, <1>2, <1>3 DEF Ended, WriterIsAlone, InterruptedIsTrue
<1> QED BY <1>4, <1>5, <1>6, <1>7, <1>8, <1>9, <1>10

LEMMA ScanControl ==
  ASSUME Control, Scan PROVE Control'
<1> USE DEF Control
<1>0. /\ w \in Writer /\ w.step = "scan" /\ w'.step = "pins"
      /\ w'.state = w.state /\ w'.observed = w.observed /\ w'.next = w.next
      /\ w'.pending = w.pending /\ w'.generation = w.generation /\ w'.root = w.root
      /\ w'.failure = w.failure /\ w'.collecting = w.collecting /\ w'.job = w.job
  BY DEF Scan, Types, Writer
<1>1. w' \in Writer
  <2>1. \A r \in Readers : HasPin(r) => Generation(r) \in Generations
    BY DEF ReaderRoots, Reads, HasPin, Generation, Root
  <2>2. {<<r, Generation(r)>> : r \in {q \in Readers : HasPin(q)}} \in SUBSET (Readers \X Generations)
    BY <2>1
  <2> QED BY <2>2 DEF Scan, Types, Writer, Steps
<1>2. Types'
  BY <1>1 DEF Scan, disk, Types
<1>3. Jobs' /\ Counters' /\ Draft'
  BY <1>0 DEF Jobs, Counters, Numbered, CommitSteps, CollectSteps, CloseSteps, Absent, Draft
<1>4. Published' = Published
  BY DEF Scan, disk, Published
<1>5. Position'
  BY <1>0, <1>4 DEF Scan, disk, Position, Settling, Closing, Jobs
<1>6. Contented'
  BY <1>0 DEF Scan, disk, Contented, Queued
<1>7. ReaderRoots' /\ WriterIsAlone' /\ InterruptedIsTrue'
  BY <1>0, <1>4 DEF Scan, disk, ReaderRoots, Reads, Generation, WriterIsAlone, InterruptedIsTrue
<1> QED BY <1>2, <1>3, <1>5, <1>6, <1>7

LEMMA ReadPinControl ==
  ASSUME NEW r \in Readers, NEW g, Control, ReadPin(r, g) PROVE Control'
<1> USE DEF Control
<1>1. CASE ~PinIsReadable(r, g)
  <2>1. w.job # "none" /\ w.step # "release"
    BY DEF ReadPin, Jobs
  <2> QED BY <1>1, <2>1, FailControl DEF ReadPin
<1>2. CASE PinIsReadable(r, g)
  <2>1. /\ w \in Writer /\ w.step = "pins"
        /\ UNCHANGED <<mode, cut, content, objects, segments, index, roots, root, lease>>
        /\ \/ /\ reader[r].pc = "crashed"
              /\ reader' = [reader EXCEPT ![r] = [Idle EXCEPT !.pc = "closed"]]
              /\ w' = [w EXCEPT !.todo = @ \ {<<r, g>>}]
           \/ /\ w' = [w EXCEPT !.todo = @ \ {<<r, g>>}, !.pinned = @ \cup {g}]
              /\ reader' = reader
        /\ <<r, g>> \in w.todo
    BY <1>2 DEF ReadPin, Types
  <2>2. /\ w'.state = w.state /\ w'.observed = w.observed /\ w'.next = w.next
        /\ w'.generation = w.generation /\ w'.root = w.root /\ w'.collecting = w.collecting
        /\ w'.written = w.written /\ w'.job = w.job /\ w'.step = w.step /\ w'.draft = w.draft
        /\ w'.failure = w.failure /\ w'.pending = w.pending
    BY <2>1, ZenonT(60) DEF Writer
  <2>3. w' \in Writer
    <3>1. /\ w.todo \ {<<r, g>>} \in SUBSET (Readers \X Generations)
          /\ w.pinned \cup {g} \in SUBSET Generations
      BY <2>1 DEF Writer
    <3>2. /\ [w EXCEPT !.todo = @ \ {<<r, g>>}] \in Writer
          /\ [w EXCEPT !.todo = @ \ {<<r, g>>}, !.pinned = @ \cup {g}] \in Writer
      BY <2>1, <3>1 DEF Writer
    <3> QED BY <2>1, <3>2
  <2>4. Types'
    <3>1. [Idle EXCEPT !.pc = "closed"] \in Reader
      BY DEF Idle, Reader, ReaderPcs
    <3> QED BY <2>1, <2>3, <3>1 DEF Types
  <2>5. Jobs' /\ Counters' /\ Draft'
    BY <2>1, <2>2 DEF Jobs, Absent, Counters, Numbered, Draft
  <2>6. Position' /\ Contented'
    BY <2>1, <2>2 DEF Position, Settling, Closing, Published, Contented, Queued
  <2>7. ReaderRoots' /\ WriterIsAlone' /\ InterruptedIsTrue'
    BY <2>1, <2>2 DEF Types, Idle, ReaderRoots, Reads, Generation, WriterIsAlone,
       InterruptedIsTrue, Published
  <2> QED BY <2>4, <2>5, <2>6, <2>7
<1> QED BY <1>1, <1>2

LEMMA PruneRootsFacts ==
  ASSUME Control, PruneRoots
  PROVE  /\ w \in Writer /\ w.step = "pins" /\ w.todo = {} /\ w.job \in {"commit", "close"}
         /\ w.job = "commit" => w.pending > 0
         /\ UNCHANGED <<mode, cut, content, objects, segments, index, root, lease, reader>>
         /\ roots' = KeptRoots
         /\ w' \in Writer /\ Ended(w, w') /\ w'.root = w.root /\ w'.failure = w.failure
         /\ w'.todo = w.todo /\ w'.draft = w.draft
<1> USE DEF Control
<1>1. /\ w \in Writer /\ w.step = "pins" /\ w.todo = {} /\ w.job \in {"commit", "close"}
      /\ w.job = "commit" => w.pending > 0
  BY DEF PruneRoots, Types, Jobs, Writer
<1> DEFINE v == [w EXCEPT !.pinned = {}]
<1>2. /\ v \in Writer /\ v.job = w.job /\ v.pending = w.pending
      /\ v.root = w.root /\ v.draft = w.draft /\ v.failure = w.failure /\ v.todo = w.todo
      /\ v.state = w.state /\ v.observed = w.observed /\ v.generation = w.generation
      /\ v.next = w.next /\ v.collecting = w.collecting /\ v.written = w.written
  BY <1>1 DEF Writer
<1>3. /\ w' = Done(v) /\ roots' = KeptRoots
      /\ UNCHANGED <<mode, cut, content, objects, segments, index, root, lease, reader>>
  BY DEF PruneRoots, KeptRoots, Keep
<1> HIDE DEF v
<1> QED BY <1>1, <1>2, <1>3, DoneFacts, ZenonT(60) DEF Ended

LEMMA PruneRootsControl ==
  ASSUME Control, PruneRoots PROVE Control'
<1> USE DEF Control
<1>1. /\ w \in Writer /\ w.step = "pins" /\ w.job \in {"commit", "close"}
      /\ w.job = "commit" => w.pending > 0
  BY PruneRootsFacts
<1>2. /\ w' \in Writer /\ Ended(w, w') /\ w'.root = w.root /\ w'.failure = w.failure
      /\ w'.todo = w.todo /\ w'.draft = w.draft
      /\ UNCHANGED <<mode, cut, content, objects, segments, index, root, lease, reader>>
      /\ roots' \subseteq roots
  BY PruneRootsFacts DEF KeptRoots
<1>3. Types'
  BY <1>1, <1>2 DEF Types
<1>4. Jobs' /\ Draft'
  BY <1>1, <1>2 DEF Ended, Jobs, CloseSteps, Draft, Absent
<1>5. Counters'
  BY <1>1, <1>2 DEF Ended, Writer, Counters, Numbered
<1>6. Position'
  <2>1. Published' = Published /\ Published.last \in Int
    BY <1>2, PublishedFacts DEF Published
  <2>2. w.next \in Int /\ w.generation \in Int
    BY <1>1 DEF Writer
  <2> QED BY <1>1, <1>2, <2>1, <2>2 DEF Ended, Position, Settling, Closing
<1>7. Contented'
  <2>1. \A f \in Frames : Queued(f)' => Queued(f)
    BY <1>1, <1>2 DEF Ended, Writer, Queued, Frames
  <2>2. \A f \in Frames : f < w.next \/ f = w.next => f < w.next + 1
    BY <1>1 DEF Writer, Frames
  <2>3. w.job = "close" => w'.next = w.next
    BY <1>1, <1>2 DEF Ended
  <2> QED BY <1>1, <1>2, <2>1, <2>2, <2>3 DEF Ended, Contented
<1>8. ReaderRoots' /\ WriterIsAlone' /\ InterruptedIsTrue'
  BY <1>1, <1>2 DEF Ended, ReaderRoots, Reads, Generation, WriterIsAlone, InterruptedIsTrue,
     Published
<1> QED BY <1>3, <1>4, <1>5, <1>6, <1>7, <1>8

LEMMA CollectControl ==
  ASSUME Control, Collect PROVE Control'
<1> USE DEF Control
<1>1. w' \in Writer
  BY AbsentIsWriter DEF Collect, disk, Types, Writer, Steps
<1>2. Types'
  BY <1>1 DEF Collect, disk, Types
<1>3. Jobs' /\ Counters'
  BY <1>1 DEF Collect, disk, Types, Writer, Absent, Jobs, Counters, Numbered, CommitSteps,
     CollectSteps, CloseSteps
<1>4. Position' /\ Draft'
  BY <1>1, PublishedFacts DEF Collect, disk, Types, Writer, Absent, Jobs, Counters,
     Position, Draft, Settling, Closing, Published, WriterIsAlone
<1>5. Contented'
  BY <1>1 DEF Collect, disk, Types, Writer, Absent, Jobs, Counters, Contented, Queued
<1>6. ReaderRoots' /\ WriterIsAlone' /\ InterruptedIsTrue'
  BY <1>1 DEF Collect, disk, Types, Absent, ReaderRoots, Reads, Generation, WriterIsAlone,
     InterruptedIsTrue, Jobs, Published
<1> QED BY <1>2, <1>3, <1>4, <1>5, <1>6

LEMMA StartCollectControl ==
  ASSUME Control, StartCollect PROVE Control'
<1> USE DEF Control
<1>1. w' \in Writer
  BY ZenonT(60) DEF StartCollect, Types, Writer, Steps
<1>2. Types'
  BY <1>1 DEF StartCollect, disk, Types
<1>3. Jobs' /\ Counters'
  BY <1>1 DEF StartCollect, disk, Types, Writer, Absent, Jobs, Counters, Numbered,
     CommitSteps, CollectSteps, CloseSteps
<1>4. Position' /\ Draft'
  BY <1>1, PublishedFacts DEF StartCollect, disk, Types, Writer, Absent, Jobs, Counters,
     Position, Draft, Settling, Closing, Published, WriterIsAlone
<1>5. Contented'
  BY <1>1 DEF StartCollect, disk, Types, Writer, Absent, Jobs, Counters, Contented, Queued
<1>6. ReaderRoots' /\ WriterIsAlone' /\ InterruptedIsTrue'
  BY <1>1 DEF StartCollect, disk, Types, Absent, ReaderRoots, Reads, Generation,
     WriterIsAlone, InterruptedIsTrue, Jobs, Published
<1> QED BY <1>2, <1>3, <1>4, <1>5, <1>6

LEMMA LowestFirst ==
  ASSUME NEW S \in SUBSET Nat, S # {}
  PROVE  \E f \in S : \A g \in S : f <= g
<1> DEFINE Less == {ss \in Nat \X Nat : ss[1] < ss[2]}
<1>1. IsWellFoundedOn(Less, Nat)
  BY NatLessThanWellFounded, Zenon DEF OpToRel
<1>2. PICK f \in S : \A g \in S : <<g, f>> \notin Less
  <2> HIDE DEF Less
  <2> QED BY <1>1, WFMin
<1>3. \A g \in S : g \in Nat /\ f \in Nat /\ ~(g < f)
  BY <1>2
<1> QED BY <1>3

MarkFloor == CHOOSE f \in {x.first : x \in KeptRoots} : \A x \in KeptRoots : f <= x.first

LEMMA MarkFloorFacts ==
  ASSUME roots \subseteq Root, KeptRoots # {}
  PROVE  MarkFloor \in Frames /\ \A x \in KeptRoots : MarkFloor <= x.first
<1> DEFINE S == {x.first : x \in KeptRoots}
<1>1. S \subseteq Frames /\ S \subseteq Nat /\ S # {}
  BY DEF KeptRoots, Root, Frames
<1>2. \E f \in S : \A g \in S : f <= g
  BY <1>1, LowestFirst
<1>3. \E f \in S : \A x \in KeptRoots : f <= x.first
  BY <1>2
<1>4. MarkFloor \in S /\ \A x \in KeptRoots : MarkFloor <= x.first
  BY <1>3 DEF MarkFloor
<1> QED BY <1>1, <1>4

LEMMA MarkControl ==
  ASSUME Control, Mark PROVE Control'
<1> USE DEF Control
<1> DEFINE frames == UNION {Span(x) \cap index : x \in KeptRoots}
<1>1. /\ w \in Writer /\ w.job = "collect" /\ w.step = "pins" /\ w.todo = {}
      /\ UNCHANGED <<mode, cut, objects, segments, index, roots, root, reader>>
      /\ \/ w' = [w EXCEPT !.step = "sweepRoots"] /\ UNCHANGED <<lease, content>>
         \/ Fail
         \/ /\ \A g \in Keep : \E x \in roots : x.generation = g
            /\ w' = [w EXCEPT !.reachable = frames \cup {content[f] : f \in frames},
                              !.floor = MarkFloor, !.step = "pruneIndex"]
            /\ UNCHANGED <<lease, content>>
  BY DEF Mark, MarkFloor, Types
<1>2. CASE Fail
  BY <1>1, <1>2, FailControl
<1>3. CASE ~Fail
  <2>1. w' \in Writer
    <3>1. CASE w' = [w EXCEPT !.step = "sweepRoots"]
      BY <1>1, <3>1 DEF Writer, Steps
    <3>2. CASE ~(w' = [w EXCEPT !.step = "sweepRoots"])
      <4>1. KeptRoots # {}
        BY <1>1, <1>3, <3>2 DEF Keep, KeptRoots
      <4>2. MarkFloor \in Frames
        BY <4>1, MarkFloorFacts DEF Types
      <4>3. frames \cup {content[f] : f \in frames} \in SUBSET (Objects \cup {None})
        <5>1. frames \subseteq Frames
          BY DEF Types
        <5>2. \A f \in Frames : content[f] \in Contents \cup {None}
          BY DEF Types
        <5> QED BY <5>1, <5>2 DEF Objects
      <4>4. w' = [w EXCEPT !.reachable = frames \cup {content[f] : f \in frames},
                           !.floor = MarkFloor, !.step = "pruneIndex"]
        BY <1>1, <1>3, <3>2
      <4> HIDE DEF frames
      <4> QED BY <1>1, <4>2, <4>3, <4>4 DEF Writer, Steps
    <3> QED BY <3>1, <3>2
  <2>2. /\ w'.state = w.state /\ w'.observed = w.observed /\ w'.next = w.next
        /\ w'.generation = w.generation /\ w'.root = w.root /\ w'.collecting = w.collecting
        /\ w'.written = w.written /\ w'.job = w.job /\ w'.draft = w.draft
        /\ w'.failure = w.failure /\ w'.pending = w.pending /\ w'.todo = {}
        /\ w'.step \in {"sweepRoots", "pruneIndex"}
        /\ UNCHANGED <<mode, cut, content, objects, segments, index, roots, root, lease, reader>>
    <3> HIDE DEF frames
    <3>1. CASE w' = [w EXCEPT !.step = "sweepRoots"] /\ UNCHANGED <<lease, content>>
      BY <1>1, <3>1 DEF Writer
    <3>2. CASE /\ w' = [w EXCEPT !.reachable = frames \cup {content[f] : f \in frames},
                                 !.floor = MarkFloor, !.step = "pruneIndex"]
               /\ UNCHANGED <<lease, content>>
      BY <1>1, <3>2 DEF Writer
    <3> QED BY <1>1, <1>3, <3>1, <3>2
  <2>3. Types'
    BY <2>1, <2>2 DEF Types
  <2>4. Jobs' /\ Counters' /\ Draft'
    BY <1>1, <2>2 DEF Jobs, Absent, CollectSteps, Counters, Numbered, Draft
  <2>5. Position' /\ Contented'
    BY <1>1, <2>2 DEF Position, Settling, Closing, Published, Contented, Queued
  <2>6. ReaderRoots' /\ WriterIsAlone' /\ InterruptedIsTrue'
    BY <1>1, <2>2 DEF ReaderRoots, Reads, Generation, WriterIsAlone, InterruptedIsTrue, Published
  <2> QED BY <2>3, <2>4, <2>5, <2>6
<1> QED BY <1>2, <1>3

LEMMA PruneIndexControl ==
  ASSUME Control, PruneIndex PROVE Control'
<1> USE DEF Control
<1>1. w' \in Writer
  BY AbsentIsWriter DEF PruneIndex, disk, Types, Writer, Steps
<1>2. Types'
  BY <1>1 DEF PruneIndex, disk, Types
<1>3. Jobs' /\ Counters'
  BY <1>1 DEF PruneIndex, disk, Types, Writer, Absent, Jobs, Counters, Numbered,
     CommitSteps, CollectSteps, CloseSteps
<1>4. Position' /\ Draft'
  BY <1>1, PublishedFacts DEF PruneIndex, disk, Types, Writer, Absent, Jobs, Counters,
     Position, Draft, Settling, Closing, Published, WriterIsAlone
<1>5. Contented'
  BY <1>1 DEF PruneIndex, disk, Types, Writer, Absent, Jobs, Counters, Contented, Queued
<1>6. ReaderRoots' /\ WriterIsAlone' /\ InterruptedIsTrue'
  BY <1>1 DEF PruneIndex, disk, Types, Absent, ReaderRoots, Reads, Generation,
     WriterIsAlone, InterruptedIsTrue, Jobs, Published
<1> QED BY <1>2, <1>3, <1>4, <1>5, <1>6

LEMMA SweepObjectControl ==
  ASSUME NEW o, Control, SweepObject(o) PROVE Control'
<1> USE DEF Control
<1>1. w' \in Writer
  BY AbsentIsWriter DEF SweepObject, Types, Writer, Steps
<1>2. Types'
  BY <1>1 DEF SweepObject, Types
<1>3. Jobs' /\ Counters'
  BY <1>1 DEF SweepObject, Types, Writer, Absent, Jobs, Counters, Numbered,
     CommitSteps, CollectSteps, CloseSteps
<1>4. Position' /\ Draft'
  BY <1>1, PublishedFacts DEF SweepObject, Types, Writer, Absent, Jobs, Counters,
     Position, Draft, Settling, Closing, Published, WriterIsAlone
<1>5. Contented'
  <2>1. w.pending = 0 /\ w'.pending = 0
    BY DEF SweepObject, Types, Writer, Jobs, CommitSteps, CloseSteps
  <2>2. \A f \in Frames : ~Queued(f)'
    BY <1>1, <2>1 DEF Queued, Writer
  <2> QED BY <2>1, <2>2 DEF SweepObject, Types, Writer, Contented
<1>6. ReaderRoots' /\ WriterIsAlone' /\ InterruptedIsTrue'
  BY <1>1 DEF SweepObject, Types, Absent, ReaderRoots, Reads, Generation,
     WriterIsAlone, InterruptedIsTrue, Jobs, Published
<1> QED BY <1>2, <1>3, <1>4, <1>5, <1>6

LEMMA SweepMetadataControl ==
  ASSUME Control, SweepMetadata PROVE Control'
<1> USE DEF Control
<1>1. /\ w \in Writer /\ w.job = "collect"
      /\ UNCHANGED <<mode, cut, content, objects, index, root, lease, reader>>
      /\ roots' \subseteq roots /\ segments' \subseteq segments /\ w' = Done(w)
  BY DEF SweepMetadata, KeptRoots, Types, Jobs, Writer, CommitSteps, CloseSteps
<1>2. /\ w' \in Writer /\ Ended(w, w') /\ w'.root = w.root /\ w'.failure = w.failure
      /\ w'.todo = w.todo /\ w'.draft = w.draft
  BY <1>1, DoneFacts
<1>3. Types'
  BY <1>1, <1>2 DEF Types
<1>4. Jobs' /\ Counters' /\ Draft'
  BY <1>1, <1>2 DEF Ended, Jobs, Draft, Counters, Numbered, Absent
<1>5. Position'
  BY <1>1, <1>2 DEF Ended, Position, Settling, Closing, Published
<1>6. Contented'
  BY <1>1, <1>2 DEF Ended, Queued, Contented
<1>7. ReaderRoots' /\ WriterIsAlone' /\ InterruptedIsTrue'
  BY <1>1, <1>2 DEF Ended, ReaderRoots, Reads, Generation, WriterIsAlone, InterruptedIsTrue,
     Published
<1> QED BY <1>3, <1>4, <1>5, <1>6, <1>7

LEMMA CloseControl ==
  ASSUME NEW aborted \in BOOLEAN, Control, Close(aborted) PROVE Control'
<1> USE DEF Control
<1>1. w' \in Writer
  <2>1. (w.failure \/ aborted) \in BOOLEAN
    OBVIOUS
  <2> QED BY <2>1, ZenonT(60) DEF Close, Types, Writer
<1>2. Types'
  BY <1>1 DEF Close, disk, Types
<1>3. Jobs' /\ Counters'
  BY <1>1 DEF Close, disk, Types, Writer, Absent, Jobs, Counters, Numbered, CommitSteps,
     CollectSteps, CloseSteps
<1>4. Position' /\ Draft'
  BY <1>1, PublishedFacts DEF Close, disk, Types, Writer, Absent, Jobs, Counters,
     Position, Draft, Settling, Closing, Published, WriterIsAlone
<1>5. Contented'
  BY <1>1 DEF Close, disk, Types, Writer, Absent, Jobs, Counters, Contented, Queued
<1>6. ReaderRoots' /\ WriterIsAlone' /\ InterruptedIsTrue'
  BY <1>1 DEF Close, disk, Types, Absent, ReaderRoots, Reads, Generation, WriterIsAlone,
     InterruptedIsTrue, Jobs, Published
<1> QED BY <1>2, <1>3, <1>4, <1>5, <1>6

LEMMA StartCloseControl ==
  ASSUME Control, StartClose PROVE Control'
<1> USE DEF Control
<1>1. w' \in Writer
  <2>1. (IF w.root = NoRoot THEN "release" ELSE "root") \in Steps
    BY DEF Steps
  <2> QED BY <2>1, ZenonT(60) DEF StartClose, Types, Writer
<1>2. Types'
  BY <1>1 DEF StartClose, disk, Types
<1>3. Jobs' /\ Counters'
  BY <1>1 DEF StartClose, disk, Types, Writer, Absent, Jobs, Counters, Numbered,
     CommitSteps, CollectSteps, CloseSteps
<1>4. Position' /\ Draft'
  BY <1>1, PublishedFacts DEF StartClose, disk, Types, Writer, Absent, Jobs, Counters,
     Position, Draft, Settling, Closing, Published, WriterIsAlone
<1>5. Contented'
  BY <1>1 DEF StartClose, disk, Types, Writer, Absent, Jobs, Counters, Contented, Queued
<1>6. ReaderRoots' /\ WriterIsAlone' /\ InterruptedIsTrue'
  BY <1>1 DEF StartClose, disk, Types, Absent, ReaderRoots, Reads, Generation,
     WriterIsAlone, InterruptedIsTrue, Jobs, Published
<1> QED BY <1>2, <1>3, <1>4, <1>5, <1>6

LEMMA ReleaseControl ==
  ASSUME Control, Release PROVE Control'
<1> USE DEF Control
<1>1. w' \in Writer
  BY AbsentIsWriter DEF Release, Types, Writer, Steps
<1>2. Types'
  BY <1>1 DEF Release, Types
<1>3. Jobs' /\ Counters'
  BY <1>1 DEF Release, Types, Writer, Absent, Jobs, Counters, Numbered, CommitSteps,
     CollectSteps, CloseSteps
<1>4. Position' /\ Draft'
  BY <1>1, PublishedFacts DEF Release, Types, Writer, Absent, Jobs, Counters,
     Position, Draft, Settling, Closing, Published, WriterIsAlone
<1>5. Contented'
  BY <1>1 DEF Release, Types, Writer, Absent, Jobs, Counters, Contented, Queued
<1>6. ReaderRoots' /\ WriterIsAlone' /\ InterruptedIsTrue'
  BY <1>1 DEF Release, Types, Absent, ReaderRoots, Reads, Generation, WriterIsAlone,
     InterruptedIsTrue, Jobs, Published
<1> QED BY <1>2, <1>3, <1>4, <1>5, <1>6

LEMMA CrashControl ==
  ASSUME Control, Crash PROVE Control'
<1> USE DEF Control
<1>1. w' \in Writer
  BY AbsentIsWriter DEF Crash, Without, Types, Writer, Steps
<1>2. Types'
  BY <1>1 DEF Crash, Without, Types
<1>3. Jobs' /\ Counters'
  BY <1>1 DEF Crash, Without, Types, Writer, Absent, Jobs, Counters, Numbered,
     CommitSteps, CollectSteps, CloseSteps
<1>4. Position' /\ Draft'
  BY <1>1, PublishedFacts DEF Crash, Without, Types, Writer, Absent, Jobs, Counters,
     Position, Draft, Settling, Closing, Published, WriterIsAlone
<1>5. Contented'
  BY <1>1 DEF Crash, Without, Types, Writer, Absent, Jobs, Counters, Contented, Queued
<1>6. ReaderRoots' /\ WriterIsAlone' /\ InterruptedIsTrue'
  BY <1>1 DEF Crash, Without, Types, Absent, ReaderRoots, Reads, Generation,
     WriterIsAlone, InterruptedIsTrue, Jobs, Published
<1> QED BY <1>2, <1>3, <1>4, <1>5, <1>6

LEMMA StartRebuildControl ==
  ASSUME Control, StartRebuild PROVE Control'
<1> USE DEF Control
<1>1. UNCHANGED <<mode, cut, content, objects, segments, roots, root, w, reader>>
  BY DEF StartRebuild
<1>2. Types'
  BY DEF StartRebuild, LeaseIsFree, Types
<1>3. Jobs' /\ Counters' /\ Position' /\ Draft' /\ Contented'
  BY <1>1 DEF Jobs, Counters, Numbered, CommitSteps, CollectSteps, CloseSteps, Position,
     Settling, Closing, Published, Draft, Contented, Queued
<1>4. ReaderRoots' /\ WriterIsAlone' /\ InterruptedIsTrue'
  BY <1>1 DEF StartRebuild, LeaseIsFree, ReaderRoots, Reads, Generation,
     WriterIsAlone, InterruptedIsTrue, Jobs, Published
<1> QED BY <1>2, <1>3, <1>4

LEMMA RebuildControl ==
  ASSUME Control, Rebuild PROVE Control'
<1> USE DEF Control
<1>1. UNCHANGED <<mode, content, objects, segments, roots, root, w, reader>>
  BY DEF Rebuild
<1>2. Types'
  BY DEF Rebuild, Types
<1>3. Jobs' /\ Counters' /\ Position' /\ Draft' /\ Contented'
  BY <1>1 DEF Jobs, Counters, Numbered, CommitSteps, CollectSteps, CloseSteps, Position,
     Settling, Closing, Published, Draft, Contented, Queued
<1>4. ReaderRoots' /\ WriterIsAlone' /\ InterruptedIsTrue'
  BY <1>1 DEF Rebuild, ReaderRoots, Reads, Generation,
     WriterIsAlone, InterruptedIsTrue, Jobs, Published
<1> QED BY <1>2, <1>3, <1>4

LEMMA CrashRebuildControl ==
  ASSUME Control, CrashRebuild PROVE Control'
<1> USE DEF Control
<1>1. UNCHANGED <<mode, cut, content, objects, segments, roots, root, w, reader>>
  BY DEF CrashRebuild
<1>2. Types'
  BY DEF CrashRebuild, Types
<1>3. Jobs' /\ Counters' /\ Position' /\ Draft' /\ Contented'
  BY <1>1 DEF Jobs, Counters, Numbered, CommitSteps, CollectSteps, CloseSteps, Position,
     Settling, Closing, Published, Draft, Contented, Queued
<1>4. ReaderRoots' /\ WriterIsAlone' /\ InterruptedIsTrue'
  BY <1>1 DEF CrashRebuild, ReaderRoots, Reads, Generation,
     WriterIsAlone, InterruptedIsTrue, Jobs, Published
<1> QED BY <1>2, <1>3, <1>4

LEMMA FaultControl == ASSUME Control, Fault PROVE Control'
BY FailControl DEF Fault

LEMMA ReaderControl ==
  ASSUME NEW r \in Readers, Control, ReaderStep(r) PROVE Control'
<1> USE DEF Control
<1>1. UNCHANGED <<mode, cut, content, disk, w>>
  BY DEF ReaderStep, ReadRoot, CreatePin, WritePin, Confirm, CloseReader, RecoverLease,
         RecoverRoot, CrashReader
<1>2. Jobs' /\ Counters' /\ Position' /\ Draft' /\ Contented' /\ WriterIsAlone'
  BY <1>1 DEF disk, Jobs, Counters, Numbered, Position, Settling, Closing, Published, Draft,
              Contented, Queued, WriterIsAlone
<1>3. /\ reader \in [Readers -> Reader] /\ reader[r] \in Reader
      /\ Idle \in Reader /\ [Idle EXCEPT !.pc = "closed"] \in Reader
  BY DEF Types, Idle, Reader, ReaderPcs
<1>4. ASSUME NEW v \in Reader, reader' = [reader EXCEPT ![r] = v] PROVE Types'
  BY <1>1, <1>4 DEF Types, disk
<1>5. CASE ReadRoot(r)
  <2> DEFINE v == [reader[r] EXCEPT !.pc = "read", !.root = root]
  <2>1. root \in Root /\ root # None /\ reader' = [reader EXCEPT ![r] = v]
    BY <1>3, <1>5 DEF ReadRoot, Types
  <2>2. v \in Reader /\ v.pc = "read" /\ v.root = root /\ v.verdict = reader[r].verdict
    BY <1>3, <2>1 DEF Reader, ReaderPcs
  <2> HIDE DEF v
  <2>3. Types'
    BY <1>4, <2>1, <2>2
  <2>4. reader[r].pc = "idle"
    BY <1>5 DEF ReadRoot
  <2>5. ReaderRoots' /\ InterruptedIsTrue'
    BY <1>1, <1>3, <2>1, <2>2, <2>4, RootFacts
    DEF disk, ReaderRoots, Reads, Generation, InterruptedIsTrue, Position
  <2> QED BY <1>2, <2>3, <2>5
<1>6. CASE CreatePin(r) \/ WritePin(r)
  <2>1. Types'
    BY <1>1, <1>6 DEF disk, CreatePin, WritePin, Types, Reader, ReaderPcs
  <2>2. ReaderRoots' /\ InterruptedIsTrue'
    BY <1>1, <1>6 DEF disk, CreatePin, WritePin, Types, Reader, ReaderRoots, Reads,
       Generation, InterruptedIsTrue
  <2> QED BY <1>2, <2>1, <2>2
<1>7. CASE Confirm(r)
  <2> DEFINE v == [reader[r] EXCEPT !.pc = "open"]
  <2>1. reader' = [reader EXCEPT ![r] = v] \/ reader' = [reader EXCEPT ![r] = Idle]
    BY <1>3, <1>7 DEF Confirm
  <2>2. v \in Reader /\ v.pc = "open" /\ v.root = reader[r].root /\ v.verdict = reader[r].verdict
    BY <1>3 DEF Reader, ReaderPcs
  <2> HIDE DEF v
  <2>3. Types'
    BY <1>3, <1>4, <2>1, <2>2
  <2>4. reader[r].pc = "pinned"
    BY <1>7 DEF Confirm
  <2>5. ReaderRoots' /\ InterruptedIsTrue'
    BY <1>1, <1>3, <2>1, <2>2, <2>4 DEF disk, Idle, ReaderRoots, Reads, Generation,
       InterruptedIsTrue
  <2> QED BY <1>2, <2>3, <2>5
<1>8. CASE CloseReader(r) \/ CrashReader(r)
  <2>1. PICK v \in Reader : /\ reader' = [reader EXCEPT ![r] = v] /\ v.verdict = "none"
                            /\ v.pc \in {"closed", "crashedEmpty", "crashed"}
                            /\ v.pc # "closed" => v.root = reader[r].root /\ Reads(r)
    <3>1. CASE CloseReader(r) \/ reader[r].pc = "read"
      <4>1. reader' = [reader EXCEPT ![r] = [Idle EXCEPT !.pc = "closed"]]
        BY <1>8, <3>1 DEF CloseReader, CrashReader
      <4> QED BY <1>3, <4>1 DEF Idle
    <3>2. CASE ~CloseReader(r) /\ reader[r].pc # "read"
      <4> DEFINE c == [Idle EXCEPT !.pc = "crashedEmpty", !.root = reader[r].root]
                 d == [Idle EXCEPT !.pc = "crashed", !.root = reader[r].root]
      <4>1. reader' = [reader EXCEPT ![r] = c] \/ reader' = [reader EXCEPT ![r] = d]
        BY <1>8, <3>2 DEF CrashReader
      <4>2. /\ c \in Reader /\ c.pc = "crashedEmpty" /\ c.root = reader[r].root /\ c.verdict = "none"
            /\ d \in Reader /\ d.pc = "crashed" /\ d.root = reader[r].root /\ d.verdict = "none"
        BY <1>3 DEF Idle, Reader, ReaderPcs
      <4>3. Reads(r)
        BY <1>8, <3>2 DEF CrashReader, Reads
      <4> HIDE DEF c, d
      <4> QED BY <4>1, <4>2, <4>3
    <3> QED BY <3>1, <3>2
  <2>2. Types'
    BY <1>4, <2>1
  <2>3. ReaderRoots' /\ InterruptedIsTrue'
    BY <1>1, <1>3, <2>1 DEF disk, ReaderRoots, Reads, Generation, InterruptedIsTrue
  <2> QED BY <1>2, <2>2, <2>3
<1>9. CASE RecoverLease(r) \/ RecoverRoot(r)
  <2>1. PICK v \in Reader :
          /\ reader' = [reader EXCEPT ![r] = v] /\ v.root = reader[r].root
          /\ \/ /\ reader[r].pc = "open" /\ v.pc = "recovering"
                /\ v.active = ~LeaseIsFree /\ v.verdict = "none"
             \/ /\ reader[r].pc = "recovering" /\ v.pc = "open"
                /\ v.verdict = "interrupted" =>
                     /\ reader[r].root.status = "open" /\ ~reader[r].active
                     /\ root.generation = Generation(r)
    <3>1. CASE RecoverLease(r)
      <4> DEFINE v == [reader[r] EXCEPT !.pc = "recovering", !.active = ~LeaseIsFree]
      <4>1. (~LeaseIsFree) \in BOOLEAN
        OBVIOUS
      <4>2. v \in Reader
        BY <1>3, <4>1 DEF Reader, ReaderPcs
      <4>3. reader' = [reader EXCEPT ![r] = v] /\ reader[r].pc = "open" /\ reader[r].verdict = "none"
        BY <1>3, <3>1 DEF RecoverLease
      <4>4. v.root = reader[r].root /\ v.pc = "recovering" /\ v.active = ~LeaseIsFree /\ v.verdict = reader[r].verdict
        BY <1>3 DEF Reader
      <4> HIDE DEF v
      <4> QED BY <4>2, <4>3, <4>4
    <3>2. CASE RecoverRoot(r)
      <4> DEFINE x == IF /\ reader[r].root.status = "open" /\ ~reader[r].active
                         /\ root.generation = Generation(r)
                        THEN "interrupted" ELSE "none"
                 v == [reader[r] EXCEPT !.pc = "open", !.active = FALSE, !.verdict = x]
      <4>1. v \in Reader /\ v.root = reader[r].root /\ v.pc = "open" /\ v.verdict = x
        BY <1>3 DEF Reader, ReaderPcs
      <4>2. reader' = [reader EXCEPT ![r] = v] /\ reader[r].pc = "recovering"
        BY <1>3, <3>2 DEF RecoverRoot
      <4>3. x = "interrupted" => /\ reader[r].root.status = "open" /\ ~reader[r].active
                                 /\ root.generation = Generation(r)
        OBVIOUS
      <4> HIDE DEF v, x
      <4> QED BY <4>1, <4>2, <4>3
    <3> QED BY <1>9, <3>1, <3>2
  <2>2. Types'
    BY <1>4, <2>1
  <2>3. ReaderRoots'
    BY <1>1, <1>3, <2>1 DEF disk, LeaseIsFree, WriterIsAlone, ReaderRoots, Reads, Generation
  <2>4. InterruptedIsTrue'
    <3>1. Reads(r) /\ (reader[r].root = root \/ Generation(r) < root.generation)
          /\ reader[r].root \in Root /\ root \in Root
      BY <2>1, PublishedFacts DEF Reads, ReaderRoots
    <3>2. root.generation = Generation(r) => reader[r].root = root
      BY <3>1, RootFacts DEF Generation
    <3> QED BY <1>1, <1>3, <2>1, <3>1, <3>2 DEF disk, ReaderRoots, InterruptedIsTrue
  <2> QED BY <1>2, <2>2, <2>3, <2>4
<1> QED BY <1>5, <1>6, <1>7, <1>8, <1>9 DEF ReaderStep

LEMMA ReadPinStepControl ==
  ASSUME Control, NEW p \in w.todo, ReadPin(p[1], p[2]) PROVE Control'
<1>1. p[1] \in Readers
  BY DEF Control, Types, Writer
<1> QED BY <1>1, ReadPinControl

LEMMA ControlInit == Init => Control
<1> SUFFICES ASSUME Init PROVE Control
  OBVIOUS
<1>1. Types
  BY AbsentIsWriter DEF Init, Types, Reader, ReaderPcs, Idle
<1>2. Jobs /\ Counters /\ Position /\ Draft /\ Contented
  BY DEF Init, Absent, Jobs, Counters, Numbered, Position, Draft, Contented, Queued
<1>3. ReaderRoots /\ WriterIsAlone /\ InterruptedIsTrue
  BY DEF Init, Absent, Idle, ReaderRoots, Reads, WriterIsAlone, InterruptedIsTrue
<1> QED BY <1>1, <1>2, <1>3 DEF Control

LEMMA ControlStep == Control /\ [Next]_vars => Control'
<1> SUFFICES ASSUME Control, [Next]_vars PROVE Control'
  OBVIOUS
<1>1. CASE WriterStep
  BY <1>1, StartCommitControl, SkipCommitControl, PutContentControl, PutBoundaryControl,
     PutSegmentControl, PutIndexControl, PutRootControl, PublishRootControl, ScanControl,
     ReadPinStepControl, PruneRootsControl, StartCollectControl, MarkControl, PruneIndexControl,
     SweepObjectControl, SweepMetadataControl, StartCloseControl, ReleaseControl DEF WriterStep
<1>2. CASE WriterCall
  BY <1>2, CreateControl, AppendControl, CollectControl, CloseControl DEF WriterCall
<1>3. CASE Fault \/ Crash
  BY <1>3, FaultControl, CrashControl
<1>4. CASE \E r \in Readers : ReaderStep(r)
  BY <1>4, ReaderControl
<1>5. CASE RebuildStep
  BY <1>5, StartRebuildControl, RebuildControl, CrashRebuildControl DEF RebuildStep
<1>6. CASE UNCHANGED vars
  BY <1>6 DEF vars, Control, Types, Jobs, Counters, Numbered, Position, Settling, Closing,
              Published, Draft, Contented, Queued, ReaderRoots, Reads, Generation, WriterIsAlone,
              InterruptedIsTrue
<1> QED BY <1>1, <1>2, <1>3, <1>4, <1>5, <1>6 DEF Next

LEMMA ControlAlways == Spec => []Control
BY ControlInit, ControlStep, PTL DEF Spec

-----------------------------------------------------------------------------
(* Each action preserves Storage. *)

LEMMA SpansAreFrames ==
  ASSUME Control
  PROVE  /\ Span(Published) \subseteq Frames
         /\ \A r \in Readers : IsOpen(r) => Span(reader[r].root) \subseteq Frames
<1>1. \A x \in Root \cup {NoRoot} : Span(x) \subseteq Frames
  BY DEF Span, Root, NoRoot, Frames
<1>2. \A r \in Readers : IsOpen(r) => reader[r].root \in Root
  BY DEF Control, ReaderRoots, Reads, IsOpen
<1> QED BY <1>1, <1>2, PublishedFacts DEF Control

LEMMA PromiseKept ==
  ASSUME Control, Promise, UNCHANGED <<cut, root, reader>>,
         index \subseteq index', objects \subseteq objects',
         \A f \in Frames \cap objects : content'[f] = content[f]
  PROVE  Promise'
<1>1. \A f \in Frames : Stored(f) => Stored(f)'
  BY DEF Stored
<1>2. Published' = Published /\ \A r \in Readers : IsOpen(r)' <=> IsOpen(r)
  BY DEF Published, IsOpen
<1> QED BY <1>1, <1>2, SpansAreFrames DEF Promise, Readable, Span

LEMMA TrackingKept ==
  ASSUME Tracked, Covered, UNCHANGED <<content, root, reader>>,
         w'.step = w.step, w'.todo = w.todo, w'.pinned = w.pinned, w'.root = w.root,
         w'.floor = w.floor, w'.reachable = w.reachable
  PROVE  Tracked' /\ Covered'
BY DEF Tracked, Covered, Keep, Covers, IsOpen, Generation, Published, Span

\* While nothing is tracked, both are trivial.
LEMMA NothingTracked ==
  ASSUME w.step \notin {"pins", "sweepRoots", "pruneIndex", "sweep"}
  PROVE  Tracked /\ Covered
BY DEF Tracked, Covered

LEMMA KeptRootsSuffice ==
  ASSUME Control, Storage, w.state # "absent", w.todo = {},
         w.step \in {"pins", "sweepRoots", "pruneIndex", "sweep"}
  PROVE  /\ root # None => root \in KeptRoots
         /\ \A r \in Readers : IsOpen(r) => reader[r].root \in KeptRoots
<1>1. w.root = Published
  BY DEF Control, WriterIsAlone
<1>2. \A r \in Readers : IsOpen(r) => Generation(r) \in Keep
  BY DEF Storage, Tracked
<1>3. w.root.generation \in Keep
  BY DEF Keep
<1> QED BY <1>1, <1>2, <1>3 DEF Storage, RootsStored, KeptRoots, Published, Generation

LEMMA FailStorage ==
  ASSUME Control, Storage, w.job # "none", w.step # "release", Fail,
         UNCHANGED <<mode, cut, objects, segments, index, roots, root, reader>>
  PROVE  Storage'
<1> USE DEF Storage
<1>1. /\ w.state # "absent"
      /\ w'.step \notin {"publish", "pins", "sweepRoots", "pruneIndex", "sweep"}
      /\ w'.state # "absent" => w'.generation = w.generation
      /\ w'.job # "commit" /\ w'.written \in {{}, w.written} /\ lease' # "rebuild"
  <2>1. w.state # "absent" /\ lease = "writer"
    BY FailFacts DEF Control, WriterIsAlone
  <2>2. CASE w.job = "close"
    BY <2>1, <2>2, FailFacts DEF Absent
  <2>3. CASE w.job # "close"
    BY <2>1, <2>3, FailFacts DEF Ended
  <2> QED BY <2>2, <2>3
<1>2. RootsStored' /\ Progress' /\ Rebuilding'
  BY <1>1 DEF RootsStored, IsOpen, Progress, Rebuilding
<1>3. Tracked' /\ Covered'
  BY <1>1 DEF Tracked, Covered
<1>4. Promise'
  <2>1. \A f \in Frames \cap objects : content'[f] = content[f]
    BY FailFacts DEF Without
  <2> QED BY <2>1, PromiseKept
<1> QED BY <1>2, <1>3, <1>4

LEMMA CreateStorage ==
  ASSUME Control, Storage, Create PROVE Storage'
<1> USE DEF Storage
<1>0. w \in Writer
  BY DEF Control, Types
<1>1. RootsStored'
  BY <1>0 DEF Create, LeaseIsFree, RootsStored, Writer, Absent, IsOpen
<1>2. Progress'
  BY <1>0 DEF Create, LeaseIsFree, Progress, Writer, Absent, CommitSteps
<1>3. Tracked' /\ Covered'
  BY <1>0 DEF Create, LeaseIsFree, Tracked, Covered, Writer, Absent
<1>4. Rebuilding'
  BY <1>0 DEF Create, LeaseIsFree, Rebuilding, Control, WriterIsAlone
<1>5. Promise'
  BY PromiseKept DEF Create, LeaseIsFree
<1> QED BY <1>1, <1>2, <1>3, <1>4, <1>5

LEMMA AppendStorage ==
  ASSUME NEW c \in Contents, Control, Storage, Append(c) PROVE Storage'
<1> USE DEF Storage
<1>1. /\ w \in Writer /\ UNCHANGED <<mode, cut, disk, reader>> /\ w.state = "open" /\ ~w.failure
      /\ \/ w' = [w EXCEPT !.observed = @ + 1, !.failure = TRUE] /\ content' = content
         \/ /\ w' = [w EXCEPT !.observed = @ + 1, !.pending = @ + 1]
            /\ content' = [content EXCEPT ![w.observed + 1] = c]
      /\ ~w.collecting
  BY DEF Append, Control, Types
<1>2. /\ w'.state = w.state /\ w'.generation = w.generation /\ w'.root = w.root
      /\ w'.written = w.written /\ w'.job = w.job /\ w'.step = w.step /\ w'.draft = w.draft
      /\ w'.next = w.next /\ w'.todo = w.todo /\ w'.pinned = w.pinned
  BY <1>1, ZenonT(60) DEF Writer
<1>3. \A f \in Frames : f \in objects \/ (f = w.next /\ w.job = "commit") => content'[f] = content[f]
  <2>1. w.next + w.pending = w.observed + 1 /\ w.next \in Nat /\ w.pending \in Nat /\ w.observed \in Int
    BY <1>1 DEF Control, Counters, Writer
  <2>2. \A f \in Frames : f \in objects \/ (f = w.next /\ w.job = "commit") => f # w.observed + 1
    BY <1>1, <2>1 DEF Control, Contented, Frames, Jobs
  <2> QED BY <1>1, <2>2 DEF Control, Types
<1>4. RootsStored' /\ Rebuilding'
  BY <1>1, <1>2 DEF disk, RootsStored, IsOpen, Rebuilding
<1>5. Progress'
  BY <1>1, <1>2, <1>3, NextIsQueued DEF disk, Progress
<1>6. Tracked' /\ Covered'
  <2>1. w.job # "collect" /\ w.step \notin {"sweepRoots", "pruneIndex", "sweep"}
    BY <1>1 DEF Control, Jobs, Writer, CommitSteps, CloseSteps
  <2> QED BY <1>1, <1>2, <2>1 DEF disk, Tracked, Covered, Keep, IsOpen, Generation
<1>7. Promise'
  <2>1. UNCHANGED <<cut, root, reader>> /\ index' = index /\ objects' = objects
    BY <1>1 DEF disk
  <2>2. \A f \in Frames \cap objects : content'[f] = content[f]
    BY <1>3
  <2> QED BY <2>1, <2>2, PromiseKept
<1> QED BY <1>4, <1>5, <1>6, <1>7

LEMMA StartCommitStorage ==
  ASSUME Control, Storage, StartCommit PROVE Storage'
<1> USE DEF Storage
<1>0. w \in Writer
  BY DEF Control, Types
<1>1. RootsStored'
  BY <1>0 DEF StartCommit, disk, RootsStored, Writer, Absent, IsOpen
<1>2. Progress'
  BY <1>0 DEF StartCommit, disk, Progress, Writer, Absent, CommitSteps
<1>3. Tracked' /\ Covered'
  BY <1>0 DEF StartCommit, disk, Tracked, Covered, Writer, Absent
<1>4. Rebuilding'
  BY <1>0 DEF StartCommit, disk, Rebuilding, Control, WriterIsAlone
<1>5. Promise'
  BY PromiseKept DEF StartCommit, disk
<1> QED BY <1>1, <1>2, <1>3, <1>4, <1>5

LEMMA SkipCommitStorage ==
  ASSUME Control, Storage, SkipCommit PROVE Storage'
<1> USE DEF Storage
<1>0. w \in Writer
  BY DEF Control, Types
<1>1. RootsStored'
  BY <1>0 DEF SkipCommit, disk, RootsStored, Writer, Absent, IsOpen
<1>2. Progress'
  BY <1>0 DEF SkipCommit, disk, Progress, Writer, Absent, CommitSteps
<1>3. Tracked' /\ Covered'
  BY <1>0 DEF SkipCommit, Control, Jobs, Writer, Tracked, Covered
<1>4. Rebuilding'
  BY <1>0 DEF SkipCommit, disk, Rebuilding, Control, WriterIsAlone
<1>5. Promise'
  <2>1. w.job = "none" /\ w.pending > 0 /\ w.state # "absent"
    BY <1>0 DEF SkipCommit, Control, Jobs, Absent
  <2>2. w.next \in Frames
    BY <1>0, <2>1 DEF Control, Counters, Writer, Frames
  <2>3. w.next \notin objects
    BY <1>0, <2>1, <2>2 DEF Control, Contented, Writer
  <2>4. \A f \in Frames \cap objects : content'[f] = content[f]
    BY <2>3 DEF SkipCommit, Control, Types
  <2> QED BY <2>4, PromiseKept DEF SkipCommit, disk
<1> QED BY <1>1, <1>2, <1>3, <1>4, <1>5

LEMMA PutContentStorage ==
  ASSUME Control, Storage, PutContent PROVE Storage'
<1> USE DEF Storage
<1>0. w \in Writer
  BY DEF Control, Types
<1>1. RootsStored'
  BY <1>0 DEF PutContent, At, RootsStored, Writer, Absent, IsOpen
<1>2. Progress'
  BY <1>0 DEF PutContent, At, Progress, Writer, Absent, CommitSteps
<1>3. Tracked' /\ Covered'
  BY <1>0 DEF PutContent, At, Tracked, Covered, Writer, Absent
<1>4. Rebuilding'
  BY <1>0 DEF PutContent, At, Rebuilding, Control, WriterIsAlone
<1>5. Promise'
  BY PromiseKept DEF PutContent, At
<1> QED BY <1>1, <1>2, <1>3, <1>4, <1>5

LEMMA PutBoundaryStorage ==
  ASSUME Control, Storage, PutBoundary PROVE Storage'
<1> USE DEF Storage
<1>0. w \in Writer
  BY DEF Control, Types
<1>1. RootsStored'
  BY <1>0 DEF PutBoundary, At, RootsStored, Writer, Absent, IsOpen
<1>2. Progress'
  BY <1>0 DEF PutBoundary, At, Progress, Writer, Absent, CommitSteps
<1>3. Tracked' /\ Covered'
  BY <1>0 DEF PutBoundary, At, Tracked, Covered, Writer, Absent
<1>4. Rebuilding'
  BY <1>0 DEF PutBoundary, At, Rebuilding, Control, WriterIsAlone
<1>5. Promise'
  BY PromiseKept DEF PutBoundary, At
<1> QED BY <1>1, <1>2, <1>3, <1>4, <1>5

LEMMA PutSegmentStorage ==
  ASSUME Control, Storage, PutSegment PROVE Storage'
<1> USE DEF Storage
<1>0. w \in Writer
  BY DEF Control, Types
<1>1. RootsStored'
  BY <1>0 DEF PutSegment, At, RootsStored, Writer, Absent, IsOpen
<1>2. Progress'
  BY <1>0 DEF PutSegment, At, Progress, Writer, Absent, CommitSteps
<1>3. Tracked' /\ Covered'
  BY <1>0 DEF PutSegment, At, Tracked, Covered, Writer, Absent
<1>4. Rebuilding'
  BY <1>0 DEF PutSegment, At, Rebuilding, Control, WriterIsAlone
<1>5. Promise'
  BY PromiseKept DEF PutSegment, At
<1> QED BY <1>1, <1>2, <1>3, <1>4, <1>5

LEMMA PutIndexStorage ==
  ASSUME Control, Storage, PutIndex PROVE Storage'
<1> USE DEF Storage
<1>0. w \in Writer
  BY DEF Control, Types
<1>1. RootsStored'
  BY <1>0 DEF PutIndex, At, RootsStored, Writer, Absent, IsOpen
<1>2. Progress'
  BY <1>0 DEF PutIndex, At, Progress, Writer, Absent, CommitSteps
<1>3. Tracked' /\ Covered'
  BY <1>0 DEF PutIndex, At, Tracked, Covered, Writer, Absent
<1>4. Rebuilding'
  BY <1>0 DEF PutIndex, At, Rebuilding, Control, WriterIsAlone
<1>5. Promise'
  BY PromiseKept DEF PutIndex, At
<1> QED BY <1>1, <1>2, <1>3, <1>4, <1>5

LEMMA PutRootStorage ==
  ASSUME Control, Storage, PutRoot PROVE Storage'
<1> USE DEF Storage
<1>0. w \in Writer
  BY DEF Control, Types
<1>1. RootsStored'
  <2> DEFINE d == IF w.job = "close" THEN FinalRoot ELSE CommitRoot
  <2>1. /\ w.step = "root" /\ w.job \in {"commit", "close"} /\ roots' = roots \cup {d}
        /\ w' = [w EXCEPT !.generation = @ + 1, !.draft = d, !.step = "publish"]
        /\ UNCHANGED <<root, reader>>
    BY <1>0 DEF PutRoot, Control, Jobs, Writer, CollectSteps
  <2>2. d.generation = w.generation /\ w.state # "absent"
    BY <2>1, CommitRootFacts, FinalRootFacts DEF Control, Jobs, Absent
  <2>3. w.generation \in Nat /\ \A x \in roots : x.generation \in Nat
    BY <1>0, RootFacts DEF Writer, Control, Types
  <2> HIDE DEF d
  <2> QED BY <1>0, <2>1, <2>2, <2>3 DEF RootsStored, Writer, IsOpen
<1>2. Progress'
  BY <1>0 DEF PutRoot, Progress, Writer, Absent, CommitSteps
<1>3. Tracked' /\ Covered'
  BY <1>0 DEF PutRoot, Tracked, Covered, Writer, Absent
<1>4. Rebuilding'
  BY <1>0 DEF PutRoot, Rebuilding, Control, WriterIsAlone
<1>5. Promise'
  BY PromiseKept DEF PutRoot
<1> QED BY <1>1, <1>2, <1>3, <1>4, <1>5

LEMMA PublishRootStorage ==
  ASSUME Control, Storage, PublishRoot PROVE Storage'
<1> USE DEF Storage
<1>1. /\ w.step = "publish" /\ w.job \in {"commit", "close"} /\ w.state # "absent"
      /\ root' = w.draft /\ Published' = w.draft /\ w.draft \in Root
      /\ UNCHANGED <<mode, cut, content, objects, segments, index, roots, lease, reader>>
      /\ w'.generation = w.generation /\ w'.state = w.state /\ w'.written = w.written
      /\ w'.job = "commit" => w.job = "commit" /\ w'.next = w.next /\ w'.step = "scan"
      /\ w'.step \in {"scan", "none", "release"}
  BY PublishRootFacts DEF Ended
<1>2. RootsStored'
  BY <1>1 DEF RootsStored, IsOpen
<1>3. Progress'
  BY <1>1 DEF Progress, CommitSteps
<1>4. Tracked' /\ Covered' /\ Rebuilding'
  BY <1>1 DEF Tracked, Covered, Rebuilding, Control, WriterIsAlone
<1>5. \A f \in Span(w.draft) : Readable(f)
  <2>1. /\ w.draft.first \in Nat /\ w.draft.last \in Nat
        /\ Published.first \in Nat /\ Published.last \in Int
    BY <1>1, RootFacts, PublishedFacts DEF Control
  <2>2. CASE w.job = "close"
    BY <1>1, <2>2 DEF Control, Draft, Promise, Span
  <2>3. CASE w.job = "commit"
    <3>1. Readable(w.next)
      BY <1>1, <2>3 DEF Progress, CommitSteps, Readable, Stored
    <3>2. w.draft.last = w.next /\ Published.first <= w.draft.first /\ w.next = Published.last + 1
      BY <1>1, <2>3 DEF Control, Draft, Position, Settling
    <3>3. \A f \in Span(w.draft) : f \in Span(Published) \/ f = w.next
      BY <2>1, <3>2 DEF Span
    <3> QED BY <3>1, <3>3 DEF Promise
  <2> QED BY <1>1, <2>2, <2>3
<1>6. Promise'
  BY <1>1, <1>5 DEF Promise, Readable, Stored, IsOpen, Span
<1> QED BY <1>2, <1>3, <1>4, <1>6

LEMMA ScanStorage ==
  ASSUME Control, Storage, Scan PROVE Storage'
<1> USE DEF Storage
<1>0. w \in Writer
  BY DEF Control, Types
<1>1. RootsStored'
  BY <1>0 DEF Scan, disk, RootsStored, Writer, Absent, IsOpen
<1>2. Progress'
  BY <1>0 DEF Scan, disk, Progress, Writer, Absent, CommitSteps
<1>3. Tracked' /\ Covered'
  <2>1. w'.todo = {<<r, Generation(r)>> : r \in {q \in Readers : HasPin(q)}} /\ w'.step = "pins"
    BY <1>0 DEF Scan, Writer
  <2> QED BY <2>1 DEF Scan, Tracked, Covered, IsOpen, HasPin, Generation
<1>4. Rebuilding'
  BY <1>0 DEF Scan, disk, Rebuilding, Control, WriterIsAlone
<1>5. Promise'
  BY PromiseKept DEF Scan, disk
<1> QED BY <1>1, <1>2, <1>3, <1>4, <1>5

LEMMA ReadPinStorage ==
  ASSUME NEW r \in Readers, NEW g, Control, Storage, ReadPin(r, g) PROVE Storage'
<1> USE DEF Storage
<1>1. CASE ~PinIsReadable(r, g)
  <2>1. w.job # "none" /\ w.step # "release"
    BY DEF ReadPin, Control, Jobs
  <2> QED BY <1>1, <2>1, FailStorage DEF ReadPin
<1>2. CASE PinIsReadable(r, g)
  <2>1. /\ w \in Writer /\ reader \in [Readers -> Reader] /\ w.step = "pins"
        /\ UNCHANGED <<mode, cut, content, objects, segments, index, roots, root, lease>>
        /\ \/ /\ reader[r].pc = "crashed"
              /\ reader' = [reader EXCEPT ![r] = [Idle EXCEPT !.pc = "closed"]]
              /\ w' = [w EXCEPT !.todo = @ \ {<<r, g>>}]
           \/ /\ w' = [w EXCEPT !.todo = @ \ {<<r, g>>}, !.pinned = @ \cup {g}]
              /\ reader' = reader
    BY <1>2 DEF ReadPin, Control, Types
  <2>2. /\ w'.state = w.state /\ w'.next = w.next /\ w'.generation = w.generation
        /\ w'.root = w.root /\ w'.written = w.written /\ w'.job = w.job /\ w'.step = w.step
        /\ w'.draft = w.draft /\ w'.todo = w.todo \ {<<r, g>>}
        /\ w'.pinned \in {w.pinned, w.pinned \cup {g}}
        /\ reader[r].pc # "crashed" => w'.pinned = w.pinned \cup {g}
    BY <2>1, ZenonT(60) DEF Writer
  <2>3. \A q \in Readers : IsOpen(q)' => /\ IsOpen(q) /\ reader'[q] = reader[q]
                                         /\ q = r => w'.pinned = w.pinned \cup {g}
    BY <2>1, <2>2 DEF IsOpen, Idle
  <2>4. RootsStored' /\ Progress' /\ Rebuilding'
    BY <2>1, <2>2, <2>3 DEF RootsStored, Progress, Rebuilding, IsOpen
  <2>5. Tracked' /\ Covered'
    BY <2>1, <2>2, <2>3 DEF Tracked, Covered, Keep, Generation
  <2>6. Promise'
    BY <2>1, <2>3 DEF Promise, Readable, Stored, Published, Span
  <2> QED BY <2>4, <2>5, <2>6
<1> QED BY <1>1, <1>2

LEMMA PruneRootsStorage ==
  ASSUME Control, Storage, PruneRoots PROVE Storage'
<1> USE DEF Storage
<1>1. /\ w.step = "pins" /\ w.todo = {} /\ w.job \in {"commit", "close"} /\ w.state # "absent"
      /\ UNCHANGED <<mode, cut, content, objects, segments, index, root, lease, reader>>
      /\ roots' = KeptRoots
      /\ w'.generation = w.generation /\ w'.state = w.state /\ w'.written = w.written
      /\ w'.job # "commit" /\ w'.step \in {"none", "release"}
  <2>1. w.state # "absent"
    BY PruneRootsFacts DEF Control, Jobs, Absent
  <2> QED BY <2>1, PruneRootsFacts DEF Ended
<1>2. RootsStored'
  BY <1>1, KeptRootsSuffice DEF RootsStored, IsOpen, KeptRoots
<1>3. Progress' /\ Tracked' /\ Covered' /\ Rebuilding'
  BY <1>1 DEF Progress, Tracked, Covered, Rebuilding, Control, WriterIsAlone
<1>4. Promise'
  BY <1>1, PromiseKept
<1> QED BY <1>2, <1>3, <1>4

LEMMA CollectStorage ==
  ASSUME Control, Storage, Collect PROVE Storage'
<1> USE DEF Storage
<1>0. w \in Writer
  BY DEF Control, Types
<1>1. RootsStored'
  BY <1>0 DEF Collect, disk, RootsStored, Writer, Absent, IsOpen
<1>2. Progress'
  BY <1>0 DEF Collect, disk, Progress, Writer, Absent, CommitSteps
<1>3. Tracked' /\ Covered'
  BY <1>0, TrackingKept DEF Collect, disk, Writer
<1>4. Rebuilding'
  BY <1>0 DEF Collect, disk, Rebuilding, Control, WriterIsAlone
<1>5. Promise'
  BY PromiseKept DEF Collect, disk
<1> QED BY <1>1, <1>2, <1>3, <1>4, <1>5

LEMMA StartCollectStorage ==
  ASSUME Control, Storage, StartCollect PROVE Storage'
<1> USE DEF Storage
<1>0. w \in Writer
  BY DEF Control, Types
<1>1. RootsStored'
  BY <1>0 DEF StartCollect, disk, RootsStored, Writer, Absent, IsOpen
<1>2. Progress'
  BY <1>0 DEF StartCollect, disk, Progress, Writer, Absent, CommitSteps
<1>3. Tracked' /\ Covered'
  BY <1>0 DEF StartCollect, Control, Jobs, Writer, Tracked, Covered
<1>4. Rebuilding'
  BY <1>0 DEF StartCollect, disk, Rebuilding, Control, WriterIsAlone
<1>5. Promise'
  BY PromiseKept DEF StartCollect, disk
<1> QED BY <1>1, <1>2, <1>3, <1>4, <1>5

LEMMA MarkStorage ==
  ASSUME Control, Cut, Storage, Mark PROVE Storage'
<1> USE DEF Storage
<1> DEFINE frames == UNION {Span(x) \cap index : x \in KeptRoots}
<1>1. /\ w \in Writer /\ w.job = "collect" /\ w.step = "pins" /\ w.todo = {}
      /\ UNCHANGED <<mode, cut, objects, segments, index, roots, root, reader>>
      /\ \/ w' = [w EXCEPT !.step = "sweepRoots"] /\ UNCHANGED <<lease, content>>
         \/ Fail
         \/ /\ \A g \in Keep : \E x \in roots : x.generation = g
            /\ w' = [w EXCEPT !.reachable = frames \cup {content[f] : f \in frames},
                              !.floor = MarkFloor, !.step = "pruneIndex"]
            /\ UNCHANGED <<lease, content>>
  BY DEF Mark, MarkFloor, Control, Types
<1>2. w.state # "absent" /\ w.root = Published /\ root # None /\ root = Published
  BY <1>1, PublishedFacts DEF Control, Jobs, Absent, WriterIsAlone
<1>3. CASE Fail
  BY <1>1, <1>3, FailStorage
<1>4. CASE /\ w' = [w EXCEPT !.step = "sweepRoots"] /\ UNCHANGED <<lease, content>>
  <2>1. /\ w'.state = w.state /\ w'.generation = w.generation /\ w'.root = w.root
        /\ w'.written = w.written /\ w'.job = w.job /\ w'.step = "sweepRoots"
        /\ w'.todo = w.todo /\ w'.pinned = w.pinned
    BY <1>1, <1>4 DEF Writer
  <2>2. RootsStored' /\ Progress' /\ Rebuilding'
    BY <1>1, <1>4, <2>1 DEF RootsStored, IsOpen, Progress, Rebuilding
  <2>3. Tracked' /\ Covered'
    BY <1>1, <2>1 DEF Tracked, Covered, IsOpen, Keep, Generation
  <2>4. Promise'
    BY <1>1, <1>4, PromiseKept
  <2> QED BY <2>2, <2>3, <2>4
<1>5. CASE /\ w' = [w EXCEPT !.reachable = frames \cup {content[f] : f \in frames},
                             !.floor = MarkFloor, !.step = "pruneIndex"]
           /\ UNCHANGED <<lease, content>>
  <2>1. /\ w'.state = w.state /\ w'.generation = w.generation /\ w'.root = w.root
        /\ w'.written = w.written /\ w'.job = w.job /\ w'.step = "pruneIndex"
        /\ w'.todo = w.todo /\ w'.pinned = w.pinned /\ w'.floor = MarkFloor
        /\ w'.reachable = frames \cup {content[f] : f \in frames}
    <3> HIDE DEF frames
    <3> QED BY <1>1, <1>5 DEF Writer
  <2>2. RootsStored' /\ Progress' /\ Rebuilding'
    BY <1>1, <1>5, <2>1 DEF RootsStored, IsOpen, Progress, Rebuilding
  <2>3. Tracked'
    BY <1>1, <2>1 DEF Tracked, IsOpen, Keep, Generation
  <2>4. \A x \in KeptRoots : (\A f \in Span(x) : Readable(f)) => Covers(x)'
    <3> SUFFICES ASSUME NEW x \in KeptRoots, \A f \in Span(x) : Readable(f), NEW f \in Span(x)
                 PROVE  f >= MarkFloor /\ f \in w'.reachable /\ content[f] \in w'.reachable
      BY <1>5, <2>1 DEF Covers, Span
    <3>1. MarkFloor \in Frames /\ MarkFloor <= x.first
      BY MarkFloorFacts DEF Control, Types
    <3>2. x.first \in Nat /\ x.last \in Nat
      BY RootFacts DEF KeptRoots, Control, Types
    <3>3. f >= MarkFloor
      BY <3>1, <3>2 DEF Span, Frames
    <3>4. f \in frames
      BY DEF Readable, Stored
    <3> QED BY <2>1, <3>3, <3>4
  <2>5. \A r \in Readers : IsOpen(r) => \A f \in Span(reader[r].root) : Readable(f)
    <3>1. cut = 0
      BY <1>2 DEF Cut, Frames
    <3>2. ASSUME NEW r \in Readers, IsOpen(r), NEW f \in Span(reader[r].root) PROVE f >= 0
      BY <3>2, RootFacts DEF Control, ReaderRoots, Reads, IsOpen, Span
    <3> QED BY <3>1, <3>2 DEF Promise, Readable, Span, Control, Types
  <2>6. Covered'
    BY <1>1, <1>2, <2>4, <2>5, KeptRootsSuffice DEF Covered, Promise, IsOpen, Published
  <2>7. Promise'
    BY <1>1, <1>5, PromiseKept
  <2> QED BY <2>2, <2>3, <2>6, <2>7
<1> QED BY <1>1, <1>3, <1>4, <1>5

LEMMA PruneIndexStorage ==
  ASSUME Control, Storage, PruneIndex PROVE Storage'
<1> USE DEF Storage
<1>1. /\ w \in Writer /\ w.job = "collect" /\ w.step = "pruneIndex" /\ w' = [w EXCEPT !.step = "sweep"]
      /\ index' = {f \in index : f >= w.floor}
      /\ UNCHANGED <<mode, cut, content, objects, segments, roots, root, lease, reader>>
  BY DEF PruneIndex, Control, Types, Jobs, Writer, CommitSteps, CloseSteps
<1>2. /\ w'.state = w.state /\ w'.generation = w.generation /\ w'.root = w.root
      /\ w'.written = w.written /\ w'.job = w.job /\ w'.step = "sweep" /\ w'.floor = w.floor
      /\ w'.todo = w.todo /\ w'.pinned = w.pinned /\ w'.reachable = w.reachable
  BY <1>1 DEF Writer
<1>3. RootsStored' /\ Progress' /\ Rebuilding'
  BY <1>1, <1>2 DEF RootsStored, IsOpen, Progress, Rebuilding
<1>4. Tracked' /\ Covered'
  BY <1>1, <1>2 DEF Tracked, Covered, IsOpen, Keep, Generation, Covers, Span, Published
<1>5. Promise'
  BY <1>1 DEF Promise, Covered, Covers, Readable, Stored, IsOpen, Span, Published
<1> QED BY <1>3, <1>4, <1>5

LEMMA SweepObjectStorage ==
  ASSUME NEW o, Control, Storage, SweepObject(o) PROVE Storage'
<1> USE DEF Storage
<1>1. /\ w \in Writer /\ w.job = "collect" /\ w.step = "sweep" /\ o \notin w.reachable
      /\ w' = [w EXCEPT !.written = @ \ {o}] /\ objects' = objects \ {o}
      /\ content' = [f \in Frames |-> IF f = o THEN None ELSE content[f]]
      /\ UNCHANGED <<mode, cut, index, segments, roots, root, lease, reader>>
  BY DEF SweepObject, Control, Types, Jobs, Writer, CommitSteps, CloseSteps
<1>2. /\ w'.state = w.state /\ w'.generation = w.generation /\ w'.root = w.root
      /\ w'.written = w.written \ {o} /\ w'.job = w.job /\ w'.step = w.step /\ w'.floor = w.floor
      /\ w'.todo = w.todo /\ w'.pinned = w.pinned /\ w'.reachable = w.reachable
  BY <1>1 DEF Writer
<1>3. RootsStored' /\ Progress' /\ Rebuilding' /\ Tracked'
  BY <1>1, <1>2 DEF RootsStored, IsOpen, Progress, Rebuilding, Tracked, Keep, Generation
<1>4. \A f \in Frames : Stored(f) /\ f \in w.reachable /\ content[f] \in w.reachable =>
                          Stored(f)' /\ content'[f] = content[f]
  BY <1>1 DEF Stored
<1>5. \A x : Covers(x) /\ Span(x) \subseteq Frames /\ (\A f \in Span(x) : Stored(f)) =>
               Covers(x)' /\ \A f \in Span(x) : Stored(f)'
  BY <1>1, <1>2, <1>4 DEF Covers, Span
<1>6. /\ Covers(Published) /\ \A f \in Span(Published) : Stored(f)
      /\ \A r \in Readers : IsOpen(r) =>
           Covers(reader[r].root) /\ \A f \in Span(reader[r].root) : Stored(f)
  BY <1>1 DEF Covered, Promise, Readable
<1>7. /\ Covers(Published)' /\ \A f \in Span(Published) : Stored(f)'
      /\ \A r \in Readers : IsOpen(r) =>
           Covers(reader[r].root)' /\ \A f \in Span(reader[r].root) : Stored(f)'
    <2>1. Published' = Published
      BY <1>1 DEF Published
    <2> QED BY <1>1, <1>5, <1>6, <2>1, SpansAreFrames DEF Covers
<1>8. Covered'
  BY <1>1, <1>7 DEF Covered, IsOpen
<1>9. Promise'
  BY <1>1, <1>7 DEF Promise, Readable, IsOpen, Span, Published
<1> QED BY <1>3, <1>8, <1>9

LEMMA SweepMetadataStorage ==
  ASSUME Control, Storage, SweepMetadata PROVE Storage'
<1> USE DEF Storage
<1>1. /\ w \in Writer /\ w.job = "collect" /\ w.state # "absent" /\ w.todo = {}
      /\ w.step \in {"sweepRoots", "sweep"}
      /\ UNCHANGED <<mode, cut, content, objects, index, root, lease, reader>>
      /\ roots' = KeptRoots /\ w' = Done(w)
  BY DEF SweepMetadata, Control, Types, Jobs, Writer, CommitSteps, CloseSteps, Absent
<1>2. /\ w'.generation = w.generation /\ w'.state = w.state /\ w'.written = w.written
      /\ w'.job = "none" /\ w'.step = "none"
  BY <1>1, DoneFacts DEF Ended
<1>3. RootsStored'
  BY <1>1, <1>2, KeptRootsSuffice DEF RootsStored, IsOpen, KeptRoots
<1>4. Progress' /\ Tracked' /\ Covered' /\ Rebuilding'
  BY <1>1, <1>2 DEF Progress, Tracked, Covered, Rebuilding, Control, WriterIsAlone
<1>5. Promise'
  BY <1>1, PromiseKept
<1> QED BY <1>3, <1>4, <1>5

LEMMA CloseStorage ==
  ASSUME NEW aborted \in BOOLEAN, Control, Storage, Close(aborted) PROVE Storage'
<1> USE DEF Storage
<1>0. w \in Writer
  BY DEF Control, Types
<1>1. RootsStored'
  BY <1>0 DEF Close, disk, RootsStored, Writer, Absent, IsOpen
<1>2. Progress'
  BY <1>0 DEF Close, disk, Progress, Writer, Absent, CommitSteps
<1>3. Tracked' /\ Covered'
  BY <1>0, TrackingKept DEF Close, disk, Writer
<1>4. Rebuilding'
  BY <1>0 DEF Close, disk, Rebuilding, Control, WriterIsAlone
<1>5. Promise'
  BY PromiseKept DEF Close, disk
<1> QED BY <1>1, <1>2, <1>3, <1>4, <1>5

LEMMA StartCloseStorage ==
  ASSUME Control, Storage, StartClose PROVE Storage'
<1> USE DEF Storage
<1>0. w \in Writer
  BY DEF Control, Types
<1>1. RootsStored'
  BY <1>0 DEF StartClose, disk, RootsStored, Writer, Absent, IsOpen
<1>2. Progress'
  BY <1>0 DEF StartClose, disk, Progress, Writer, Absent, CommitSteps
<1>3. Tracked' /\ Covered'
  BY <1>0 DEF StartClose, disk, Tracked, Covered, Writer, Absent
<1>4. Rebuilding'
  BY <1>0 DEF StartClose, disk, Rebuilding, Control, WriterIsAlone
<1>5. Promise'
  BY PromiseKept DEF StartClose, disk
<1> QED BY <1>1, <1>2, <1>3, <1>4, <1>5

LEMMA ReleaseStorage ==
  ASSUME Control, Storage, Release PROVE Storage'
<1> USE DEF Storage
<1>0. w \in Writer
  BY DEF Control, Types
<1>1. RootsStored'
  BY <1>0 DEF Release, RootsStored, Writer, Absent, IsOpen
<1>2. Progress'
  BY <1>0 DEF Release, Progress, Writer, Absent, CommitSteps
<1>3. Tracked' /\ Covered'
  BY <1>0 DEF Release, Tracked, Covered, Writer, Absent
<1>4. Rebuilding'
  BY <1>0 DEF Release, Rebuilding, Control, WriterIsAlone
<1>5. Promise'
  BY PromiseKept DEF Release
<1> QED BY <1>1, <1>2, <1>3, <1>4, <1>5

LEMMA CrashStorage ==
  ASSUME Control, Storage, Crash PROVE Storage'
<1> USE DEF Storage
<1>0. w \in Writer
  BY DEF Control, Types
<1>1. RootsStored'
  BY <1>0 DEF Crash, Without, RootsStored, Writer, Absent, IsOpen
<1>2. Progress'
  BY <1>0 DEF Crash, Without, Progress, Writer, Absent, CommitSteps
<1>3. Tracked' /\ Covered'
  BY <1>0 DEF Crash, Without, Tracked, Covered, Writer, Absent
<1>4. Rebuilding'
  BY <1>0 DEF Crash, Without, Rebuilding, Control, WriterIsAlone
<1>5. Promise'
  BY PromiseKept DEF Crash, Without
<1> QED BY <1>1, <1>2, <1>3, <1>4, <1>5

LEMMA StartRebuildStorage ==
  ASSUME Control, Storage, StartRebuild PROVE Storage'
<1> USE DEF Storage
<1>1. /\ root # None
      /\ UNCHANGED <<mode, cut, content, objects, segments, index, roots, root, w, reader>>
  BY DEF StartRebuild
<1>2. RootsStored' /\ Progress' /\ Rebuilding'
  BY <1>1 DEF RootsStored, IsOpen, Progress, Rebuilding
<1>3. Tracked' /\ Covered'
  BY <1>1, TrackingKept
<1>4. Promise'
  BY <1>1, PromiseKept
<1> QED BY <1>2, <1>3, <1>4

\* A rebuild keeps the rows of the current root; what it drops lies below the new cut.
LEMMA RebuildStorage ==
  ASSUME Control, Cut, Storage, Rebuild PROVE Storage'
<1> USE DEF Storage
<1>1. /\ lease = "rebuild" /\ lease' = "none" /\ root # None /\ w = Absent
      /\ \/ index' = index /\ cut' = cut
         \/ index' = Span(root) /\ cut' = root.first
      /\ UNCHANGED <<mode, content, objects, segments, roots, root, w, reader>>
  BY DEF Rebuild, Rebuilding, Control, WriterIsAlone, Jobs
<1>2. RootsStored' /\ Progress' /\ Rebuilding'
  BY <1>1 DEF RootsStored, IsOpen, Progress, Rebuilding, Absent
<1>3. Tracked' /\ Covered'
  BY <1>1, TrackingKept
<1>4. Promise'
  <2>1. CASE index' = index /\ cut' = cut
    BY <1>1, <2>1, PromiseKept
  <2>2. CASE index' = Span(root) /\ cut' = root.first
    <3>1. ASSUME NEW r \in Readers, IsOpen(r), NEW f \in Span(reader[r].root)
          PROVE  f \in Span(root) \/ f < root.first
      <4>1. reader[r].root \in Root /\ root \in Root /\ reader[r].root.last <= root.last
        BY <1>1, <3>1 DEF Control, Types, ReaderRoots, Reads, IsOpen
      <4> QED BY <4>1, RootFacts DEF Span
    <3>2. \A f \in Span(root) : Stored(f)' /\ f \in index'
      BY <1>1, <2>2 DEF Promise, Readable, Stored, Published, Span
    <3>3. ASSUME NEW r \in Readers, IsOpen(r), NEW f \in Span(reader[r].root)
          PROVE  Stored(f)' /\ (f \in index' \/ f < cut')
      BY <1>1, <2>2, <3>1, <3>3 DEF Promise, Stored
    <3> QED BY <1>1, <2>2, <3>2, <3>3 DEF Promise, Readable, IsOpen, Published, Span
  <2> QED BY <1>1, <2>1, <2>2
<1> QED BY <1>2, <1>3, <1>4

LEMMA CrashRebuildStorage ==
  ASSUME Control, Storage, CrashRebuild PROVE Storage'
<1> USE DEF Storage
<1>0. w \in Writer
  BY DEF Control, Types
<1>1. RootsStored'
  BY <1>0 DEF CrashRebuild, RootsStored, Writer, Absent, IsOpen
<1>2. Progress'
  BY <1>0 DEF CrashRebuild, Progress, Writer, Absent, CommitSteps
<1>3. Tracked' /\ Covered'
  BY TrackingKept DEF CrashRebuild
<1>4. Rebuilding'
  BY <1>0 DEF CrashRebuild, Rebuilding, Control, WriterIsAlone
<1>5. Promise'
  BY PromiseKept DEF CrashRebuild
<1> QED BY <1>1, <1>2, <1>3, <1>4, <1>5

LEMMA FaultStorage == ASSUME Control, Storage, Fault PROVE Storage'
BY FailStorage DEF Fault

\* A reader's step changes that reader alone, and opens it on the published root.
LEMMA ReaderOpens ==
  ASSUME NEW r \in Readers, Control, ReaderStep(r)
  PROVE  /\ UNCHANGED <<mode, cut, content, disk, w>> /\ reader \in [Readers -> Reader]
         /\ \A q \in Readers \ {r} : reader'[q] = reader[q]
         /\ IsOpen(r)' => \/ IsOpen(r) /\ reader'[r].root = reader[r].root
                          \/ ~IsOpen(r) /\ root # None /\ reader'[r].root = root
<1>1. UNCHANGED <<mode, cut, content, disk, w>> /\ reader \in [Readers -> Reader]
  BY DEF ReaderStep, ReadRoot, CreatePin, WritePin, Confirm, CloseReader, RecoverLease,
         RecoverRoot, CrashReader, Control, Types
<1>2. \A q \in Readers \ {r} : reader'[q] = reader[q]
  BY <1>1 DEF ReaderStep, ReadRoot, CreatePin, WritePin, Confirm, CloseReader, RecoverLease,
              RecoverRoot, CrashReader
<1>3. CASE Confirm(r)
  <2>1. Reads(r) /\ ~IsOpen(r)
    BY <1>3 DEF Confirm, Reads, IsOpen
  <2>2. /\ root \in Root /\ reader[r].root \in Root /\ root # None
        /\ reader[r].root = root \/ Generation(r) < root.generation
    BY <2>1, PublishedFacts DEF Control, ReaderRoots
  <2>3. root.generation = Generation(r) => reader[r].root = root
    BY <2>2, RootFacts DEF Generation
  <2>4. IsOpen(r)' => root.generation = Generation(r) /\ reader'[r].root = reader[r].root
    BY <1>1, <1>3 DEF Confirm, IsOpen, Idle, Reader
  <2> QED BY <1>1, <1>2, <2>1, <2>2, <2>3, <2>4
<1>4. CASE RecoverLease(r) \/ RecoverRoot(r)
  <2>1. IsOpen(r) /\ reader'[r].root = reader[r].root
    BY <1>1, <1>4 DEF RecoverLease, RecoverRoot, IsOpen, Reader
  <2> QED BY <1>1, <1>2, <2>1
<1>5. CASE ReadRoot(r) \/ CreatePin(r) \/ WritePin(r) \/ CloseReader(r)
  <2>1. ~IsOpen(r)'
    BY <1>1, <1>5 DEF ReadRoot, CreatePin, WritePin, CloseReader, IsOpen, Idle, Reader
  <2> QED BY <1>1, <1>2, <2>1
<1>6. CASE CrashReader(r)
  <2>1. reader'[r] \in {[Idle EXCEPT !.pc = "closed"],
                        [Idle EXCEPT !.pc = "crashedEmpty", !.root = reader[r].root],
                        [Idle EXCEPT !.pc = "crashed", !.root = reader[r].root]}
    BY <1>1, <1>6 DEF CrashReader
  <2>2. ~IsOpen(r)'
    BY <2>1 DEF IsOpen, Idle
  <2> QED BY <1>1, <1>2, <2>2
<1> QED BY <1>3, <1>4, <1>5, <1>6 DEF ReaderStep

LEMMA ReaderStorage ==
  ASSUME NEW r \in Readers, Control, Storage, ReaderStep(r) PROVE Storage'
<1> USE DEF Storage
<1>1. UNCHANGED <<mode, cut, content, disk, w>> /\ reader \in [Readers -> Reader]
  BY ReaderOpens
<1>2. \A q \in Readers : IsOpen(q)' =>
        \/ IsOpen(q) /\ reader'[q].root = reader[q].root
        \/ root # None /\ reader'[q].root = root
  BY ReaderOpens DEF IsOpen
<1>3. w.state # "absent" => w.root = Published
  BY DEF Control, WriterIsAlone
<1>4. RootsStored' /\ Progress'
  BY <1>1, <1>2 DEF disk, RootsStored, Progress
<1>5. Tracked'
  <2>1. w.step # "none" => w.root = Published
    BY <1>3 DEF Control, Jobs, Absent
  <2> QED BY <1>1, <1>2, <2>1 DEF Tracked, Keep, Generation, Published
<1>6. Covered'
  BY <1>1, <1>2 DEF disk, Covered, Covers, Span, Published
<1>7. Rebuilding'
  BY <1>1 DEF disk, Rebuilding
<1>8. Promise'
  BY <1>1, <1>2 DEF disk, Promise, Readable, Stored, Span, Published
<1> QED BY <1>4, <1>5, <1>6, <1>7, <1>8

LEMMA ReadPinStepStorage ==
  ASSUME Control, Storage, NEW p \in w.todo, ReadPin(p[1], p[2]) PROVE Storage'
<1>1. p[1] \in Readers
  BY DEF Control, Types, Writer
<1> QED BY <1>1, ReadPinStorage

LEMMA StorageInit == Init => Storage
<1> SUFFICES ASSUME Init PROVE Storage
  OBVIOUS
<1>1. RootsStored /\ Progress /\ Tracked /\ Covered /\ Rebuilding
  BY DEF Init, Absent, Idle, RootsStored, Progress, Tracked, Covered, Rebuilding, IsOpen
<1>2. Promise
  BY DEF Init, Idle, Promise, IsOpen, Published, NoRoot, Span
<1> QED BY <1>1, <1>2 DEF Storage

\* Only a rebuild moves the cut, and from then on nobody moves the root.
LEMMA CutInit == Init => Cut
BY DEF Init, Cut, Frames

LEMMA CutStep == Control /\ Cut /\ Storage /\ [Next]_vars => Cut'
<1> SUFFICES ASSUME Control, Cut, Storage, [Next]_vars PROVE Cut'
  OBVIOUS
<1>0. w.state = "absent" => w = Absent
  BY DEF Control, Jobs
<1>1. CASE WriterStep \/ Fault \/ Crash
  <2>1. w.state # "absent"
    <3>1. ASSUME w.state = "absent" PROVE FALSE
      BY <1>0, <1>1, <3>1 DEF Absent, At, WriterStep, StartCommit, SkipCommit, PutContent,
        PutBoundary, PutSegment, PutIndex, PutRoot, PublishRoot, Scan, PruneRoots, StartCollect,
        Mark, PruneIndex, SweepObject, SweepMetadata, StartClose, Release, Fault, Crash
    <3> QED BY <3>1
  <2>2. cut = 0
    BY <2>1 DEF Cut, Frames
  <2>3. cut' = cut
    BY <1>1 DEF WriterStep, StartCommit, SkipCommit, PutContent,
      PutBoundary, PutSegment, PutIndex, PutRoot, PublishRoot, Scan, ReadPin, PruneRoots,
      StartCollect, Mark, PruneIndex, SweepObject, SweepMetadata, StartClose, Release, Fault, Crash
  <2> QED BY <2>2, <2>3 DEF Cut, Frames
<1>2. CASE WriterCall
  <2>1. cut' = cut
    BY <1>2 DEF WriterCall, Create, Append, Collect, Close
  <2>2. cut = 0
    <3>1. root = None => Published.first = 0
      BY DEF Published, NoRoot
    <3>2. root = None \/ w.state # "absent"
      BY <1>2 DEF WriterCall, Create, Append, Collect, Close
    <3> QED BY <3>1, <3>2 DEF Cut, Frames
  <2> QED BY <2>1, <2>2 DEF Cut, Frames
<1>3. CASE \E r \in Readers : ReaderStep(r)
  <2>1. UNCHANGED <<cut, w, root>>
    BY <1>3, ReaderOpens DEF disk
  <2> QED BY <2>1 DEF Cut, Published
<1>4. CASE StartRebuild \/ CrashRebuild
  BY <1>4 DEF StartRebuild, CrashRebuild, Cut, Published
<1>5. CASE Rebuild
  <2>1. /\ root # None /\ w.state = "absent" /\ UNCHANGED <<w, root>>
        /\ cut' \in {cut, root.first}
    BY <1>5 DEF Rebuild, Storage, Rebuilding, Control, WriterIsAlone
  <2>2. root.first \in Frames
    BY <2>1 DEF Control, Types, Root
  <2> QED BY <2>1, <2>2 DEF Cut, Published
<1>6. CASE UNCHANGED vars
  BY <1>6 DEF vars, Cut, Published
<1> QED BY <1>1, <1>2, <1>3, <1>4, <1>5, <1>6 DEF Next, RebuildStep

LEMMA StorageStep == Control /\ Cut /\ Storage /\ [Next]_vars => Storage'
<1> SUFFICES ASSUME Control, Cut, Storage, [Next]_vars PROVE Storage'
  OBVIOUS
<1>1. CASE WriterStep
  BY <1>1, StartCommitStorage, SkipCommitStorage, PutContentStorage, PutBoundaryStorage,
     PutSegmentStorage, PutIndexStorage, PutRootStorage, PublishRootStorage, ScanStorage,
     ReadPinStepStorage, PruneRootsStorage, StartCollectStorage, MarkStorage, PruneIndexStorage,
     SweepObjectStorage, SweepMetadataStorage, StartCloseStorage, ReleaseStorage DEF WriterStep
<1>2. CASE WriterCall
  BY <1>2, CreateStorage, AppendStorage, CollectStorage, CloseStorage DEF WriterCall
<1>3. CASE Fault \/ Crash
  BY <1>3, FaultStorage, CrashStorage
<1>4. CASE \E r \in Readers : ReaderStep(r)
  BY <1>4, ReaderStorage
<1>5. CASE RebuildStep
  BY <1>5, StartRebuildStorage, RebuildStorage, CrashRebuildStorage DEF RebuildStep
<1>6. CASE UNCHANGED vars
  BY <1>6 DEF vars, Storage, RootsStored, Progress, Tracked, Covered, Rebuilding, Keep,
              Covers, IsOpen, Generation, Published, Span, Promise, Readable, Stored
<1> QED BY <1>1, <1>2, <1>3, <1>4, <1>5, <1>6 DEF Next

LEMMA StorageAlways == Spec => [](Control /\ Cut /\ Storage)
<1>1. Init => Control /\ Cut /\ Storage
  BY ControlInit, CutInit, StorageInit
<1>2. Control /\ Cut /\ Storage /\ [Next]_vars => Control' /\ Cut' /\ Storage'
  BY ControlStep, CutStep, StorageStep
<1> QED BY <1>1, <1>2, PTL DEF Spec

-----------------------------------------------------------------------------
(* The refinement: what each step does to the abstract recording. *)

\* Nobody but the writer that publishes moves the root.
LEMMA RootMoves ==
  ASSUME Next, root' # root PROVE PublishRoot
<1>1. CASE WriterStep
  BY <1>1 DEF WriterStep, disk, StartCommit, SkipCommit, PutContent, PutBoundary, PutSegment,
     PutIndex,
    PutRoot, Scan, ReadPin, PruneRoots, StartCollect, Mark, PruneIndex, SweepObject,
    SweepMetadata, StartClose, Release
<1>2. CASE WriterCall \/ Fault \/ Crash \/ RebuildStep
  BY <1>2 DEF WriterCall, disk, Create, Append, Collect, Close, Fault, Crash, RebuildStep,
    StartRebuild, Rebuild, CrashRebuild
<1>3. CASE \E r \in Readers : ReaderStep(r)
  BY <1>3 DEF disk, ReaderStep, ReadRoot, CreatePin, WritePin, Confirm, CloseReader,
    RecoverLease, RecoverRoot, CrashReader
<1> QED BY <1>1, <1>2, <1>3 DEF Next

\* A step that moves neither the root nor an open reader nor the cut reclaims, at most.
LEMMA Reclaims ==
  ASSUME Control, Control', Cut', Storage', root' = root, cut' = cut,
         \A r \in Readers : /\ IsOpen(r)' <=> IsOpen(r)
                            /\ IsOpen(r) => reader'[r].root = reader[r].root
  PROVE  Log!Reclaim
<1> DEFINE kept == {f \in Frames : f <= Published.last /\ Readable(f)}
           view == [r \in Readers |-> IF IsOpen(r) THEN Span(reader[r].root) ELSE {}]
<1>1. Published' = Published /\ Published.last \in Int
  BY PublishedFacts DEF Control, Published
<1>2. view' = view
  BY DEF Span
<1>3. kept' \subseteq 0 .. Published.last
  BY <1>1 DEF Frames
<1>4. ASSUME NEW f \in Log!Entitled, f \in kept PROVE f \in kept'
  <2>1. f \in Span(Published) \/ \E r \in Readers : IsOpen(r) /\ f \in Span(reader[r].root) /\ f >= cut
    BY <1>4 DEF Log!Entitled, Log!Committed, Span
  <2>2. Readable(f)'
    <3>1. f \in Int /\ cut \in Int
      BY <2>1 DEF Span, Cut, Frames
    <3> QED BY <1>1, <2>1, <3>1 DEF Storage, Promise, Readable, Span
  <2> QED BY <1>1, <1>4, <2>2
<1> QED BY <1>1, <1>2, <1>3, <1>4 DEF Log!Reclaim

\* A rebuild is one of the recording, or changes nothing that can be seen there.
LEMMA Rebuilds ==
  ASSUME Control, Storage, Control', Cut', Storage', Rebuild
  PROVE  Log!Reclaim \/ Log!Rebuild
<1> DEFINE kept == {f \in Frames : f <= Published.last /\ Readable(f)}
           view == [r \in Readers |-> IF IsOpen(r) THEN Span(reader[r].root) ELSE {}]
<1>1. /\ root # None /\ UNCHANGED <<root, reader>>
      /\ cut' = cut \/ cut' = root.first
  BY DEF Rebuild, Storage, Rebuilding
<1>2. CASE cut' = cut
  BY <1>1, <1>2, Reclaims DEF IsOpen
<1>3. CASE cut' = root.first
  <2>1. /\ Published' = Published /\ Published = root /\ Published.last \in Int
        /\ Published.status # "none"
    BY <1>1, PublishedFacts DEF Control, Published, Root
  <2>2. view' = view
    BY <1>1 DEF IsOpen, Span
  <2>3. kept' \subseteq 0 .. Published.last
    BY <2>1 DEF Frames
  <2>4. ASSUME NEW f \in Log!Entitled, f >= cut', f \in kept PROVE f \in kept'
    <3>1. f \in Span(Published) \/ \E r \in Readers : IsOpen(r) /\ f \in Span(reader[r].root)
      BY <2>4 DEF Log!Entitled, Log!Committed, Span
    <3>2. Readable(f)'
      <4>1. f \in Int /\ cut' \in Int
        BY <3>1 DEF Span, Cut, Frames
      <4> QED BY <1>1, <2>1, <2>4, <3>1, <4>1 DEF Storage, Promise, Readable, IsOpen, Span
    <3> QED BY <2>1, <2>4, <3>2
  <2> QED BY <1>3, <2>1, <2>2, <2>3, <2>4 DEF Log!Rebuild
<1> QED BY <1>1, <1>2, <1>3

LEMMA Publishes ==
  ASSUME Control, Storage, Control', Storage', PublishRoot
  PROVE  Log!Commit \/ Log!Finish
<1> DEFINE kept == {f \in Frames : f <= Published.last /\ Readable(f)}
           view == [r \in Readers |-> IF IsOpen(r) THEN Span(reader[r].root) ELSE {}]
           range == [first |-> Published.first, last |-> Published.last]
<1>1. /\ Published' = w.draft /\ w.draft \in Root /\ w.step = "publish"
      /\ w.job \in {"commit", "close"} /\ w.state # "absent"
      /\ UNCHANGED <<cut, content, objects, index, reader>>
  BY PublishRootFacts DEF PublishRoot
<1>2. view' = view
  BY <1>1 DEF IsOpen, Span
<1>3. \A f : Readable(f)' <=> Readable(f)
  BY <1>1 DEF Readable, Stored
<1>4. /\ Published.status \in {"none", "open"}
      /\ w.draft.first \in Nat /\ w.draft.last \in Nat
      /\ Published.first \in Nat /\ Published.last \in Int
  BY <1>1, RootFacts, PublishedFacts DEF Control, Position, Closing
<1>5. CASE w.job = "commit"
  <2>1. /\ w.draft.last = Published.last + 1 /\ w.draft.status = "open"
        /\ Published.first <= w.draft.first /\ w.draft.first <= w.draft.last
    BY <1>1, <1>5 DEF Control, Draft, Position, Settling
  <2>2. w.draft.first \in Published.first .. (Published.last + 1)
    BY <1>4, <2>1
  <2>3. w.draft.last \in Frames /\ Readable(w.draft.last)
    <3>1. w.draft.last \in Span(w.draft)
      BY <1>4, <2>1 DEF Span
    <3> QED BY <1>1, <3>1 DEF Storage, Promise, Root, Span, Readable, Stored
  <2>4. kept' = kept \cup {w.draft.last}
    <3>1. \A f \in Frames : f <= w.draft.last <=> f <= Published.last \/ f = w.draft.last
      BY <1>4, <2>1 DEF Frames
    <3> QED BY <1>1, <1>3, <2>3, <3>1
  <2>5. range' = [first |-> w.draft.first, last |-> Published.last + 1]
    BY <1>1, <2>1
  <2> QED BY <1>1, <1>2, <1>4, <2>1, <2>2, <2>4, <2>5 DEF Log!Commit
<1>6. CASE w.job = "close"
  <2>1. /\ w.draft.last = Published.last /\ w.draft.first = Published.first
        /\ w.draft.status \in {"complete", "failed"}
    BY <1>1, <1>6 DEF Control, Draft
  <2>2. kept' = kept /\ range' = range
    BY <1>1, <1>3, <2>1
  <2>3. Published.status = "open"
    <3>1. w.root # NoRoot /\ w.root = Published
      BY <1>1, <1>6 DEF Control, Jobs, WriterIsAlone
    <3>2. Published \in Root
      BY <3>1, PublishedFacts DEF Control
    <3> QED BY <1>4, <3>2 DEF Root
  <2> QED BY <1>1, <1>2, <2>1, <2>2, <2>3 DEF Log!Finish
<1> QED BY <1>1, <1>5, <1>6

LEMMA ReadersOpenAndClose ==
  ASSUME Control, Control', Cut', Storage', NEW r \in Readers, ReaderStep(r)
  PROVE  Log!Next
<1> DEFINE kept == {f \in Frames : f <= Published.last /\ Readable(f)}
           view == [q \in Readers |-> IF IsOpen(q) THEN Span(reader[q].root) ELSE {}]
<1>1. /\ UNCHANGED <<mode, cut, content, disk, w>> /\ reader \in [Readers -> Reader]
      /\ \A q \in Readers \ {r} : reader'[q] = reader[q]
  BY ReaderOpens
<1>2. Published' = Published /\ kept' = kept /\ cut' = cut
  BY <1>1 DEF disk, Published, Readable, Stored
<1>3. CASE IsOpen(r)' /\ ~IsOpen(r)
  <2>1. reader'[r].root = root /\ root # None
    BY <1>3, ReaderOpens
  <2>2. view[r] = {} /\ view' = [view EXCEPT ![r] = Span(root)]
    BY <1>1, <1>3, <2>1 DEF IsOpen, Span
  <2>3. Published.status # "none" /\ Span(root) = Log!Committed
    BY <2>1, PublishedFacts DEF Control, Root, Span, Log!Committed
  <2>4. Log!Open(r)
    BY <1>2, <2>2, <2>3 DEF Log!Open
  <2> QED BY <2>4 DEF Log!Next
<1>4. CASE ~IsOpen(r)' /\ IsOpen(r)
  <2>1. view[r] # {} /\ view' = [view EXCEPT ![r] = {}]
    <3>1. reader[r].root \in Root /\ reader[r].root.first <= reader[r].root.last
      BY <1>4 DEF Control, ReaderRoots, Reads, IsOpen
    <3>2. reader[r].root.first \in Span(reader[r].root)
      BY <3>1, RootFacts DEF Span
    <3> QED BY <1>1, <1>4, <3>2 DEF IsOpen, Span
  <2>2. Log!Close(r)
    BY <1>2, <2>1 DEF Log!Close
  <2> QED BY <2>2 DEF Log!Next
<1>5. CASE IsOpen(r)' <=> IsOpen(r)
  <2>1. IsOpen(r) => reader'[r].root = reader[r].root
    BY <1>5, ReaderOpens
  <2>2. Log!Reclaim
    BY <1>1, <1>5, <2>1, Reclaims DEF disk, IsOpen
  <2> QED BY <2>2 DEF Log!Next
<1> QED BY <1>3, <1>4, <1>5

\* Whose step it is: only a reader's own step, or the removal of the pin of a dead
\* reader, changes a reader.
LEMMA OthersLeaveReaders ==
  ASSUME Control, WriterStep \/ WriterCall \/ Fault \/ Crash \/ RebuildStep
  PROVE  \A r \in Readers : /\ IsOpen(r)' <=> IsOpen(r)
                            /\ IsOpen(r) => reader'[r].root = reader[r].root
<1>1. reader \in [Readers -> Reader]
  BY DEF Control, Types
<1>2. CASE \E p \in w.todo : ReadPin(p[1], p[2])
  <2>1. PICK p \in w.todo : ReadPin(p[1], p[2])
    BY <1>2
  <2>2. reader' = reader \/ /\ reader[p[1]].pc = "crashed"
                            /\ reader' = [reader EXCEPT ![p[1]] = [Idle EXCEPT !.pc = "closed"]]
    BY <2>1 DEF ReadPin
  <2>3. \A r \in Readers : IsOpen(r)' \/ IsOpen(r) => reader'[r] = reader[r]
    BY <1>1, <2>2 DEF IsOpen, Idle
  <2> QED BY <2>3 DEF IsOpen
<1>3. CASE ~(\E p \in w.todo : ReadPin(p[1], p[2]))
  <2>1. reader' = reader
    BY <1>3 DEF WriterStep, StartCommit, SkipCommit, PutContent, PutBoundary, PutSegment,
      PutIndex, PutRoot, PublishRoot, Scan, PruneRoots, StartCollect, Mark, PruneIndex,
      SweepObject, SweepMetadata, StartClose, Release, WriterCall, Create, Append, Collect,
      Close, Fault, Crash, RebuildStep, StartRebuild, Rebuild, CrashRebuild
  <2> QED BY <2>1 DEF IsOpen
<1> QED BY <1>2, <1>3

LEMMA LogInit == Init => Log!Init
<1> SUFFICES ASSUME Init PROVE Log!Init
  OBVIOUS
<1>1. {f \in Frames : f <= -1 /\ Readable(f)} = {}
  BY DEF Frames
<1> QED BY <1>1 DEF Init, Log!Init, Published, NoRoot, IsOpen, Idle

LEMMA CutStays ==
  ASSUME Next, ~Rebuild PROVE cut' = cut
<1>1. CASE WriterStep
  BY <1>1 DEF WriterStep, StartCommit, SkipCommit, PutContent, PutBoundary, PutSegment,
    PutIndex, PutRoot, PublishRoot, Scan, ReadPin, PruneRoots, StartCollect, Mark, PruneIndex,
    SweepObject, SweepMetadata, StartClose, Release
<1>2. CASE WriterCall \/ Fault \/ Crash \/ RebuildStep
  BY <1>2 DEF WriterCall, Create, Append, Collect, Close, Fault, Crash, RebuildStep,
    StartRebuild, CrashRebuild
<1>3. CASE \E r \in Readers : ReaderStep(r)
  BY <1>3 DEF ReaderStep, ReadRoot, CreatePin, WritePin, Confirm, CloseReader,
    RecoverLease, RecoverRoot, CrashReader
<1> QED BY <1>1, <1>2, <1>3 DEF Next

LEMMA LogStep ==
  ASSUME Control, Cut, Storage, Control', Cut', Storage', [Next]_vars
  PROVE  [Log!Next]_Log!vars
<1>1. CASE \E r \in Readers : ReaderStep(r)
  BY <1>1, ReadersOpenAndClose
<1>2. CASE root' # root /\ Next
  BY <1>2, RootMoves, Publishes DEF Log!Next
<1>3. CASE Rebuild
  BY <1>3, Rebuilds DEF Log!Next
<1>4. CASE /\ root' = root /\ ~Rebuild /\ Next
           /\ WriterStep \/ WriterCall \/ Fault \/ Crash \/ RebuildStep
  BY <1>4, OthersLeaveReaders, CutStays, Reclaims DEF Log!Next
<1>5. CASE UNCHANGED vars
  BY <1>5 DEF vars, Log!vars, Published, Readable, Stored, IsOpen, Span
<1> QED BY <1>1, <1>2, <1>3, <1>4, <1>5 DEF Next

-----------------------------------------------------------------------------
(* The abstract recording *)

Spans == [first : Int, last : Int]
LogRange == [first |-> Published.first, last |-> Published.last]
LogKept == {f \in Frames : f <= Published.last /\ Readable(f)}
LogView == [r \in Readers |-> IF IsOpen(r) THEN Span(reader[r].root) ELSE {}]

\* Inductive for the abstract recording alone: its steps, not those of the store.
LogInv == /\ LogRange \in Spans
          /\ LogView \in [Readers -> SUBSET Int]
          /\ cut \in Int /\ cut <= LogRange.first
          /\ Log!Entitled \subseteq LogKept

LEMMA LogInitially == Log!Init => LogInv
BY DEF Log!Init, LogInv, LogRange, LogKept, LogView, Spans, Log!Entitled, Log!Committed

LEMMA LogInvStep == LogInv /\ [Log!Next]_Log!vars => LogInv'
<1> SUFFICES ASSUME LogInv, [Log!Next]_Log!vars PROVE LogInv'
  OBVIOUS
<1>a. Log!Entitled = (LogRange.first .. LogRange.last)
                     \cup {f \in UNION {LogView[r] : r \in Readers} : f >= cut}
  BY DEF Log!Entitled, Log!Committed, LogRange, LogView
<1>b. \A f : f \in Log!Entitled <=> \/ f \in LogRange.first .. LogRange.last
                                    \/ f >= cut /\ \E r \in Readers : f \in LogView[r]
  BY <1>a
<1>c. Log!Entitled' = (LogRange'.first .. LogRange'.last)
                      \cup {f \in UNION {LogView'[r] : r \in Readers} : f >= cut'}
  BY DEF Log!Entitled, Log!Committed, LogRange, LogView
<1>d. \A f : f \in Log!Entitled' <=> \/ f \in LogRange'.first .. LogRange'.last
                                     \/ f >= cut' /\ \E r \in Readers : f \in LogView'[r]
  BY <1>c
<1>1. CASE Log!Commit
  <2>1. PICK first \in LogRange.first .. (LogRange.last + 1) :
          LogRange' = [first |-> first, last |-> LogRange.last + 1]
    BY <1>1 DEF Log!Commit, LogRange
  <2>2. LogRange.first \in Int /\ LogRange.last \in Int /\ first \in Int
    BY DEF LogInv, Spans
  <2>3. /\ LogRange' \in Spans /\ LogRange'.first = first /\ LogRange'.last = LogRange.last + 1
        /\ LogKept' = LogKept \cup {LogRange.last + 1} /\ LogView' = LogView /\ cut' = cut
    <3>1. LogKept' = LogKept \cup {LogRange'.last} /\ LogView' = LogView /\ cut' = cut
      BY <1>1 DEF Log!Commit, LogRange, LogKept, LogView
    <3> QED BY <2>1, <2>2, <3>1 DEF Spans
  <2>4. \A f \in first .. (LogRange.last + 1) :
          f \in LogRange.first .. LogRange.last \/ f = LogRange.last + 1
    BY <2>1, <2>2
  <2>5. Log!Entitled' \subseteq LogKept'
    BY <1>b, <1>d, <2>3, <2>4 DEF LogInv
  <2>6. cut' \in Int /\ cut' <= LogRange'.first
    BY <2>1, <2>2, <2>3 DEF LogInv
  <2> QED BY <2>3, <2>5, <2>6 DEF LogInv
<1>2. CASE Log!Finish
  <2>1. LogRange' = LogRange /\ LogKept' = LogKept /\ LogView' = LogView /\ cut' = cut
    BY <1>2 DEF Log!Finish, LogRange, LogKept, LogView
  <2> QED BY <1>b, <1>d, <2>1 DEF LogInv
<1>3. CASE Log!Reclaim
  <2>1. LogRange' = LogRange /\ LogView' = LogView /\ cut' = cut
        /\ \A f \in Log!Entitled : f \in LogKept => f \in LogKept'
    BY <1>3 DEF Log!Reclaim, LogRange, LogKept, LogView
  <2> QED BY <1>b, <1>d, <2>1 DEF LogInv
<1>4. CASE Log!Rebuild
  <2>1. LogRange' = LogRange /\ LogView' = LogView /\ cut' = LogRange.first
        /\ \A f \in Log!Entitled : f >= cut' /\ f \in LogKept => f \in LogKept'
    BY <1>4 DEF Log!Rebuild, LogRange, LogKept, LogView
  <2>2. LogRange.first \in Int /\ LogRange.last \in Int /\ cut \in Int /\ cut <= LogRange.first
    BY DEF LogInv, Spans
  <2>3. ASSUME NEW f \in Log!Entitled' PROVE f \in Log!Entitled /\ f >= cut'
    <3>1. CASE f \in LogRange.first .. LogRange.last
      BY <1>b, <1>d, <2>1, <2>2, <3>1
    <3>2. CASE f >= cut' /\ \E r \in Readers : f \in LogView[r]
      <4>1. f \in Int
        BY <3>2 DEF LogInv
      <4> QED BY <1>b, <1>d, <2>1, <2>2, <3>2, <4>1
    <3> QED BY <1>b, <1>d, <2>1, <2>3, <3>1, <3>2
  <2>4. Log!Entitled' \subseteq LogKept'
    BY <2>1, <2>3 DEF LogInv
  <2> QED BY <2>1, <2>2, <2>4 DEF LogInv
<1>5. ASSUME NEW r \in Readers, Log!Open(r) \/ Log!Close(r)
      PROVE  LogInv'
  <2>1. LogRange' = LogRange /\ LogKept' = LogKept /\ cut' = cut
    BY <1>5 DEF Log!Open, Log!Close, LogRange, LogKept
  <2>2. PICK x \in {LogRange.first .. LogRange.last, {}} : LogView' = [LogView EXCEPT ![r] = x]
    BY <1>5 DEF Log!Open, Log!Close, Log!Committed, LogRange, LogView
  <2>3. x \in SUBSET Int /\ x \subseteq LogKept
    <3>1. LogRange.first .. LogRange.last \subseteq LogKept
      BY <1>b, <1>d DEF LogInv
    <3>2. LogRange.first .. LogRange.last \subseteq Int
      BY DEF LogInv, Spans
    <3> QED BY <2>2, <3>1, <3>2
  <2>4. /\ LogView' \in [Readers -> SUBSET Int]
        /\ \A q \in Readers : LogView'[q] = LogView[q] \/ LogView'[q] = x
    BY <2>2, <2>3 DEF LogInv
  <2>5. Log!Entitled' \subseteq LogKept'
    BY <1>b, <1>d, <2>1, <2>3, <2>4 DEF LogInv
  <2> QED BY <2>1, <2>4, <2>5 DEF LogInv
<1>6. CASE UNCHANGED Log!vars
  <2>1. LogRange' = LogRange /\ LogKept' = LogKept /\ LogView' = LogView /\ cut' = cut
    BY <1>6 DEF Log!vars, LogRange, LogKept, LogView
  <2> QED BY <1>b, <1>d, <2>1 DEF LogInv
<1> QED BY <1>1, <1>2, <1>3, <1>4, <1>5, <1>6 DEF Log!Next

-----------------------------------------------------------------------------
(* The theorems *)

\* The types of TypeOK, and that its counters stay in their bounds: the directory, the
\* writer's memory and the readers (recording-store.ts, RecordingStoreWriter).
THEOREM TypeCorrect == Spec => []TypeOK
<1>1. Control /\ Cut => TypeOK
  <2> SUFFICES ASSUME Control, Cut PROVE TypeOK
    OBVIOUS
  <2>1. /\ w \in Writer /\ w.next + w.pending <= w.observed + 1 /\ w.observed <= MaxFrame
        /\ w.generation <= w.next + 2 /\ w.generation >= 1
    BY DEF Control, Types, Counters, Numbered, Writer
  <2>2. w.generation \in 1 .. (MaxFrame + 3)
    BY <2>1 DEF Writer
  <2>3. \A r \in Readers : reader[r].pc \in ReaderPcs /\ reader[r].root \in Root \cup {NoRoot}
    BY DEF Control, Types, Reader
  <2> QED BY <2>1, <2>2, <2>3 DEF Control, Cut, Types, Contented, TypeOK, Writer
<1> QED BY <1>1, StorageAlways, PTL

\* The lease admits one process (writer lease of NodeRecordingStore and its check in
\* create), and what the writer takes for the published root is the published root.
THEOREM OneWriter == Spec => []WriterIsAlone
<1>1. Control => WriterIsAlone
  BY DEF Control
<1> QED BY <1>1, ControlAlways, PTL

\* When recover() says "interrupted", the writer is gone for good and the reader has the
\* root it left, although recover reads the lease and the root at different times.
THEOREM InterruptedMeansIt == Spec => []InterruptedIsTrue
<1>1. Control => InterruptedIsTrue
  BY DEF Control
<1> QED BY <1>1, ControlAlways, PTL

\* A store that close() marks complete has committed every frame that append observed.
THEOREM CompleteIsComplete == Spec => CompleteLostNothing
<1> DEFINE A == root' # root /\ root'.status = "complete" => root'.last = w.observed
<1>1. Control /\ [Next]_vars => [A]_vars
  <2> SUFFICES ASSUME Control, Next, root' # root, root'.status = "complete"
               PROVE  root'.last = w.observed
    OBVIOUS
  <2>1. PublishRoot
    BY RootMoves
  <2>2. root' = w.draft /\ w.step = "publish" /\ w.job \in {"commit", "close"}
    BY <2>1, PublishRootFacts
  <2> QED BY <2>2 DEF Control, Draft
<1> QED BY <1>1, ControlAlways, PTL DEF Spec, CompleteLostNothing

\* Every frame of the published root can be read, and an open reader can read every frame
\* of the generation it pinned, whatever crashed, failed or was collected: the order of the
\* writes in commit, the marking of collect, and the second read of the root in
\* RecordingStoreReader.open. The rows that a rebuild of the index takes from an open reader
\* are the one exception, and only those: frames below the range of the published root, once
\* no writer is left (rebuildRecordingStoreIndex asks for no pins).
THEOREM PromiseHolds == Spec => []PromisedIsReadable
<1>1. Control /\ Cut /\ Storage => PromisedIsReadable
  BY DEF Storage, Promise, Cut, PromisedIsReadable
<1> QED BY <1>1, StorageAlways, PTL

\* The store implements the abstract recording: every step of the writer, its collections,
\* the readers and the rebuild tool, crashes included, is one of Recording.tla or leaves the
\* recording as it was.
THEOREM StoreImplementsRecording == Spec => ImplementsRecording
<1>1. /\ Control /\ Cut /\ Storage
      /\ (Control /\ Cut /\ Storage)'
      /\ [Next]_vars
      => [Log!Next]_Log!vars
  BY LogStep
<1> QED BY <1>1, LogInit, StorageAlways, PTL DEF Spec, ImplementsRecording, Log!Spec

\* Everything that anyone is entitled to can be read: the committed range, and the range each
\* reader opened from the cut of the last rebuild on. It holds for the abstract recording,
\* whoever takes its steps, and is what the pins of RecordingStoreReader.open and the
\* retention of collect are for.
THEOREM NothingIsMissing == Log!Spec => []Log!NothingMissing
<1>1. LogInv => Log!NothingMissing
  BY DEF LogInv, LogKept, Log!NothingMissing
<1> QED BY <1>1, LogInitially, LogInvStep, PTL DEF Log!Spec

\* Hence the store's own promise, in terms that name no file: a committed frame is never
\* lost, and a frame of the range that a reader opened only to a rebuild of the index, which
\* cuts off what lies below the committed range.
COROLLARY StoreLosesNothing == Spec => []Log!NothingMissing
BY StoreImplementsRecording, NothingIsMissing, PTL DEF ImplementsRecording

==============================================================================
