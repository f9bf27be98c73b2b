---------------------------- MODULE RecordingStore ----------------------------
(***************************************************************************)
(* The incremental recording store: one writer, its garbage collection,    *)
(* readers that pin a generation, recovery, and the index rebuild tool,    *)
(* over the directory of a Node host. Every write to the directory is a    *)
(* step of its own, so that a crash, a failed write or a reader can come   *)
(* between any two of them.                                                *)
(*                                                                         *)
(* A boundary object is named by its frame (its bytes contain it), and     *)
(* what it depends on (its stream chunk, its assets) by one member of      *)
(* Contents: equal content is one shared object.                           *)
(***************************************************************************)
EXTENDS Integers, FiniteSets

CONSTANTS Readers,        \* reader processes; each opens the store once
          Contents,       \* what the scenes of a recording can share
          MaxFrame,       \* bound: the last frame number
          MaxFrames,      \* option maxFrames: how far back a rolling store retains
          MaxPending,     \* option maxPendingSegments
          PruneEvery,     \* obsolete roots are pruned every so many generations
          None

ASSUME BoundsAssumption ==
  /\ MaxFrame \in Nat /\ MaxFrames \in Nat \ {0}
  /\ MaxPending \in Nat \ {0} /\ PruneEvery \in Nat \ {0}
ASSUME NamesAssumption ==
  /\ None \notin Contents
  /\ Contents \cap (0 .. MaxFrame) = {}

Frames == 0 .. MaxFrame
Generations == 1 .. (MaxFrame + 2)
Objects == Frames \cup Contents

VARIABLES
  mode,       \* "rolling" or "full-history"
  content,    \* what each queued or stored boundary depends on
  objects,    \* stored immutable objects
  segments,   \* frames with a descriptor segments/<frame>
  index,      \* frames with a row in the index
  roots,      \* the stored roots/<generation>
  root,       \* the file root, None before the first publication
  lease,      \* who holds the writer lease: "none", "writer", "rebuild", or "dead"
  w,          \* the writer's memory
  reader,     \* the readers
  cut         \* history: the first frame of the range when the index was last rebuilt, or 0

vars == <<mode, content, objects, segments, index, roots, root, lease, w, reader, cut>>
disk == <<objects, segments, index, roots, root, lease>>

\* A root; its observedFrame, which an open root only reports, is left out.
Root == [generation : Generations, first : Frames, last : Frames,
         status : {"open", "complete", "failed"}]
ASSUME NoneAssumption == None \notin Root

NoRoot == [generation |-> 0, first |-> 0, last |-> -1, status |-> "none"]
\* The published root, or NoRoot.
Published == IF root = None THEN NoRoot ELSE root

-----------------------------------------------------------------------------
(* The writer *)

\* What a writer process remembers. `job` is the operation that runs, `step` the
\* write it does next; frames `next` .. `next + pending - 1` are queued.
Absent == [state |-> "absent", observed |-> -1, next |-> 0, pending |-> 0, generation |-> 1,
           root |-> NoRoot, failure |-> FALSE, collecting |-> FALSE, written |-> {},
           job |-> "none", step |-> "none", draft |-> NoRoot, todo |-> {}, pinned |-> {},
           floor |-> 0, reachable |-> {}]

At(job, step) == w.job = job /\ w.step = step

Idle == [pc |-> "idle", root |-> NoRoot, active |-> FALSE, verdict |-> "none"]

\* A reader has a pin file from its creation to its removal; a crash leaves it behind.
HasPin(r) == reader[r].pc \in {"pinning", "pinned", "open", "recovering", "crashedEmpty", "crashed"}
Generation(r) == reader[r].root.generation

Init ==
  /\ mode \in {"rolling", "full-history"}
  /\ content = [f \in Frames |-> None]
  /\ objects = {} /\ segments = {} /\ index = {} /\ roots = {}
  /\ root = None
  /\ lease = "none"
  /\ w = Absent
  /\ reader = [r \in Readers |-> Idle]
  /\ cut = 0

\* Mutant of LeaseIsFree: the lease of a live writer is taken for a stale one.
LeaseIsIgnored == lease # "rebuild"

LeaseIsFree == lease \in {"none", "dead"}

\* Only an empty store gets a writer; an interrupted one is read-only.
Create ==
  /\ w.state = "absent"
  /\ LeaseIsFree
  /\ objects = {} /\ segments = {} /\ roots = {} /\ root = None
  /\ lease' = "writer"
  /\ w' = [Absent EXCEPT !.state = "open"]
  /\ UNCHANGED <<mode, cut, content, objects, segments, index, roots, root, reader>>

\* Mutant of Append: a frame over the budget is dropped, and recording goes on.
AppendDropping(c) ==
  /\ w.state = "open" /\ ~w.collecting /\ ~w.failure
  /\ w.observed < MaxFrame
  /\ w' = IF w.pending >= MaxPending THEN [w EXCEPT !.observed = @ + 1]
                                     ELSE [w EXCEPT !.observed = @ + 1, !.pending = @ + 1]
  /\ content' = IF w.pending >= MaxPending THEN content ELSE [content EXCEPT ![w.observed + 1] = c]
  /\ UNCHANGED <<mode, cut, disk, reader>>

\* The bytes of the frame are taken over at once; a frame over the pending budget
\* fails the writer for good.
Append(c) ==
  /\ w.state = "open" /\ ~w.collecting /\ ~w.failure
  /\ w.observed < MaxFrame
  /\ IF w.pending >= MaxPending
       THEN /\ w' = [w EXCEPT !.observed = @ + 1, !.failure = TRUE]
            /\ UNCHANGED content
       ELSE /\ w' = [w EXCEPT !.observed = @ + 1, !.pending = @ + 1]
            /\ content' = [content EXCEPT ![w.observed + 1] = c]
  /\ UNCHANGED <<mode, cut, disk, reader>>

StartCommit ==
  /\ w.job = "none" /\ w.pending > 0 /\ ~w.failure
  /\ w' = [w EXCEPT !.job = "commit", !.step = "content"]
  /\ UNCHANGED <<mode, cut, content, disk, reader>>

\* A frame queued behind a failed one is refused when its turn comes.
SkipCommit ==
  /\ w.job = "none" /\ w.pending > 0 /\ w.failure
  /\ w' = [w EXCEPT !.next = @ + 1, !.pending = @ - 1]
  /\ content' = [content EXCEPT ![w.next] = None]
  /\ UNCHANGED <<mode, cut, disk, reader>>

\* Content that this writer remembers to have stored is not stored again.
PutContent ==
  /\ At("commit", "content")
  /\ objects' = IF content[w.next] \in w.written THEN objects ELSE objects \cup {content[w.next]}
  /\ w' = [w EXCEPT !.written = @ \cup {content[w.next]}, !.step = "boundary"]
  /\ UNCHANGED <<mode, cut, content, segments, index, roots, root, lease, reader>>

PutBoundary ==
  /\ At("commit", "boundary")
  /\ objects' = objects \cup {w.next}
  /\ w' = [w EXCEPT !.step = "segment"]
  /\ UNCHANGED <<mode, cut, content, segments, index, roots, root, lease, reader>>

PutSegment ==
  /\ At("commit", "segment")
  /\ segments' = segments \cup {w.next}
  /\ w' = [w EXCEPT !.step = "index"]
  /\ UNCHANGED <<mode, cut, content, objects, index, roots, root, lease, reader>>

PutIndex ==
  /\ At("commit", "index")
  /\ index' = index \cup {w.next}
  /\ w' = [w EXCEPT !.step = "root"]
  /\ UNCHANGED <<mode, cut, content, objects, segments, roots, root, lease, reader>>

Later(a, b) == IF a > b THEN a ELSE b

\* The root that a commit publishes: a rolling store forgets frames far behind.
CommitRoot ==
  LET first == IF w.root = NoRoot THEN w.next ELSE w.root.first
  IN [generation |-> w.generation,
      first |-> IF mode = "rolling" THEN Later(first, w.next - MaxFrames) ELSE first,
      last |-> w.next, status |-> "open"]

\* The root that close publishes: the same range with the final status.
FinalRoot == [w.root EXCEPT !.generation = w.generation,
                            !.status = IF w.failure THEN "failed" ELSE "complete"]

PutRoot ==
  /\ w.step = "root"
  /\ LET draft == IF w.job = "close" THEN FinalRoot ELSE CommitRoot
     IN /\ roots' = roots \cup {draft}
        /\ w' = [w EXCEPT !.generation = @ + 1, !.draft = draft, !.step = "publish"]
  /\ UNCHANGED <<mode, cut, content, objects, segments, index, root, lease, reader>>

\* Mutant of Done: a commit that ends stays counted as pending.
DoneWithoutDraining(v) ==
  CASE v.job = "commit" -> [v EXCEPT !.next = @ + 1, !.job = "none", !.step = "none"]
    [] v.job = "collect" -> [v EXCEPT !.collecting = FALSE, !.job = "none", !.step = "none"]
    [] OTHER -> [v EXCEPT !.step = "release"]

\* The running operation ends: a commit leaves the queue, a collection admits
\* frames again, a close has still to give up the lease.
Done(v) ==
  CASE v.job = "commit" -> [v EXCEPT !.next = @ + 1, !.pending = @ - 1, !.job = "none", !.step = "none"]
    [] v.job = "collect" -> [v EXCEPT !.collecting = FALSE, !.job = "none", !.step = "none",
                                      !.floor = 0, !.reachable = {}, !.pinned = {}]
    [] OTHER -> [v EXCEPT !.step = "release"]

\* A compare-and-replace of the file root; then, now and then, obsolete roots go.
PublishRoot ==
  /\ w.step = "publish"
  /\ Published.generation = w.root.generation
  /\ root' = w.draft
  /\ LET v == [w EXCEPT !.root = w.draft, !.draft = NoRoot]
     IN w' = IF w.draft.generation % PruneEvery = 0 THEN [v EXCEPT !.step = "scan"] ELSE Done(v)
  /\ UNCHANGED <<mode, cut, content, objects, segments, index, roots, lease, reader>>

\* pinnedGenerations, first half: list the pin files.
Scan ==
  /\ w.step = "scan"
  /\ w' = [w EXCEPT !.todo = {<<r, Generation(r)>> : r \in {q \in Readers : HasPin(q)}},
                    !.pinned = {}, !.step = "pins"]
  /\ UNCHANGED <<mode, cut, content, disk, reader>>

\* What remains of the given frames when the memory that held them is gone.
Without(frames) == [f \in Frames |-> IF f \in frames \ objects THEN None ELSE content[f]]

\* An operation that throws: it ends, a failed commit fails the writer, and a
\* failed close gives up the lease all the same.
Fail ==
  /\ w' = CASE w.job = "commit" -> [Done(w) EXCEPT !.failure = TRUE, !.draft = NoRoot, !.todo = {}, !.pinned = {}]
            [] w.job = "collect" -> [Done(w) EXCEPT !.todo = {}]
            [] OTHER -> Absent
  /\ lease' = IF w.job = "close" THEN "none" ELSE lease
  /\ content' = IF w.job = "commit" THEN Without({w.next}) ELSE content

\* A listed pin can be read unless its reader removed it or is still writing it.
PinIsReadable(r, g) == HasPin(r) /\ Generation(r) = g /\ reader[r].pc \notin {"pinning", "crashedEmpty"}

\* pinnedGenerations, second half: the pin of a live process counts, that of a
\* dead one is removed; one that cannot be read makes the operation throw.
ReadPin(r, g) ==
  /\ w.step = "pins"
  /\ <<r, g>> \in w.todo
  /\ IF ~PinIsReadable(r, g)
       THEN Fail /\ UNCHANGED reader
       ELSE /\ UNCHANGED <<lease, content>>
            /\ IF reader[r].pc = "crashed"
                 THEN /\ reader' = [reader EXCEPT ![r] = [Idle EXCEPT !.pc = "closed"]]
                      /\ w' = [w EXCEPT !.todo = @ \ {<<r, g>>}]
                 ELSE /\ w' = [w EXCEPT !.todo = @ \ {<<r, g>>}, !.pinned = @ \cup {g}]
                      /\ UNCHANGED reader
  /\ UNCHANGED <<mode, cut, objects, segments, index, roots, root>>

\* publish, last part: roots that are neither current nor pinned go.
PruneRoots ==
  /\ w.step = "pins" /\ w.todo = {} /\ w.job # "collect"
  /\ roots' = {x \in roots : x.generation \in w.pinned \cup {w.root.generation}}
  /\ w' = Done([w EXCEPT !.pinned = {}])
  /\ UNCHANGED <<mode, cut, content, objects, segments, index, root, lease, reader>>

\* collect() refuses new frames from its call on, and first waits for the queue.
Collect ==
  /\ w.state = "open" /\ ~w.collecting
  /\ w' = [w EXCEPT !.collecting = TRUE]
  /\ UNCHANGED <<mode, cut, content, disk, reader>>

StartCollect ==
  /\ w.collecting /\ w.job = "none" /\ w.pending = 0
  /\ w' = IF w.root = NoRoot THEN [w EXCEPT !.collecting = FALSE]
                             ELSE [w EXCEPT !.job = "collect", !.step = "scan"]
  /\ UNCHANGED <<mode, cut, content, disk, reader>>

Span(x) == x.first .. x.last
Keep == w.pinned \cup {w.root.generation}
KeptRoots == {x \in roots : x.generation \in Keep}

\* What the kept roots reach. A kept generation without a stored root throws.
Mark ==
  /\ w.job = "collect" /\ w.step = "pins" /\ w.todo = {}
  /\ IF mode = "full-history"
       THEN w' = [w EXCEPT !.step = "sweepRoots"] /\ UNCHANGED <<lease, content>>
       ELSE IF \E g \in Keep : \A x \in roots : x.generation # g
              THEN Fail
              ELSE LET frames == UNION {Span(x) \cap index : x \in KeptRoots}
                   IN /\ w' = [w EXCEPT !.reachable = frames \cup {content[f] : f \in frames},
                                        !.floor = CHOOSE f \in {x.first : x \in KeptRoots} :
                                                    \A x \in KeptRoots : f <= x.first,
                                        !.step = "pruneIndex"]
                      /\ UNCHANGED <<lease, content>>
  /\ UNCHANGED <<mode, cut, objects, segments, index, roots, root, reader>>

\* Mutant of PruneIndex: rows go by the range of the current root alone.
PruneIndexToRoot ==
  /\ w.step = "pruneIndex"
  /\ index' = {f \in index : f >= w.root.first}
  /\ w' = [w EXCEPT !.step = "sweep"]
  /\ UNCHANGED <<mode, cut, content, objects, segments, roots, root, lease, reader>>

PruneIndex ==
  /\ w.step = "pruneIndex"
  /\ index' = {f \in index : f >= w.floor}
  /\ w' = [w EXCEPT !.step = "sweep"]
  /\ UNCHANGED <<mode, cut, content, objects, segments, roots, root, lease, reader>>

\* Unreachable objects go one at a time, from the disk and from what the writer
\* remembers to have stored.
SweepObject(o) ==
  /\ w.step = "sweep"
  /\ o \in objects \ w.reachable
  /\ objects' = objects \ {o}
  /\ w' = [w EXCEPT !.written = @ \ {o}]
  /\ content' = [f \in Frames |-> IF f = o THEN None ELSE content[f]]
  /\ UNCHANGED <<mode, cut, segments, index, roots, root, lease, reader>>

\* Then obsolete roots and descriptors, which only a writer reads.
SweepMetadata ==
  /\ \/ w.step = "sweepRoots"
     \/ w.step = "sweep" /\ objects \subseteq w.reachable
  /\ roots' = KeptRoots
  /\ segments' = IF mode = "rolling" THEN {f \in segments : f >= w.floor} ELSE segments
  /\ w' = Done(w)
  /\ UNCHANGED <<mode, cut, content, objects, index, root, lease, reader>>

\* close(), after abort(error) in the same call when the client gives the recording up.
Close(aborted) ==
  /\ w.state = "open" /\ ~w.collecting
  /\ w' = [w EXCEPT !.state = "closed", !.failure = @ \/ aborted]
  /\ UNCHANGED <<mode, cut, content, disk, reader>>

StartClose ==
  /\ w.state = "closed" /\ w.job = "none" /\ w.pending = 0
  /\ w' = [w EXCEPT !.job = "close", !.step = IF w.root = NoRoot THEN "release" ELSE "root"]
  /\ UNCHANGED <<mode, cut, content, disk, reader>>

Release ==
  /\ w.step = "release"
  /\ w' = Absent
  /\ lease' = "none"
  /\ UNCHANGED <<mode, cut, content, objects, segments, index, roots, root, reader>>

\* Any write of the host may fail: storage, or the budget maxStoredBytes.
Fault ==
  /\ w.job # "none" /\ w.step # "release"
  /\ Fail
  /\ UNCHANGED <<mode, cut, objects, segments, index, roots, root, reader>>

\* The writer's process dies; the lease stays, and names a dead process.
Crash ==
  /\ w.state # "absent"
  /\ w' = Absent
  /\ lease' = "dead"
  /\ content' = Without(Frames)
  /\ UNCHANGED <<mode, cut, objects, segments, index, roots, root, reader>>

-----------------------------------------------------------------------------
(* A reader *)

\* RecordingStoreReader.open: read the root, pin its generation (a file that is
\* created and then written), read the root again.
ReadRoot(r) ==
  /\ reader[r].pc = "idle" /\ root # None
  /\ reader' = [reader EXCEPT ![r].pc = "read", ![r].root = root]
  /\ UNCHANGED <<mode, cut, content, disk, w>>

CreatePin(r) ==
  /\ reader[r].pc = "read"
  /\ reader' = [reader EXCEPT ![r].pc = "pinning"]
  /\ UNCHANGED <<mode, cut, content, disk, w>>

WritePin(r) ==
  /\ reader[r].pc = "pinning"
  /\ reader' = [reader EXCEPT ![r].pc = "pinned"]
  /\ UNCHANGED <<mode, cut, content, disk, w>>

\* Mutant of Confirm: the root is not read again.
ConfirmBlindly(r) ==
  /\ reader[r].pc = "pinned"
  /\ reader' = [reader EXCEPT ![r].pc = "open"]
  /\ UNCHANGED <<mode, cut, content, disk, w>>

\* The same generation: open. Another one: give up the pin and start again.
Confirm(r) ==
  /\ reader[r].pc = "pinned"
  /\ reader' = IF root.generation = Generation(r)
                 THEN [reader EXCEPT ![r].pc = "open"]
                 ELSE [reader EXCEPT ![r] = Idle]
  /\ UNCHANGED <<mode, cut, content, disk, w>>

CloseReader(r) ==
  /\ reader[r].pc = "open"
  /\ reader' = [reader EXCEPT ![r] = [Idle EXCEPT !.pc = "closed"]]
  /\ UNCHANGED <<mode, cut, content, disk, w>>

\* recover(), after it verified the range: is a writer alive, and then, is this
\* generation still the last one?
RecoverLease(r) ==
  /\ reader[r].pc = "open" /\ reader[r].verdict = "none"
  /\ reader' = [reader EXCEPT ![r].pc = "recovering", ![r].active = ~LeaseIsFree]
  /\ UNCHANGED <<mode, cut, content, disk, w>>

\* Mutant of RecoverRoot: a generation that was replaced counts as the last one.
RecoverUnsuperseded(r) ==
  /\ reader[r].pc = "recovering"
  /\ reader' = [reader EXCEPT ![r].pc = "open", ![r].active = FALSE,
       ![r].verdict = IF reader[r].root.status = "open" /\ ~reader[r].active
                        THEN "interrupted" ELSE "none"]
  /\ UNCHANGED <<mode, cut, content, disk, w>>

RecoverRoot(r) ==
  /\ reader[r].pc = "recovering"
  /\ reader' = [reader EXCEPT ![r].pc = "open", ![r].active = FALSE,
       ![r].verdict = IF /\ reader[r].root.status = "open"
                         /\ ~reader[r].active
                         /\ root.generation = Generation(r)
                        THEN "interrupted" ELSE "none"]
  /\ UNCHANGED <<mode, cut, content, disk, w>>

\* The reader's process dies. A pin file it had stays, perhaps without contents.
CrashReader(r) ==
  /\ reader[r].pc \in {"read", "pinning", "pinned", "open", "recovering"}
  /\ reader' = [reader EXCEPT ![r] =
       CASE reader[r].pc = "read" -> [Idle EXCEPT !.pc = "closed"]
         [] reader[r].pc = "pinning" -> [Idle EXCEPT !.pc = "crashedEmpty", !.root = reader[r].root]
         [] OTHER -> [Idle EXCEPT !.pc = "crashed", !.root = reader[r].root]]
  /\ UNCHANGED <<mode, cut, content, disk, w>>

-----------------------------------------------------------------------------
(* The index rebuild tool *)

\* It takes the writer's lease, so it never runs beside a writer; pins it does not ask.
StartRebuild ==
  /\ LeaseIsFree /\ root # None
  /\ lease' = "rebuild"
  /\ UNCHANGED <<mode, cut, content, objects, segments, index, roots, root, w, reader>>

\* One transaction replaces the index by the rows of the current root, if its
\* descriptors and objects are all there. Rows of an older range that a reader has
\* pinned go with the rest.
Rebuild ==
  /\ lease = "rebuild"
  /\ IF \A f \in Span(root) : f \in segments \cap objects /\ content[f] \in objects
       THEN index' = Span(root) /\ cut' = root.first
       ELSE UNCHANGED <<index, cut>>
  /\ lease' = "none"
  /\ UNCHANGED <<mode, content, objects, segments, roots, root, w, reader>>

CrashRebuild ==
  /\ lease = "rebuild"
  /\ lease' = "dead"
  /\ UNCHANGED <<mode, cut, content, objects, segments, index, roots, root, w, reader>>

-----------------------------------------------------------------------------
\* A step of the writer that the host's event loop takes by itself.
WriterStep ==
  \/ StartCommit \/ SkipCommit
  \/ PutContent \/ PutBoundary \/ PutSegment \/ PutIndex \/ PutRoot \/ PublishRoot
  \/ Scan \/ (\E p \in w.todo : ReadPin(p[1], p[2])) \/ PruneRoots
  \/ StartCollect \/ Mark \/ PruneIndex \/ (\E o \in objects : SweepObject(o)) \/ SweepMetadata
  \/ StartClose \/ Release

WriterCall == Create \/ (\E c \in Contents : Append(c)) \/ Collect \/ (\E aborted \in BOOLEAN : Close(aborted))

ReaderStep(r) ==
  \/ ReadRoot(r) \/ CreatePin(r) \/ WritePin(r) \/ Confirm(r) \/ CloseReader(r)
  \/ RecoverLease(r) \/ RecoverRoot(r) \/ CrashReader(r)

RebuildStep == StartRebuild \/ Rebuild \/ CrashRebuild

Next ==
  \/ WriterStep \/ WriterCall \/ Fault \/ Crash
  \/ \E r \in Readers : ReaderStep(r)
  \/ RebuildStep

Spec == Init /\ [][Next]_vars
-----------------------------------------------------------------------------
(* Properties *)

ReaderPcs == {"idle", "read", "pinning", "pinned", "open", "recovering", "closed",
              "crashedEmpty", "crashed"}

\* Frames that append accepted and that are neither committed nor refused yet.
Queued(f) == f \in w.next .. (w.next + w.pending - 1)

\* Types. A queued frame has a content, and counters stay in the bounds.
TypeOK ==
  /\ mode \in {"rolling", "full-history"}
  /\ content \in [Frames -> Contents \cup {None}]
  /\ objects \subseteq Objects /\ segments \subseteq Frames /\ index \subseteq Frames
  /\ roots \subseteq Root
  /\ root \in Root \cup {None}
  /\ lease \in {"none", "writer", "rebuild", "dead"}
  /\ w.state \in {"absent", "open", "closed"}
  /\ w.observed \in -1 .. MaxFrame
  /\ w.next \in Nat /\ w.pending \in Nat /\ w.next + w.pending <= w.observed + 1
  /\ w.generation \in 1 .. (MaxFrame + 3)
  /\ w.root \in Root \cup {NoRoot} /\ w.draft \in Root \cup {NoRoot}
  /\ w.failure \in BOOLEAN /\ w.collecting \in BOOLEAN
  /\ w.written \subseteq Contents /\ w.reachable \subseteq Objects \cup {None}
  /\ w.floor \in Frames
  /\ w.todo \subseteq Readers \X Generations /\ w.pinned \subseteq Generations
  /\ cut \in Frames
  /\ \A r \in Readers : reader[r].pc \in ReaderPcs /\ reader[r].root \in Root \cup {NoRoot}
  /\ \A f \in Frames : f \in objects \/ Queued(f) => content[f] \in Contents

\* A frame is stored, its boundary and what the boundary shares, and can be read if it
\* also has a row in the index.
Stored(f) == f \in objects /\ content[f] \in objects
Readable(f) == f \in index /\ Stored(f)

\* Whatever crashed, failed or was collected, every frame of the published root can be
\* read (a root is published after everything it names), and an open reader can read
\* every frame of the generation it pinned, however far the writer and its collections
\* have moved on meanwhile. One thing breaks that promise, and only that: a rebuild of
\* the index, which asks for no pins, takes the rows of the frames below the range of
\* the current root. An open reader then misses them, although their objects are there
\* and though pins are to protect live readers (recording-storage.md:27, :39).
IsOpen(r) == reader[r].pc \in {"open", "recovering"}
PromisedIsReadable ==
  /\ \A f \in Span(Published) : Readable(f)
  /\ \A r \in Readers : IsOpen(r) =>
       \A f \in Span(reader[r].root) : Stored(f) /\ (f \in index \/ f < cut)
  /\ cut > 0 => cut = Published.first /\ w.state = "absent"

\* A store that says "complete" lost nothing: every frame that the writer ever
\* observed, refused ones included, is in the committed range.
CompleteLostNothing ==
  [][root' # root /\ root'.status = "complete" => root'.last = w.observed]_vars

\* The lease admits one process, and the memory of a writer agrees with the disk.
WriterIsAlone ==
  /\ w.state # "absent" <=> lease = "writer"
  /\ w.state # "absent" => w.root = Published

\* When recovery says "interrupted" it is so, and remains so: the writer is gone, the
\* root it left is the one the reader has, and nobody publishes another.
InterruptedIsTrue ==
  \A r \in Readers : reader[r].verdict = "interrupted" =>
    /\ root = reader[r].root /\ root.status = "open"
    /\ w.state = "absent"

\* The store implements the abstract recording: the file root is its range and its
\* status, the frames that can be read up to the root are what it keeps, and a rebuild
\* cuts off what it drops.
Log == INSTANCE Recording WITH
  range <- [first |-> Published.first, last |-> Published.last],
  status <- Published.status,
  kept <- {f \in Frames : f <= Published.last /\ Readable(f)},
  view <- [r \in Readers |-> IF IsOpen(r) THEN Span(reader[r].root) ELSE {}]
ImplementsRecording == Log!Spec
=============================================================================
