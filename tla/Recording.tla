------------------------------ MODULE Recording ------------------------------
(***************************************************************************)
(* What an incremental recording store promises, without files: one        *)
(* recording is a growing range of frames. The newest ones are retained;   *)
(* a reader that opened the recording keeps seeing the range it opened,    *)
(* down to the cut that a rebuild of the index may make. A frame is given  *)
(* up only when no one is entitled to it any more.                         *)
(* RecordingStore implements this specification (RecordingStore.tla, end). *)
(***************************************************************************)
EXTENDS Integers

CONSTANT Readers        \* the readers that may open the recording

VARIABLES range,        \* the committed range, [first, last]; empty when last < first
          status,       \* "none" before the first frame, then "open", at last "complete" or "failed"
          kept,         \* the committed frames that can still be read
          view,         \* for each reader, the range it opened
          cut           \* the first frame of the range when the index was last rebuilt, or 0

vars == <<range, status, kept, view, cut>>

Committed == range.first .. range.last

Init == /\ range = [first |-> 0, last |-> -1]
        /\ status = "none"
        /\ kept = {}
        /\ view = [r \in Readers |-> {}]
        /\ cut = 0

\* One more frame is committed; the beginning of the range may move, never back.
Commit ==
  /\ status \in {"none", "open"}
  /\ status' = "open"
  /\ \E first \in range.first .. (range.last + 1) :
       range' = [first |-> first, last |-> range.last + 1]
  /\ kept' = kept \cup {range'.last}
  /\ UNCHANGED <<view, cut>>

\* The recording ends; its range stays.
Finish ==
  /\ status = "open"
  /\ status' \in {"complete", "failed"}
  /\ UNCHANGED <<range, kept, view, cut>>

\* What anyone may count on: the committed range, and of a range that was opened what
\* lies not below the cut.
Entitled == Committed \cup {f \in UNION {view[r] : r \in Readers} : f >= cut}

\* Space is reclaimed. Only frames that nobody is entitled to are touched: one may go, or
\* turn up again when content that it shares with a new frame is stored anew.
Reclaim ==
  /\ kept' \subseteq 0 .. range.last
  /\ \A f \in Entitled : f \in kept => f \in kept'
  /\ UNCHANGED <<range, status, view, cut>>

\* The index is rebuilt for the committed range alone: whoever opened an older one loses
\* what lies below.
Rebuild ==
  /\ status # "none"
  /\ cut' = range.first
  /\ kept' \subseteq 0 .. range.last
  /\ \A f \in Entitled : f >= cut' /\ f \in kept => f \in kept'
  /\ UNCHANGED <<range, status, view>>

Open(r) ==
  /\ status # "none"
  /\ view[r] = {}
  /\ view' = [view EXCEPT ![r] = Committed]
  /\ UNCHANGED <<range, status, kept, cut>>

Close(r) ==
  /\ view[r] # {}
  /\ view' = [view EXCEPT ![r] = {}]
  /\ UNCHANGED <<range, status, kept, cut>>

Next == \/ Commit
        \/ Finish
        \/ Reclaim
        \/ Rebuild
        \/ \E r \in Readers : Open(r) \/ Close(r)

Spec == Init /\ [][Next]_vars

(***************************************************************************)
(* Everything anyone is entitled to can be read: the committed range, and  *)
(* the range each reader opened, unless a rebuild of the index cut it off. *)
(***************************************************************************)
NothingMissing == Entitled \subseteq kept
=============================================================================
