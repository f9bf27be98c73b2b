--------------------------- MODULE MCRecordingStore ---------------------------
(* RecordingStore for TLC: contents are interchangeable, and no property of *)
(* the run is a liveness property, so permuting them is sound.              *)
EXTENDS RecordingStore, TLC

ContentSymmetry == Permutations(Contents)
=============================================================================
