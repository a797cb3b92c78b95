--------------------------- MODULE MCCaptureQueue ---------------------------
(***************************************************************************)
(* CaptureQueue on small instances.  Captures, workers, hooks and daemons  *)
(* are interchangeable: the safety run may use all their permutations.     *)
(***************************************************************************)
EXTENDS CaptureQueue

Symmetry ==
  Permutations(Capture) \cup Permutations(Worker) \cup Permutations(Hook)
  \cup Permutations(Daemon)
=============================================================================
