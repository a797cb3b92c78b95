---------------------------- MODULE DurableCapture ----------------------------
(***************************************************************************)
(* What the capture queue promises, with no queue in it.  A hook accepts a *)
(* capture (a transcript of a session, named by its content hash); every   *)
(* accepted capture is appended to the canonical history exactly once, or  *)
(* is dropped because the user switched capturing off.  CaptureQueue       *)
(* implements this specification.                                          *)
(***************************************************************************)
EXTENDS SequencesExt

CONSTANT Capture          \* the capture ids

VARIABLES
  accepted,               \* the captures some hook made durable
  history,                \* the capture commits, oldest first
  discarded               \* the captures dropped after the user opted out

vars == <<accepted, history, discarded>>

TypeOK ==
  /\ accepted \in SUBSET Capture
  /\ history \in Seq(Capture)
  /\ discarded \in SUBSET Capture

Init ==
  /\ accepted = {}
  /\ history = <<>>
  /\ discarded = {}

\* Accepting a capture again (the same transcript, hooked twice) is harmless,
\* and revokes an earlier drop: the user hooked it after opting in again.
Accept(c) ==
  /\ accepted' = accepted \cup {c}
  /\ discarded' = discarded \ {c}
  /\ UNCHANGED history

\* Only an accepted capture that has no commit yet is committed.
Commit(c) ==
  /\ c \in accepted
  /\ c \notin ToSet(history)
  /\ history' = Append(history, c)
  /\ UNCHANGED <<accepted, discarded>>

\* A capture is dropped only before it is committed.
Discard(c) ==
  /\ c \in accepted
  /\ c \notin ToSet(history)
  /\ discarded' = discarded \cup {c}
  /\ UNCHANGED <<accepted, history>>

Next == \E c \in Capture : Accept(c) \/ Commit(c) \/ Discard(c)

Spec == Init /\ [][Next]_vars
=============================================================================
