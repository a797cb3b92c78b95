----------------------------- MODULE KnowledgeLog -----------------------------
(***************************************************************************)
(* What the project store promises to a reader of its history: revisions   *)
(* are only appended, a capture has at most one, and each revision holds   *)
(* what its own capture contributed together with all that the revisions   *)
(* before it held.  SnapshotStore implements this as long as no process is *)
(* killed in the windows its README section names.                         *)
(***************************************************************************)
EXTENDS SequencesExt

CONSTANTS
  Capture,                \* capture ids
  Fact,                   \* what a wiki file can hold
  FactsOf                 \* the facts the semantic pipeline derives from each

VARIABLE revisions        \* sequence of [id, files], oldest first

TypeOK == revisions \in Seq([id : Capture, files : SUBSET Fact])

Init == revisions = <<>>

Publish(c, files) ==
  /\ \A r \in ToSet(revisions) : r.id /= c /\ r.files \subseteq files
  /\ FactsOf[c] \subseteq files
  /\ revisions' = Append(revisions, [id |-> c, files |-> files])

Next == \E c \in Capture, files \in SUBSET Fact : Publish(c, files)

Spec == Init /\ [][Next]_revisions
=============================================================================
