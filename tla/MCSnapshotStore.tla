--------------------------- MODULE MCSnapshotStore ---------------------------
(***************************************************************************)
(* SnapshotStore on a small instance: three captures, of which the second  *)
(* finds out again what the first recorded and the third adds a fact of    *)
(* its own.  The places a lock holder may stop at are given by name.       *)
(***************************************************************************)
EXTENDS SnapshotStore

CONSTANTS c1, c2, c3, f1, f2, f3

MCFactsOf == c1 :> {f1} @@ c2 :> {f1, f2} @@ c3 :> {f3}

Anywhere == Place \ {"idle"}

\* Before the manifest is linked.
BeforeManifest == {"semantic", "verify", "objects", "manifest"}

AtCommit == {"commit"}
AtAdd == {"add"}
=============================================================================
