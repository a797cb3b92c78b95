------------------------------ MODULE MCStoreSync ------------------------------
(***************************************************************************)
(* StoreSync on small instances: the places where a synchronization may be *)
(* killed, given by name.                                                  *)
(***************************************************************************)
EXTENDS StoreSync, TLC

\* Anywhere but between git merge and the validation of its result.
BeforeMerge == {"fetch", "compare", "postcheck"}
AtValidation == {"validate"}
Nowhere == {}
=============================================================================
