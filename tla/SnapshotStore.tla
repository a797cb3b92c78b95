----------------------------- MODULE SnapshotStore -----------------------------
(***************************************************************************)
(* The portable project store of one machine: the wiki workspace the       *)
(* capture pipeline edits, the create-only objects and manifests in the    *)
(* store's worktree, git's index, and the history behind HEAD.  A capture  *)
(* is one transaction under the project-store lock,                        *)
(*                                                                         *)
(*   semantic -> verify -> objects -> manifest -> add -> addManifest       *)
(*            -> commit -> idle                                            *)
(*                                                                         *)
(* and a materialization (idle -> swap -> idle) rebuilds the wiki from the *)
(* latest committed manifest.  The lock admits one transaction at a time:  *)
(* pc is the place of its holder, "idle" that nobody holds it.  A holder   *)
(* may stop at any place listed in StopPoints: it is killed, or a stage or *)
(* git command fails and it returns an error, which undoes nothing either. *)
(* EnsureStore is what other processes do without the lock.                *)
(*                                                                         *)
(* A wiki file stands for the fact it records, and its object, named by    *)
(* the hash of its bytes, for the same fact.                               *)
(***************************************************************************)
EXTENDS SequencesExt

CONSTANTS
  Capture,                \* capture ids
  Fact,                   \* what a wiki file can hold
  FactsOf,                \* the facts the semantic pipeline derives from each
  None,                   \* no capture, no manifest
  StopPoints,             \* where the lock holder may be killed or fail
  MaxStops                \* bound: how often that happens

Place == {"idle", "semantic", "verify", "objects", "manifest", "add",
          "addManifest", "commit", "swap"}

ASSUME StoreAssumption ==
  /\ FactsOf \in [Capture -> SUBSET Fact]
  /\ None \notin Capture
  /\ None \notin [parent : Capture \cup {None}, files : SUBSET Fact]
  /\ StopPoints \subseteq Place \ {"idle"}
  /\ MaxStops \in Nat

VARIABLES
  wiki,                   \* facts in the wiki directory, {} when there is none
  objects, manifests,     \* objects/ and manifest.json files in the worktree
  stagedObjects, stagedManifests,   \* additions in the index
  headObjects, history,   \* objects at HEAD; the capture commits, oldest first
  pc, job, snap,          \* of the lock holder: place, capture, files it read
                          \* or moved away
  tmp,                    \* its .object.*.tmp: "none", "live", or "deleted"
  ensured,                \* captures whose worker found the store healthy
  stops                   \* how much of the bound is used

treeVars  == <<objects, manifests>>
indexVars == <<stagedObjects, stagedManifests>>
headVars  == <<headObjects, history>>
lockVars  == <<pc, job, snap, tmp>>
vars == <<wiki, treeVars, indexVars, headVars, lockVars, ensured, stops>>

Manifest == [parent : Capture \cup {None}, files : SUBSET Fact]

TypeOK ==
  /\ wiki \in SUBSET Fact
  /\ objects \in SUBSET Fact
  /\ manifests \in [Capture -> Manifest \cup {None}]
  /\ stagedObjects \in SUBSET Fact
  /\ stagedManifests \in SUBSET Capture
  /\ headObjects \in SUBSET Fact
  /\ history \in Seq(Capture)
  /\ pc \in Place
  /\ job \in Capture \cup {None}
  /\ job = None <=> pc \in {"idle", "swap"}
  /\ snap \in SUBSET Fact
  /\ tmp \in {"none", "live", "deleted"}
  /\ ensured \in SUBSET Capture
  /\ stops \in 0..MaxStops

Init ==
  /\ wiki = {}
  /\ objects = {}
  /\ manifests = [c \in Capture |-> None]
  /\ stagedObjects = {}
  /\ stagedManifests = {}
  /\ headObjects = {}
  /\ history = <<>>
  /\ pc = "idle"
  /\ job = None
  /\ snap = {}
  /\ tmp = "none"
  /\ ensured = {}
  /\ stops = 0

Committed(c) == c \in ToSet(history)

\* Mutant: the log is read oldest first.
FirstCapture == IF history = <<>> THEN None ELSE history[1]

\* previous_capture_id, latest_capture_manifest: the newest capture in the log.
LatestCapture == IF history = <<>> THEN None ELSE history[Len(history)]

\* git diff --cached finds no addition below objects/ or captures/: the part
\* of verify_immutable_objects and validate_store_repo that can fail here, for
\* no step edits or deletes a tracked file.
IndexClean == stagedObjects = {} /\ stagedManifests = {}

Goto(place) ==
  /\ pc' = place
  /\ UNCHANGED job

\* Mutant: the next holder still finds the capture of the last one.
ReleaseKeepingJob ==
  /\ pc' = "idle"
  /\ snap' = {}
  /\ tmp' = "none"
  /\ UNCHANGED job

\* The lock holder ends: success, error return or death all release the flock.
Release ==
  /\ pc' = "idle"
  /\ job' = None
  /\ snap' = {}
  /\ tmp' = "none"

OneMoreStop ==
  /\ stops < MaxStops
  /\ stops' = stops + 1

-----------------------------------------------------------------------------
(* Before the lock.                                                        *)

\* Mutant: the health check also refuses objects no commit holds.
EnsureStoreTracked(c) ==
  /\ IndexClean
  /\ pc = "idle" => objects \subseteq headObjects
  /\ ensured' = ensured \cup {c}
  /\ tmp' = IF tmp = "live" THEN "deleted" ELSE tmp
  /\ UNCHANGED <<wiki, treeVars, indexVars, headVars, pc, job, snap, stops>>

\* ensure_project_store, by the worker of c or any other process: the health
\* check, and the removal of temporary object files,
\* one of which the lock holder may be about to link.
EnsureStore(c) ==
  /\ IndexClean
  /\ ensured' = ensured \cup {c}
  /\ tmp' = IF tmp = "live" THEN "deleted" ELSE tmp
  /\ UNCHANGED <<wiki, treeVars, indexVars, headVars, pc, job, snap, stops>>

-----------------------------------------------------------------------------
(* The capture transaction.                                                *)

\* Mutant: whether the capture is committed was asked before the lock.
BeginCaptureUnchecked(c) ==
  /\ pc = "idle"
  /\ c \in ensured
  /\ ensured' = ensured \ {c}
  /\ pc' = "semantic"
  /\ job' = c
  /\ UNCHANGED <<wiki, treeVars, indexVars, headVars, snap, tmp, stops>>

\* The worker gets the lock and finds no commit of its capture.
BeginCapture(c) ==
  /\ pc = "idle"
  /\ c \in ensured
  /\ ensured' = ensured \ {c}
  /\ ~Committed(c)
  /\ pc' = "semantic"
  /\ job' = c
  /\ UNCHANGED <<wiki, treeVars, indexVars, headVars, snap, tmp, stops>>

\* One guide, record or card is written, in a wiki recreated if it is missing.
LearnFact(f) ==
  /\ pc = "semantic"
  /\ f \in FactsOf[job]
  /\ wiki' = wiki \cup {f}
  /\ UNCHANGED <<treeVars, indexVars, headVars, lockVars, ensured, stops>>

\* Mutant: a pipeline that failed or timed out is committed all the same.
SemanticDoneAnyway ==
  /\ pc = "semantic"
  /\ Goto("verify")
  /\ UNCHANGED <<wiki, treeVars, indexVars, headVars, snap, tmp, ensured,
                 stops>>

\* Every stage finished.
SemanticDone ==
  /\ pc = "semantic"
  /\ FactsOf[job] \subseteq wiki
  /\ Goto("verify")
  /\ UNCHANGED <<wiki, treeVars, indexVars, headVars, snap, tmp, ensured,
                 stops>>

\* Mutant: a manifest of an earlier attempt is not looked for.
CollectAgain ==
  /\ pc = "verify"
  /\ IndexClean
  /\ snap' = wiki
  /\ Goto("objects")
  /\ UNCHANGED <<wiki, treeVars, indexVars, headVars, tmp, ensured, stops>>

\* verify_immutable_objects passes; then either an earlier attempt left the
\* manifest of this capture, or the workspace is read.
Collect ==
  /\ pc = "verify"
  /\ IndexClean
  /\ IF manifests[job] /= None
     THEN snap' = {} /\ Goto("add")
     ELSE snap' = wiki /\ Goto("objects")
  /\ UNCHANGED <<wiki, treeVars, indexVars, headVars, tmp, ensured, stops>>

VerifyFails ==
  /\ pc = "verify"
  /\ ~IndexClean
  /\ Release
  /\ UNCHANGED <<wiki, treeVars, indexVars, headVars, ensured, stops>>

\* create_only, first half: the temporary file is written and synced.
WriteTmp ==
  /\ \/ pc = "objects" /\ ~(snap \subseteq objects)
     \/ pc = "manifest"
  /\ tmp = "none"
  /\ tmp' = "live"
  /\ UNCHANGED <<wiki, treeVars, indexVars, headVars, pc, job, snap, ensured,
                 stops>>

\* create_only, second half: hard_link to the final name.
LinkObject(f) ==
  /\ pc = "objects"
  /\ tmp = "live"
  /\ f \in snap \ objects
  /\ objects' = objects \cup {f}
  /\ tmp' = "none"
  /\ UNCHANGED <<wiki, manifests, indexVars, headVars, pc, job, snap, ensured,
                 stops>>

\* An object that is there already is not written again.
ObjectsDone ==
  /\ pc = "objects"
  /\ snap \subseteq objects
  /\ Goto("manifest")
  /\ UNCHANGED <<wiki, treeVars, indexVars, headVars, snap, tmp, ensured,
                 stops>>

LinkManifest ==
  /\ pc = "manifest"
  /\ tmp = "live"
  /\ manifests' = [manifests EXCEPT ![job] =
                      [parent |-> LatestCapture, files |-> snap]]
  /\ tmp' = "none"
  /\ Goto("add")
  /\ UNCHANGED <<wiki, objects, indexVars, headVars, snap, ensured, stops>>

\* hard_link finds no temporary file: another process removed it.
LinkFails ==
  /\ pc \in {"objects", "manifest"}
  /\ tmp = "deleted"
  /\ Release
  /\ UNCHANGED <<wiki, treeVars, indexVars, headVars, ensured, stops>>

\* Mutant: only the objects this attempt collected are staged.
AddCollectedObjects ==
  /\ pc = "add"
  /\ stagedObjects' = snap \ headObjects
  /\ Goto("addManifest")
  /\ UNCHANGED <<wiki, treeVars, stagedManifests, headVars, snap, tmp,
                 ensured, stops>>

\* git add -- objects stages every new object in the worktree.
AddObjects ==
  /\ pc = "add"
  /\ stagedObjects' = objects \ headObjects
  /\ Goto("addManifest")
  /\ UNCHANGED <<wiki, treeVars, stagedManifests, headVars, snap, tmp,
                 ensured, stops>>

AddManifest ==
  /\ pc = "addManifest"
  /\ stagedManifests' = {job}
  /\ Goto("commit")
  /\ UNCHANGED <<wiki, treeVars, stagedObjects, headVars, snap, tmp, ensured,
                 stops>>

Commit ==
  /\ pc = "commit"
  /\ headObjects' = headObjects \cup stagedObjects
  /\ history' = Append(history, job)
  /\ stagedObjects' = {}
  /\ stagedManifests' = {}
  /\ Release
  /\ UNCHANGED <<wiki, treeVars, ensured, stops>>

-----------------------------------------------------------------------------
(* materialize_latest, by a synchronization or a starting daemon.          *)

\* The fresh directory is complete and the wiki is renamed out of the way.  A
\* starting daemon looked at the index before it waited for the lock.
SwapOut ==
  /\ pc = "idle"
  /\ history /= <<>>
  /\ wiki' = {}
  /\ snap' = wiki
  /\ Goto("swap")
  /\ UNCHANGED <<treeVars, indexVars, headVars, tmp, ensured, stops>>

SwapIn ==
  /\ pc = "swap"
  /\ wiki' = manifests[LatestCapture].files
  /\ Release
  /\ UNCHANGED <<treeVars, indexVars, headVars, ensured, stops>>

\* Mutant: the old wiki is not put back.
SwapInFailsEmpty ==
  /\ pc = "swap"
  /\ OneMoreStop
  /\ Release
  /\ UNCHANGED <<wiki, treeVars, indexVars, headVars, ensured>>

\* The new wiki cannot be renamed into place and the old one is put back.
SwapInFails ==
  /\ pc = "swap"
  /\ OneMoreStop
  /\ wiki' = snap
  /\ Release
  /\ UNCHANGED <<treeVars, indexVars, headVars, ensured>>

-----------------------------------------------------------------------------
\* The lock holder is killed or returns an error: whatever it wrote, staged or
\* renamed so far stays as it is.
Stop ==
  /\ pc \in StopPoints
  /\ OneMoreStop
  /\ Release
  /\ UNCHANGED <<wiki, treeVars, indexVars, headVars, ensured>>

\* What the lock holder does by itself, in the order of the code.
HolderStep ==
  \/ SemanticDone \/ Collect \/ VerifyFails
  \/ WriteTmp \/ ObjectsDone \/ LinkFails
  \/ AddObjects \/ AddManifest \/ Commit
  \/ SwapIn

Link == LinkManifest \/ \E f \in Fact : LinkObject(f)

Next ==
  \/ \E c \in Capture : EnsureStore(c) \/ BeginCapture(c)
  \/ \E f \in Fact : LearnFact(f)
  \/ HolderStep
  \/ Link
  \/ SwapOut \/ SwapInFails
  \/ Stop

Spec == Init /\ [][Next]_vars

\* A lock holder that can go on does, flock passes no waiter over for ever, the
\* inbox retries every capture (CaptureQueue), and the removal of temporary
\* files does not hit the instant before every single link.
Fairness ==
  /\ WF_vars(HolderStep)
  /\ SF_vars(Link)
  /\ \A f \in Fact : WF_vars(LearnFact(f))
  /\ \A c \in Capture : SF_vars(EnsureStore(c)) /\ SF_vars(BeginCapture(c))

FairSpec == Spec /\ Fairness

-----------------------------------------------------------------------------
(* Properties that hold wherever the holder stops.                         *)

\* HEAD is self-contained: a clone of it finds the manifest of every capture
\* in the log, all the objects the manifest names, and its parent earlier in
\* the log; no capture has two commits.
HistoryComplete ==
  /\ IsInjective(history)
  /\ \A i \in DOMAIN history :
       LET m == manifests[history[i]] IN
       /\ m /= None
       /\ m.files \subseteq headObjects
       /\ \/ m.parent = None
          \/ \E j \in 1..(i - 1) : m.parent = history[j]

\* The revision of a capture holds everything derived from that capture, also
\* when an earlier attempt at it stopped half way and another process reset or
\* rewrote the wiki in between.
OwnKnowledge ==
  \A c \in ToSet(history) : FactsOf[c] \subseteq manifests[c].files

\* A manifest is created once: no retry rewrites or removes it.
ManifestsImmutable ==
  [][\A c \in Capture :
       manifests[c] /= None => manifests'[c] = manifests[c]]_vars

-----------------------------------------------------------------------------
(* Properties that hold as long as the holder stops only before the        *)
(* manifest is linked (StopPoints within semantic .. manifest).            *)

\* Later revisions keep what earlier ones recorded: knowledge is superseded by
\* a later file, never dropped because a writer started from an older state.
NothingForgotten ==
  \A i, j \in DOMAIN history :
    i < j => manifests[history[i]].files \subseteq manifests[history[j]].files

\* The parent a manifest names is the revision it was committed on.
LinearParents ==
  \A i \in DOMAIN history :
    manifests[history[i]].parent = IF i = 1 THEN None ELSE history[i - 1]

\* Every capture is committed in the end.
EventuallyCommitted == \A c \in Capture : <>Committed(c)

\* A transaction that created its manifest is completed, by its own process or
\* by a later attempt: the comment in commit_workspace_capture_locked.
ResumedTransactionCompletes ==
  \A c \in Capture : manifests[c] /= None ~> Committed(c)

\* Read as a sequence of revisions, the history is a KnowledgeLog.
Abstract == INSTANCE KnowledgeLog WITH
  revisions <- [i \in DOMAIN history |->
                 [id |-> history[i], files |-> manifests[history[i]].files]]
ImplementsKnowledgeLog == Abstract!Spec
=============================================================================
