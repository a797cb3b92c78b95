------------------------- MODULE SnapshotStore_proofs -------------------------
(***************************************************************************)
(* Proofs about SnapshotStore: whatever the number of captures and facts,  *)
(* and wherever and however often the lock holder stops, what is committed *)
(* is complete.  Everything a manifest needs exists before the manifest    *)
(* does and is never removed (ManifestInv), and everything that exists is  *)
(* staged before a commit (StagedInv), also what earlier attempts left.    *)
(*                                                                         *)
(* With a lock holder that stops only before the manifest of its capture   *)
(* is linked, more holds: no capture is left with a manifest and without a *)
(* commit (PendingInv), and the wiki never falls behind the latest         *)
(* revision (WikiInv); so revisions are linked one to the next, nothing is *)
(* forgotten, and the history is a KnowledgeLog.  Run snapshot_stale shows *)
(* that a later stop breaks this.                                          *)
(***************************************************************************)
EXTENDS SnapshotStore, SequenceTheorems, TLAPS

-----------------------------------------------------------------------------
(* Histories, read as sets and as lists without repetitions.               *)

\* Appending an element adds it to the set of elements.
LEMMA ToSetAppend ==
  ASSUME NEW S, NEW s \in Seq(S), NEW e \in S
  PROVE  ToSet(Append(s, e)) = ToSet(s) \cup {e}
<1>1. /\ DOMAIN s = 1..Len(s)
      /\ DOMAIN Append(s, e) = 1..(Len(s) + 1)
      /\ Len(s) \in Nat
  BY LenProperties, AppendProperties
<1>2. /\ Append(s, e)[Len(s) + 1] = e
      /\ \A i \in 1..Len(s) : Append(s, e)[i] = s[i]
  BY AppendProperties
<1>3. ASSUME NEW x \in ToSet(Append(s, e)) PROVE x \in ToSet(s) \cup {e}
  <2>1. PICK i \in 1..(Len(s) + 1) : x = Append(s, e)[i]
    BY <1>1, <1>3 DEF ToSet
  <2>2. CASE i = Len(s) + 1
    BY <1>2, <2>1, <2>2
  <2>3. CASE i \in 1..Len(s)
    BY <1>1, <1>2, <2>1, <2>3 DEF ToSet
  <2>4. QED
    BY <1>1, <2>1, <2>2, <2>3
<1>4. ASSUME NEW x \in ToSet(s) \cup {e} PROVE x \in ToSet(Append(s, e))
  <2>1. CASE x = e
    BY <1>1, <1>2, <2>1 DEF ToSet
  <2>2. CASE x \in ToSet(s)
    <3>1. PICK i \in 1..Len(s) : x = s[i]
      BY <1>1, <2>2 DEF ToSet
    <3>2. QED
      BY <1>1, <1>2, <3>1 DEF ToSet
  <2>3. QED
    BY <1>4, <2>1, <2>2
<1>5. QED
  BY <1>3, <1>4

\* Appending an element that is not there yet repeats none.
LEMMA AppendKeepsDistinct ==
  ASSUME NEW S, NEW s \in Seq(S), NEW e \in S \ ToSet(s), IsInjective(s)
  PROVE  IsInjective(Append(s, e))
<1> SUFFICES ASSUME NEW i \in DOMAIN Append(s, e), NEW j \in DOMAIN Append(s, e),
                    Append(s, e)[i] = Append(s, e)[j]
             PROVE  i = j
  BY DEF IsInjective
<1>1. /\ DOMAIN s = 1..Len(s)
      /\ DOMAIN Append(s, e) = 1..(Len(s) + 1)
      /\ Len(s) \in Nat
  BY LenProperties, AppendProperties
<1>2. /\ Append(s, e)[Len(s) + 1] = e
      /\ \A k \in 1..Len(s) : Append(s, e)[k] = s[k] /\ s[k] /= e
  BY <1>1, AppendProperties DEF ToSet
<1>3. CASE i \in 1..Len(s) /\ j \in 1..Len(s)
  BY <1>1, <1>2, <1>3 DEF IsInjective
<1>4. CASE i = Len(s) + 1 \/ j = Len(s) + 1
  BY <1>1, <1>2, <1>4
<1>5. QED
  BY <1>1, <1>3, <1>4

\* The last capture of a history is in it.
LEMMA LastInToSet ==
  ASSUME NEW S, NEW s \in Seq(S), s /= <<>>
  PROVE  s[Len(s)] \in ToSet(s) /\ s[Len(s)] \in S
<1>1. Len(s) \in DOMAIN s
  BY LenProperties, EmptySeq
<1>2. QED
  BY <1>1, ElementOfSeq, LenProperties DEF ToSet

-----------------------------------------------------------------------------
(* The invariant.                                                          *)

\* A manifest is linked after its objects, on a committed parent, and with what
\* its capture contributed.
ManifestInv ==
  \A c \in Capture : manifests[c] /= None =>
    /\ manifests[c].files \subseteq objects
    /\ FactsOf[c] \subseteq manifests[c].files
    /\ manifests[c].parent = None \/ Committed(manifests[c].parent)

\* What the lock holder has done before it gets to its place.
HolderInv ==
  /\ pc \notin {"idle", "swap"} => ~Committed(job)
  /\ pc = "swap" => history /= <<>>
  /\ pc = "verify" => FactsOf[job] \subseteq wiki
  /\ pc \in {"objects", "manifest"} =>
       /\ manifests[job] = None
       /\ FactsOf[job] \subseteq snap
  /\ pc = "manifest" => snap \subseteq objects
  /\ pc \in {"add", "addManifest", "commit"} => manifests[job] /= None

\* A commit takes every object there is.
StagedInv ==
  pc \in {"addManifest", "commit"} => objects \subseteq headObjects \cup stagedObjects

IInv ==
  /\ TypeOK
  /\ ManifestInv
  /\ HolderInv
  /\ StagedInv
  /\ HistoryComplete

-----------------------------------------------------------------------------
(* The invariant is inductive.                                             *)

\* The initial state satisfies it.
LEMMA InitInv == Init => IInv
<1> SUFFICES ASSUME Init PROVE IInv
  OBVIOUS
<1>1. TypeOK
  BY StoreAssumption, EmptySeq DEF Init, TypeOK, Place
<1>2. ManifestInv /\ HolderInv /\ StagedInv
  BY DEF Init, ManifestInv, HolderInv, StagedInv
<1>3. HistoryComplete
  BY DEF Init, HistoryComplete, IsInjective
<1>4. QED
  BY <1>1, <1>2, <1>3 DEF IInv

\* A step that leaves the worktree and HEAD alone keeps the history complete.
LEMMA SameHistory ==
  ASSUME HistoryComplete, UNCHANGED <<manifests, headVars>>
  PROVE  HistoryComplete'
BY DEF HistoryComplete, headVars, IsInjective

\* What a process does outside the transaction, and the materialization.
LEMMA OutsideSteps ==
  ASSUME IInv,
         \/ \E c \in Capture : EnsureStore(c)
         \/ SwapOut
         \/ SwapIn
         \/ SwapInFails
         \/ Stop
  PROVE  IInv'
<1> USE StoreAssumption DEF IInv, TypeOK, Place, treeVars, indexVars, headVars
<1> USE DEF ManifestInv, HolderInv, StagedInv, Committed
<1>1. ASSUME NEW c \in Capture, EnsureStore(c) PROVE IInv'
  BY <1>1, SameHistory DEF EnsureStore
<1>2. CASE SwapOut
  BY <1>2, SameHistory DEF SwapOut, Goto
<1>3. CASE SwapIn
  <2>1. wiki' \in SUBSET Fact
    <3>1. history /= <<>>
      BY <1>3 DEF SwapIn
    <3>2. QED
      BY <1>3, <3>1, LastInToSet DEF SwapIn, LatestCapture, Manifest, HistoryComplete
  <2>2. QED
    BY <1>3, <2>1, SameHistory DEF SwapIn, Release
<1>4. CASE SwapInFails
  BY <1>4, SameHistory DEF SwapInFails, Release, OneMoreStop
<1>5. CASE Stop
  BY <1>5, SameHistory DEF Stop, Release, OneMoreStop
<1>6. QED
  BY <1>1, <1>2, <1>3, <1>4, <1>5

\* The transaction up to the creation of the objects.
LEMMA PrepareSteps ==
  ASSUME IInv,
         \/ \E c \in Capture : BeginCapture(c)
         \/ \E f \in Fact : LearnFact(f)
         \/ SemanticDone
         \/ Collect
         \/ VerifyFails
  PROVE  IInv'
<1> USE StoreAssumption
    DEF IInv, TypeOK, Place, treeVars, indexVars, headVars, lockVars
<1> USE DEF ManifestInv, HolderInv, StagedInv, Committed
<1>1. ASSUME NEW c \in Capture, BeginCapture(c) PROVE IInv'
  BY <1>1, SameHistory DEF BeginCapture
<1>2. ASSUME NEW f \in Fact, LearnFact(f) PROVE IInv'
  BY <1>2, SameHistory DEF LearnFact
<1>3. CASE SemanticDone
  BY <1>3, SameHistory DEF SemanticDone, Goto
<1>4. CASE Collect
  BY <1>4, SameHistory DEF Collect, Goto
<1>5. CASE VerifyFails
  BY <1>5, SameHistory DEF VerifyFails, Release
<1>6. QED
  BY <1>1, <1>2, <1>3, <1>4, <1>5

\* Creating files, one at a time, and staging them.
LEMMA CreateSteps ==
  ASSUME IInv,
         \/ WriteTmp
         \/ \E f \in Fact : LinkObject(f)
         \/ ObjectsDone
         \/ LinkFails
         \/ AddObjects
         \/ AddManifest
  PROVE  IInv'
<1> USE StoreAssumption DEF IInv, TypeOK, Place, treeVars, indexVars, headVars
<1> USE DEF ManifestInv, HolderInv, StagedInv, Committed
<1>1. CASE WriteTmp
  BY <1>1, SameHistory DEF WriteTmp
<1>2. ASSUME NEW f \in Fact, LinkObject(f) PROVE IInv'
  BY <1>2, SameHistory DEF LinkObject
<1>3. CASE ObjectsDone
  BY <1>3, SameHistory DEF ObjectsDone, Goto
<1>4. CASE LinkFails
  BY <1>4, SameHistory DEF LinkFails, Release
<1>5. CASE AddObjects
  BY <1>5, SameHistory DEF AddObjects, Goto
<1>6. CASE AddManifest
  BY <1>6, SameHistory DEF AddManifest, Goto
<1>7. QED
  BY <1>1, <1>2, <1>3, <1>4, <1>5, <1>6

\* The manifest of a capture without one.
LEMMA LinkManifestStep ==
  ASSUME IInv, LinkManifest
  PROVE  IInv'
<1> USE StoreAssumption DEF IInv, LinkManifest
<1>1. LatestCapture = None \/ (LatestCapture \in Capture /\ Committed(LatestCapture))
  BY LastInToSet DEF LatestCapture, Committed, TypeOK
<1>2. job \in Capture /\ manifests[job] = None /\ ~Committed(job)
  BY DEF TypeOK, HolderInv
<1> DEFINE m == [parent |-> LatestCapture, files |-> snap]
<1>3. m \in Manifest /\ m /= None
  BY <1>1 DEF TypeOK, Manifest
<1>4. /\ manifests' = [manifests EXCEPT ![job] = m]
      /\ manifests'[job] = m
      /\ \A c \in Capture \ {job} : manifests'[c] = manifests[c]
  BY <1>2 DEF TypeOK
<1>5. TypeOK'
  BY <1>2, <1>3, <1>4 DEF TypeOK, Goto, indexVars, headVars, Place
<1>6. ManifestInv'
  BY <1>1, <1>3, <1>4
     DEF ManifestInv, HolderInv, Committed, headVars, TypeOK
<1>7. HolderInv' /\ StagedInv'
  BY <1>2, <1>3, <1>4
     DEF HolderInv, StagedInv, Goto, Committed, headVars, TypeOK
<1>8. HistoryComplete'
  <2>1. \A i \in DOMAIN history : history[i] /= job /\ history[i] \in Capture
    BY <1>2 DEF Committed, ToSet, TypeOK
  <2>2. QED
    BY <1>4, <2>1 DEF HistoryComplete, headVars, IsInjective
<1>9. QED
  BY <1>5, <1>6, <1>7, <1>8

\* A commit appends a capture whose manifest, objects and parent are in HEAD.
LEMMA CommitStep ==
  ASSUME IInv, Commit
  PROVE  IInv'
<1> USE StoreAssumption DEF IInv
<1> USE DEF Commit, Release, treeVars
<1>1. job \in Capture /\ manifests[job] /= None /\ ~Committed(job)
  BY DEF TypeOK, HolderInv
<1>2. history' \in Seq(Capture) /\ ToSet(history') = ToSet(history) \cup {job}
  BY <1>1, ToSetAppend, AppendProperties DEF TypeOK
<1>3. TypeOK'
  BY <1>2 DEF TypeOK, Place
<1>4. ManifestInv' /\ HolderInv' /\ StagedInv'
  BY <1>2 DEF ManifestInv, HolderInv, StagedInv, Committed
<1>5. IsInjective(history')
  BY <1>1, AppendKeepsDistinct DEF HistoryComplete, TypeOK, Committed
<1>6. /\ Len(history) \in Nat
      /\ DOMAIN history = 1..Len(history)
      /\ DOMAIN history' = 1..(Len(history) + 1)
      /\ history'[Len(history) + 1] = job
      /\ \A i \in 1..Len(history) : history'[i] = history[i]
  BY <1>1, AppendProperties, LenProperties DEF TypeOK
<1>7. ASSUME NEW i \in DOMAIN history'
      PROVE  LET m == manifests'[history'[i]] IN
             /\ m /= None
             /\ m.files \subseteq headObjects'
             /\ \/ m.parent = None
                \/ \E j \in 1..(i - 1) : m.parent = history'[j]
  <2>1. CASE i \in 1..Len(history)
    BY <1>6, <2>1 DEF HistoryComplete
  <2>2. CASE i = Len(history) + 1
    <3>1. manifests[job].files \subseteq headObjects'
      BY <1>1 DEF ManifestInv, StagedInv
    <3>2. \/ manifests[job].parent = None
          \/ \E j \in 1..Len(history) : manifests[job].parent = history[j]
      BY <1>1, <1>6 DEF ManifestInv, Committed, ToSet
    <3>3. QED
      BY <1>1, <1>6, <2>2, <3>1, <3>2
  <2>3. QED
    BY <1>6, <1>7, <2>1, <2>2
<1>8. HistoryComplete'
  BY <1>5, <1>7 DEF HistoryComplete
<1>9. QED
  BY <1>3, <1>4, <1>8

\* Every step keeps the invariant.
LEMMA NextInv == IInv /\ [Next]_vars => IInv'
<1> SUFFICES ASSUME IInv, [Next]_vars PROVE IInv'
  OBVIOUS
<1>1. CASE Next
  BY <1>1, OutsideSteps, PrepareSteps, CreateSteps, LinkManifestStep, CommitStep
     DEF Next, HolderStep, Link
<1>2. CASE UNCHANGED vars
  BY <1>2, SameHistory
     DEF vars, treeVars, indexVars, headVars, lockVars, IInv, TypeOK,
         ManifestInv, HolderInv, StagedInv, Committed
<1>3. QED
  BY <1>1, <1>2

-----------------------------------------------------------------------------
(* Theorems.                                                               *)

\* The invariant holds in every reachable state, wedged stores included.
THEOREM Invariance == Spec => []IInv
<1>1. QED
  BY InitInv, NextInv, PTL DEF Spec

\* Every variable stays in its type; there is a capture in work exactly while
\* the lock is held for one.
THEOREM TypeCorrect == Spec => []TypeOK
BY Invariance, PTL DEF IInv

\* HEAD is self-contained after a stop at any place of any number of attempts:
\* the manifest, the objects and the parent of every committed capture are in it.
THEOREM HeadIsComplete == Spec => []HistoryComplete
BY Invariance, PTL DEF IInv

\* A committed revision holds all its own capture contributed, also when an
\* earlier attempt stopped half way and another process rewrote the wiki.
THEOREM RevisionHoldsItsOwn == Spec => []OwnKnowledge
<1>1. IInv => OwnKnowledge
  <2> SUFFICES ASSUME IInv, NEW c \in ToSet(history)
               PROVE  FactsOf[c] \subseteq manifests[c].files
    BY DEF OwnKnowledge
  <2>1. PICK i \in DOMAIN history : c = history[i]
    BY DEF ToSet
  <2>2. c \in Capture /\ manifests[c] /= None
    BY <2>1, ElementOfSeq, LenProperties DEF IInv, TypeOK, HistoryComplete
  <2>3. QED
    BY <2>2 DEF IInv, ManifestInv
<1>2. QED
  BY <1>1, Invariance, PTL

\* A manifest that exists is neither rewritten nor removed by any attempt.
THEOREM ManifestsStay == Spec => ManifestsImmutable
<1>1. ASSUME IInv, [Next]_vars
      PROVE  [\A c \in Capture :
                manifests[c] /= None => manifests'[c] = manifests[c]]_vars
  <2>1. CASE LinkManifest
    BY <1>1, <2>1 DEF IInv, TypeOK, HolderInv, LinkManifest
  <2>2. CASE Next /\ ~LinkManifest
    BY <2>2 DEF Next, EnsureStore, BeginCapture, LearnFact, HolderStep, Link,
                SwapOut, SwapIn, SwapInFails, Stop, SemanticDone, Collect,
                VerifyFails, WriteTmp, ObjectsDone, LinkFails, AddObjects,
                AddManifest, Commit, LinkObject, treeVars
  <2>3. QED
    BY <1>1, <2>1, <2>2
<1>2. QED
  BY <1>1, Invariance, PTL DEF Spec, ManifestsImmutable

-----------------------------------------------------------------------------
(* Holders that stop early.                                                *)

\* The holder stops nowhere after the manifest is linked.
EarlyStops == StopPoints \subseteq {"semantic", "verify", "objects", "manifest"}

\* What the latest revision holds.
HeadFiles ==
  IF history = <<>> THEN {} ELSE manifests[LatestCapture].files

\* A manifest without a commit belongs to the holder, who is about to make it.
PendingInv ==
  \A c \in Capture : manifests[c] /= None =>
    Committed(c) \/ (c = job /\ pc \in {"add", "addManifest", "commit"})

\* The wiki, or what the holder moved out of the way, has all that is at HEAD.
WikiInv ==
  /\ HeadFiles \subseteq (IF pc = "swap" THEN snap ELSE wiki)
  /\ pc \in {"objects", "manifest"} =>
       /\ HeadFiles \subseteq snap
       /\ snap \subseteq wiki
  /\ pc \in {"add", "addManifest", "commit"} =>
       /\ manifests[job].parent = LatestCapture
       /\ HeadFiles \subseteq manifests[job].files
       /\ manifests[job].files \subseteq wiki

OrderInv ==
  /\ IInv
  /\ PendingInv
  /\ WikiInv
  /\ NothingForgotten
  /\ LinearParents

-----------------------------------------------------------------------------
(* The invariant is inductive.                                             *)

\* The initial state satisfies it.
LEMMA InitOrder == Init => OrderInv
BY InitInv DEF Init, OrderInv, PendingInv, WikiInv, HeadFiles,
               NothingForgotten, LinearParents

\* A step that leaves manifests and HEAD alone changes nothing said of HEAD.
LEMMA SameHead ==
  ASSUME UNCHANGED <<manifests, headVars>>
  PROVE  /\ HeadFiles' = HeadFiles
         /\ LatestCapture' = LatestCapture
         /\ NothingForgotten => NothingForgotten'
         /\ LinearParents => LinearParents'
         /\ \A c : Committed(c)' <=> Committed(c)
BY DEF headVars, HeadFiles, LatestCapture, NothingForgotten, LinearParents,
       Committed

\* Every step but the linking of a manifest and the commit.
LEMMA QuietSteps ==
  ASSUME EarlyStops, OrderInv, [Next]_vars, ~LinkManifest, ~Commit
  PROVE  PendingInv' /\ WikiInv' /\ NothingForgotten' /\ LinearParents'
<1> USE DEF OrderInv, PendingInv, WikiInv, treeVars, indexVars
<1>1. ASSUME NEW c \in Capture, EnsureStore(c) \/ BeginCapture(c)
      PROVE  PendingInv' /\ WikiInv' /\ NothingForgotten' /\ LinearParents'
  BY <1>1, SameHead DEF EnsureStore, BeginCapture
<1>2. ASSUME NEW f \in Fact, LearnFact(f) \/ LinkObject(f)
      PROVE  PendingInv' /\ WikiInv' /\ NothingForgotten' /\ LinearParents'
  BY <1>2, SameHead DEF LearnFact, LinkObject, lockVars
<1>3. CASE SemanticDone \/ ObjectsDone \/ AddObjects \/ AddManifest
  BY <1>3, SameHead DEF SemanticDone, ObjectsDone, AddObjects, AddManifest, Goto,
                        headVars
<1>4. CASE Collect
  \* No manifest of an earlier attempt waits for its commit.
  <2>1. manifests[job] = None
    BY <1>4 DEF Collect, IInv, TypeOK, HolderInv
  <2>2. QED
    BY <1>4, <2>1, SameHead DEF Collect, Goto
<1>5. CASE VerifyFails \/ WriteTmp \/ LinkFails
  BY <1>5, SameHead DEF VerifyFails, WriteTmp, LinkFails, Release
<1>6. CASE SwapOut \/ SwapIn \/ SwapInFails
  BY <1>6, SameHead DEF SwapOut, SwapIn, SwapInFails, Goto, Release, HeadFiles, IInv,
                        HolderInv
<1>7. CASE Stop
  BY <1>7, SameHead DEF Stop, EarlyStops, Release
<1>8. CASE UNCHANGED vars
  BY <1>8, SameHead DEF vars, lockVars
<1>9. QED
  BY <1>1, <1>2, <1>3, <1>4, <1>5, <1>6, <1>7, <1>8 DEF Next, HolderStep, Link

\* The new manifest names the latest revision and holds what it holds.
LEMMA LinkManifestOrder ==
  ASSUME OrderInv, LinkManifest
  PROVE  PendingInv' /\ WikiInv' /\ NothingForgotten' /\ LinearParents'
<1> USE DEF OrderInv
<1>1. /\ job \in Capture /\ ~Committed(job)
      /\ pc = "manifest" /\ pc' = "add" /\ job' = job
      /\ UNCHANGED <<wiki, history>>
      /\ HeadFiles \subseteq snap /\ snap \subseteq wiki
  BY DEF LinkManifest, Goto, headVars, IInv, TypeOK, HolderInv, WikiInv
<1>2. /\ manifests'[job] = [parent |-> LatestCapture, files |-> snap]
      /\ \A c \in Capture \ {job} : manifests'[c] = manifests[c]
  BY <1>1 DEF LinkManifest, IInv, TypeOK
<1>3. \A i \in DOMAIN history :
        history[i] \in Capture /\ manifests'[history[i]] = manifests[history[i]]
  BY <1>1, <1>2, ElementOfSeq, LenProperties DEF Committed, ToSet, IInv, TypeOK
<1>4. NothingForgotten' /\ LinearParents'
  BY <1>1, <1>3 DEF NothingForgotten, LinearParents
<1>5. PendingInv'
  BY <1>1, <1>2 DEF PendingInv, Committed
<1>6. HeadFiles' = HeadFiles /\ LatestCapture' = LatestCapture
  <2>1. CASE history = <<>>
    BY <1>1, <2>1 DEF HeadFiles, LatestCapture
  <2>2. CASE history /= <<>>
    <3>1. Len(history) \in DOMAIN history
      BY <2>2, LenProperties, EmptySeq DEF IInv, TypeOK
    <3>2. QED
      BY <1>1, <1>3, <2>2, <3>1 DEF HeadFiles, LatestCapture
  <2>3. QED
    BY <2>1, <2>2
<1>7. WikiInv'
  BY <1>1, <1>2, <1>6 DEF WikiInv
<1>8. QED
  BY <1>4, <1>5, <1>7

\* What the log looks like after a commit.
LEMMA CommitAppends ==
  ASSUME IInv, Commit
  PROVE  /\ job \in Capture /\ ~Committed(job)
         /\ Len(history) \in Nat
         /\ DOMAIN history = 1..Len(history)
         /\ history' \in Seq(Capture)
         /\ Len(history') = Len(history) + 1
         /\ DOMAIN history' = 1..(Len(history) + 1)
         /\ history'[Len(history) + 1] = job
         /\ \A i \in 1..Len(history) : history'[i] = history[i]
         /\ ToSet(history') = ToSet(history) \cup {job}
         /\ UNCHANGED <<wiki, manifests>>
<1>1. job \in Capture /\ ~Committed(job)
  BY DEF Commit, IInv, TypeOK, HolderInv
<1>2. QED
  BY <1>1, ToSetAppend, AppendProperties, LenProperties
     DEF Commit, IInv, TypeOK, treeVars

\* Each revision holds no more than the latest one.
LEMMA LatestHoldsAll ==
  ASSUME IInv, NothingForgotten
  PROVE  \A i \in DOMAIN history :
           manifests[history[i]].files \subseteq HeadFiles
<1> SUFFICES ASSUME NEW i \in DOMAIN history
             PROVE  manifests[history[i]].files \subseteq HeadFiles
  OBVIOUS
<1>1. /\ Len(history) \in Nat
      /\ DOMAIN history = 1..Len(history)
      /\ history /= <<>>
  BY LenProperties, EmptySeq DEF IInv, TypeOK
<1>2. CASE i = Len(history)
  BY <1>1, <1>2 DEF HeadFiles, LatestCapture
<1>3. CASE i < Len(history)
  BY <1>1, <1>3 DEF HeadFiles, LatestCapture, NothingForgotten
<1>4. QED
  BY <1>1, <1>2, <1>3

\* The commit appends the revision its manifest was made for.
LEMMA CommitOrder ==
  ASSUME OrderInv, Commit
  PROVE  PendingInv' /\ WikiInv' /\ NothingForgotten' /\ LinearParents'
<1> USE CommitAppends DEF OrderInv
<1> DEFINE n == Len(history)
<1>1. /\ pc = "commit" /\ pc' = "idle"
      /\ manifests[job].parent = LatestCapture
      /\ HeadFiles \subseteq manifests[job].files
      /\ manifests[job].files \subseteq wiki
  BY DEF Commit, Release, WikiInv
<1>2. PendingInv'
  BY <1>1 DEF PendingInv, Committed
<1>3. HeadFiles' = manifests[job].files
  BY EmptySeq DEF HeadFiles, LatestCapture
<1>4. WikiInv'
  BY <1>1, <1>3 DEF WikiInv
<1>5. ASSUME NEW i \in 1..(n + 1), NEW j \in 1..(n + 1), i < j
      PROVE  manifests'[history'[i]].files \subseteq manifests'[history'[j]].files
  <2>1. CASE j = n + 1
    BY <1>1, <1>5, <2>1, LatestHoldsAll
  <2>2. CASE j \in 1..n
    BY <1>5, <2>2 DEF NothingForgotten
  <2>3. QED
    BY <2>1, <2>2
<1>6. ASSUME NEW i \in 1..(n + 1)
      PROVE  manifests'[history'[i]].parent
               = IF i = 1 THEN None ELSE history'[i - 1]
  <2>1. CASE i = n + 1
    BY <1>1, <2>1, EmptySeq DEF LatestCapture, IInv, TypeOK
  <2>2. CASE i \in 1..n
    BY <2>2 DEF LinearParents
  <2>3. QED
    BY <2>1, <2>2
<1>7. NothingForgotten' /\ LinearParents'
  BY <1>5, <1>6 DEF NothingForgotten, LinearParents
<1>8. QED
  BY <1>2, <1>4, <1>7

\* Every step keeps the invariant.
LEMMA NextOrder ==
  ASSUME EarlyStops
  PROVE  OrderInv /\ [Next]_vars => OrderInv'
<1> SUFFICES ASSUME OrderInv, [Next]_vars PROVE OrderInv'
  OBVIOUS
<1>1. IInv'
  BY NextInv DEF OrderInv
<1>2. QED
  BY <1>1, QuietSteps, LinkManifestOrder, CommitOrder DEF OrderInv

-----------------------------------------------------------------------------
(* Theorems.                                                               *)

\* The invariant holds in every reachable state of a store whose holders stop
\* early only.
THEOREM OrderInvariance ==
  ASSUME EarlyStops
  PROVE  Spec => []OrderInv
<1>1. OrderInv /\ [Next]_vars => OrderInv'
  BY NextOrder
<1>2. QED
  BY InitOrder, <1>1, PTL DEF Spec

\* The parent a manifest names is the revision it was committed on: attempts
\* that stopped before their manifest leave no gap and no fork.
THEOREM ParentsAreLinear ==
  ASSUME EarlyStops
  PROVE  Spec => []LinearParents
<1>1. OrderInv => LinearParents
  BY DEF OrderInv
<1>2. QED
  BY <1>1, OrderInvariance, PTL

\* A later revision holds all an earlier one held, however many retries and
\* materializations came between them.
THEOREM LaterRevisionsKeepAll ==
  ASSUME EarlyStops
  PROVE  Spec => []NothingForgotten
<1>1. OrderInv => NothingForgotten
  BY DEF OrderInv
<1>2. QED
  BY <1>1, OrderInvariance, PTL

-----------------------------------------------------------------------------
(* The history implements KnowledgeLog.                                    *)

\* The history read as a sequence of revisions.
Revisions ==
  [i \in DOMAIN history |->
     [id |-> history[i], files |-> manifests[history[i]].files]]

\* The initial state is one of KnowledgeLog.
LEMMA LogInit == Init => Abstract!Init
BY EmptySeq DEF Init, Abstract!Init

\* The files of a committed revision never change.
LEMMA SameRevisions ==
  ASSUME IInv, [Next]_vars, ~Commit
  PROVE  Revisions' = Revisions
<1>1. history' = history
  BY DEF Next, EnsureStore, BeginCapture, LearnFact, HolderStep, Link, SwapOut,
         SwapIn, SwapInFails, Stop, SemanticDone, Collect, VerifyFails, WriteTmp,
         ObjectsDone, LinkFails, AddObjects, AddManifest, LinkManifest,
         LinkObject, headVars, vars
<1>2. \A i \in DOMAIN history :
        history[i] \in Capture /\ manifests[history[i]] /= None
  BY ElementOfSeq, LenProperties DEF IInv, TypeOK, HistoryComplete
<1>3. \A c \in Capture : manifests[c] /= None => manifests'[c] = manifests[c]
  <2>1. CASE LinkManifest
    BY <2>1 DEF IInv, TypeOK, HolderInv, LinkManifest
  <2>2. CASE ~LinkManifest
    BY <2>2 DEF Next, EnsureStore, BeginCapture, LearnFact, HolderStep, Link,
                SwapOut, SwapIn, SwapInFails, Stop, SemanticDone, Collect,
                VerifyFails, WriteTmp, ObjectsDone, LinkFails, AddObjects,
                AddManifest, LinkObject, treeVars, vars
  <2>3. QED
    BY <2>1, <2>2
<1>4. QED
  BY <1>1, <1>2, <1>3 DEF Revisions

\* A commit publishes the revision of its capture.
LEMMA CommitPublishes ==
  ASSUME OrderInv, Commit
  PROVE  Abstract!Next
<1> USE CommitAppends DEF OrderInv
<1> DEFINE n == Len(history)
           r == [id |-> job, files |-> manifests[job].files]
<1>1. job \in Capture /\ manifests[job] \in Manifest /\ manifests[job] /= None
  BY DEF IInv, TypeOK, HolderInv, Commit
<1>2. /\ manifests[job].files \in SUBSET Fact
      /\ FactsOf[job] \subseteq manifests[job].files
      /\ HeadFiles \subseteq manifests[job].files
  BY <1>1 DEF Manifest, IInv, ManifestInv, WikiInv, Commit
<1>3. \A x \in ToSet(Revisions) : x.id /= job /\ x.files \subseteq manifests[job].files
  <2>1. ASSUME NEW i \in DOMAIN history
        PROVE  history[i] /= job /\ manifests[history[i]].files \subseteq manifests[job].files
    BY <1>2, LatestHoldsAll DEF Committed, ToSet
  <2>2. QED
    BY <2>1 DEF Revisions, ToSet
<1>4. Revisions' = Append(Revisions, r)
  <2>1. Revisions \in Seq([id : Capture, files : SUBSET Fact])
    <3>1. \A i \in 1..n : [id |-> history[i], files |-> manifests[history[i]].files]
                            \in [id : Capture, files : SUBSET Fact]
      BY ElementOfSeq DEF IInv, TypeOK, HistoryComplete, Manifest
    <3>2. QED
      BY <3>1, IsASeq DEF Revisions
  <2>2. r \in [id : Capture, files : SUBSET Fact]
    BY <1>2
  <2>3. Len(Revisions) = n
    BY <2>1, LenProperties DEF Revisions
  <2>4. /\ Append(Revisions, r) \in Seq([id : Capture, files : SUBSET Fact])
        /\ DOMAIN Append(Revisions, r) = 1..(n + 1)
        /\ Append(Revisions, r)[n + 1] = r
        /\ \A i \in 1..n : Append(Revisions, r)[i] = Revisions[i]
    BY <2>1, <2>2, <2>3, AppendProperties, LenProperties
  <2>5. DOMAIN Revisions' = 1..(n + 1) /\ Revisions' = [i \in 1..(n + 1) |-> Revisions'[i]]
    BY DEF Revisions
  <2>6. Append(Revisions, r) = [i \in 1..(n + 1) |-> Append(Revisions, r)[i]]
    BY <2>4, SeqDef
  <2>7. \A i \in 1..(n + 1) : Revisions'[i] = Append(Revisions, r)[i]
    BY <2>4 DEF Revisions
  <2>8. QED
    BY <2>5, <2>6, <2>7
<1>5. PICK files \in SUBSET Fact : files = manifests[job].files
  BY <1>2
<1>6. Abstract!Publish(job, files)
  BY <1>2, <1>3, <1>4, <1>5 DEF Abstract!Publish, Revisions, ToSet, Abstract!ToSet
<1>7. QED
  BY <1>1, <1>6 DEF Abstract!Next

\* Read as a sequence of revisions, the history of a store whose holders stop
\* early only is a KnowledgeLog: each commit publishes one revision that keeps
\* the earlier ones, and no other step touches a published one.
THEOREM HistoryIsKnowledgeLog ==
  ASSUME EarlyStops
  PROVE  Spec => ImplementsKnowledgeLog
<1>1. ASSUME OrderInv, [Next]_vars
      PROVE  [Abstract!Next]_Revisions
  BY <1>1, SameRevisions, CommitPublishes DEF OrderInv
<1>2. OrderInv /\ [Next]_vars => [Abstract!Next]_Revisions
  BY <1>1
<1>3. QED
  BY LogInit, OrderInvariance, <1>2, PTL
     DEF Spec, ImplementsKnowledgeLog, Abstract!Spec, Revisions
=============================================================================
