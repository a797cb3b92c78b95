---------------------------- MODULE Daemons_proofs ----------------------------
(***************************************************************************)
(* Proofs about the two daemons and the log all processes write to.        *)
(* IndexDaemon, for any documents, guides, captures, changes and failures: *)
(* who holds the index lock as long as no two looks at it crossed          *)
(* (LockInv), and where the paths are that the index does not hold as they *)
(* are on disk (CurrentInv).  WarmPool, for any servers, clients and       *)
(* sizes: what the pool counts as starting is what its refill tasks        *)
(* reserved (the sum over the sizes is proved by induction), and a second  *)
(* server listens only after a socket was usurped.  EventLog, for any      *)
(* writers, kills, sizes and any of the followers: what a follower was     *)
(* shown is before the place it has read to (PastInv), so that no event is *)
(* shown twice until a rotation crosses a poll, and what it has read was   *)
(* shown or is half a line (ReadIsShown).                                  *)
(***************************************************************************)
EXTENDS IndexDaemon, WarmPool, EventLog, NumberLemmas, FiniteSetTheorems, SequenceTheorems, TLAPS

\* A capture indexes guides, under paths of its own.
MaintenanceInv ==
  \A i \in Capture :
    /\ todo[i] \subseteq Guide
    /\ \A h \in held[i] : h.key.by /= Daemon

Passing(i) == phase[i] \in {"list", "index"}

\* Until two looks cross, an indexer in its pass is named in the lock file, and
\* whoever is about to rename a file over it looked before it did.
LockInv ==
  raced \/ \A i \in Indexer : Passing(i) =>
             /\ lock = i
             /\ \A j \in Indexer \ {i} : phase[j] \in {"tmp", "rename"} => j \in behind

\* The daemon's pass is over when it does not work on one.
PassInv ==
  phase[Daemon] \notin {"index", "resync", "update"} =>
    todo[Daemon] = {} /\ held[Daemon] = {}

\* A change of the path waits to be noticed, or was not to be seen.
Noticed(f) == KeyOf(Daemon, f) \in missed \cup events \cup pending

\* It is as it is on disk: in what is being embedded to replace the rows, or in
\* the rows.
Current(f) ==
  \/ \E h \in held[Daemon] : h.key = KeyOf(Daemon, f) /\ h.content = disk[f]
  \/ /\ \A h \in held[Daemon] : h.key /= KeyOf(Daemon, f)
     /\ rows[KeyOf(Daemon, f)] = IF disk[f] = Absent THEN Blank ELSE disk[f]

\* Every file is noticed, or waits in the daemon's pass, or is as it is on disk.
CurrentInv ==
  \A f \in Document : Noticed(f) \/ f \in todo[Daemon] \/ Current(f)

\* A listed file that is gone when a full pass comes to it is noticed: such a
\* pass leaves its rows alone.
GoneInv ==
  phase[Daemon] \in {"index", "resync"} =>
    \A f \in todo[Daemon] : disk[f] = Absent => Noticed(f)

IndexInv ==
  /\ IndexTypeOK
  /\ MaintenanceInv
  /\ LockInv
  /\ PassInv
  /\ CurrentInv
  /\ GoneInv
-----------------------------------------------------------------------------
(* The invariant is inductive.                                             *)

\* The paths of the repository are the daemon's, a capture has others.
LEMMA Paths ==
  /\ \A f \in Document : /\ KeyOf(Daemon, f) \in RowKey
                         /\ KeyOf(Daemon, f) \in Followed(Document)
                         /\ KeyOf(Daemon, f).file = f
                         /\ KeyOf(Daemon, f).by = Daemon
  /\ \A f, g \in Document : KeyOf(Daemon, f) = KeyOf(Daemon, g) => f = g
  /\ \A i \in Capture, f \in Guide :
       KeyOf(i, f) \in RowKey /\ KeyOf(i, f).by /= Daemon
  /\ Followed(Document) \subseteq RowKey
  /\ Followed(Guide) \subseteq Followed(Document)
  /\ Daemon \in Indexer /\ Daemon \notin Capture /\ NoIndexer \notin Indexer
BY IndexAssumption DEF KeyOf, RowKey, Followed, Document, Indexer, Daemon, NoIndexer

\* What a file can hold.
LEMMA Contents ==
  /\ 1 \in Content \ {Absent, Blank}
  /\ Blank \in Content \ {Absent}
  /\ Absent \in Content
  /\ \A n \in 0..MaxChanges : n < MaxChanges => n + 2 \in Content \ {Absent, Blank}
BY IndexAssumption DEF Content, Absent, Blank

\* The initial state satisfies it.
LEMMA InitIndex == IndexInit => IndexInv
<1> SUFFICES ASSUME IndexInit PROVE IndexInv
  OBVIOUS
<1> USE IndexAssumption, Paths DEF IndexInit
<1>1. IndexTypeOK
  <2>1. changes \in 0..MaxChanges /\ failures \in 0..MaxFailures
    OBVIOUS
  <2>2. disk \in [Document -> Content] /\ rows \in [RowKey -> Content \ {Absent}]
    BY Contents
  <2>3. QED
    BY <2>1, <2>2 DEF IndexTypeOK, Phase
<1>2. MaintenanceInv /\ LockInv /\ PassInv
  BY DEF MaintenanceInv, LockInv, Passing, PassInv, Indexer
<1>3. CurrentInv /\ GoneInv
  BY DEF CurrentInv, GoneInv, Noticed, Current, Followed
<1>4. QED
  BY <1>1, <1>2, <1>3 DEF IndexInv

\* The variables keep their types.
LEMMA IndexTypeSteps ==
  ASSUME IndexTypeOK, MaintenanceInv, [IndexNext]_indexVars
  PROVE  IndexTypeOK'
<1> USE IndexAssumption, Paths
    DEF IndexTypeOK, Phase, Enter, lockVars, limitVars, watchVars, Locking
<1>1. ASSUME NEW i \in Indexer,
             Start(i) \/ Look(i) \/ WriteTmp(i) \/ Rename(i) \/ EndPass(i)
      PROVE  IndexTypeOK'
  BY <1>1 DEF Start, Look, WriteTmp, Rename, EndPass, Given
<1>2. ASSUME NEW i \in Indexer, List(i) PROVE IndexTypeOK'
  <2>1. todo' \in [Indexer -> SUBSET Document]
    BY <1>2 DEF List, Document
  <2>2. rows' \in [RowKey -> Content \ {Absent}]
    BY <1>2, Contents DEF List
  <2>3. missed' \subseteq RowKey
    BY <1>2 DEF List
  <2>4. QED
    BY <1>2, <2>1, <2>2, <2>3 DEF List
<1>3. ASSUME NEW i \in Indexer, IndexFile(i) PROVE IndexTypeOK'
  <2>1. PICK f \in todo[i] : Read(i, f) /\ todo' = [todo EXCEPT ![i] = @ \ {f}]
    BY <1>3 DEF IndexFile
  <2>2. f \in Document /\ KeyOf(i, f) \in RowKey
    BY <2>1 DEF MaintenanceInv, Indexer
  <2>3. rows' \in [RowKey -> Content \ {Absent}] /\ missed' \subseteq RowKey
    BY <2>1, <2>2, Contents DEF Read
  <2>4. /\ held' \in [Indexer -> SUBSET [key : RowKey, content : Content \ {Absent, Blank}]]
        /\ \A j \in Indexer : \A g, h \in held'[j] : g = h
    BY <1>3, <2>1, <2>2 DEF Read, IndexFile
  <2>5. QED
    BY <1>3, <2>1, <2>3, <2>4 DEF IndexFile
<1>4. ASSUME NEW i \in Indexer, Replace(i) PROVE IndexTypeOK'
  <2>1. PICK h \in held[i] : rows' = [rows EXCEPT ![h.key] = h.content]
    BY <1>4 DEF Replace
  <2>2. h.key \in RowKey /\ h.content \in Content \ {Absent}
    BY <2>1
  <2>3. QED
    BY <1>4, <2>1, <2>2 DEF Replace
<1>5. ASSUME NEW i \in Indexer, EmbedFails(i) PROVE IndexTypeOK'
  BY <1>5 DEF EmbedFails
<1>6. ASSUME NEW i \in Indexer, KillIndexer(i) PROVE IndexTypeOK'
  <2>1. missed' \subseteq RowKey
    BY <1>6 DEF KillIndexer, Followed
  <2>2. /\ phase' \in [Indexer -> Phase]
        /\ todo' \in [Indexer -> SUBSET Document]
        /\ failures' \in 0..MaxFailures
    BY <1>6 DEF KillIndexer, Given
  <2>3. /\ held' \in [Indexer -> SUBSET [key : RowKey, content : Content \ {Absent, Blank}]]
        /\ \A j \in Indexer : \A g, h \in held'[j] : g = h
    BY <1>6 DEF KillIndexer
  <2>4. /\ attached' \in BOOLEAN
        /\ events' \subseteq Followed(Document) /\ pending' \subseteq Followed(Document)
    BY <1>6 DEF KillIndexer
  <2>5. UNCHANGED <<disk, rows, lock, tmp, behind, raced, changes>>
    BY <1>6 DEF KillIndexer
  <2>6. QED
    BY <2>1, <2>2, <2>3, <2>4, <2>5
<1>7. CASE Quiet
  <2>1. todo' \in [Indexer -> SUBSET Document]
    BY <1>7 DEF Quiet, Followed
  <2>2. QED
    BY <1>7, <2>1 DEF Quiet
<1>8. CASE Watch \/ Receive \/ EndUpdate \/ Retire
  BY <1>8 DEF Watch, Receive, EndUpdate, Retire
<1>9. ASSUME NEW f \in Document, Change(f) PROVE IndexTypeOK'
  <2>1. changes' \in 0..MaxChanges /\ disk' \in [Document -> Content]
    BY <1>9, Contents DEF Change
  <2>2. QED
    BY <1>9, <2>1 DEF Change
<1>10. ASSUME NEW own \in BOOLEAN, Swap(own) PROVE IndexTypeOK'
  <2>1. changes' \in 0..MaxChanges /\ disk' \in [Document -> Content]
    BY <1>10, Contents DEF Swap
  <2>2. missed' \subseteq RowKey /\ attached' \in BOOLEAN
    BY <1>10 DEF Swap
  <2>3. QED
    BY <1>10, <2>1, <2>2 DEF Swap
<1>11. CASE UNCHANGED indexVars
  BY <1>11 DEF indexVars
<1>12. QED
  BY <1>1, <1>2, <1>3, <1>4, <1>5, <1>6, <1>7, <1>8, <1>9, <1>10, <1>11 DEF IndexNext

\* A capture goes on indexing guides only, and the daemon's pass ends empty.
LEMMA PassSteps ==
  ASSUME IndexTypeOK, MaintenanceInv, PassInv, [IndexNext]_indexVars
  PROVE  MaintenanceInv' /\ PassInv'
<1> USE IndexAssumption, Paths
    DEF IndexTypeOK, MaintenanceInv, PassInv, Enter, lockVars, limitVars, watchVars, Locking
<1>1. ASSUME NEW i \in Indexer,
             Start(i) \/ Look(i) \/ WriteTmp(i) \/ Rename(i) \/ EndPass(i)
      PROVE  MaintenanceInv' /\ PassInv'
  BY <1>1 DEF Start, Look, WriteTmp, Rename, EndPass, Given
<1>2. ASSUME NEW i \in Indexer, List(i) PROVE MaintenanceInv' /\ PassInv'
  BY <1>2 DEF List
<1>3. ASSUME NEW i \in Indexer, IndexFile(i) PROVE MaintenanceInv' /\ PassInv'
  BY <1>3 DEF IndexFile, Read
<1>4. ASSUME NEW i \in Indexer, Replace(i) PROVE MaintenanceInv' /\ PassInv'
  BY <1>4 DEF Replace
<1>5. ASSUME NEW i \in Indexer, EmbedFails(i) PROVE MaintenanceInv' /\ PassInv'
  BY <1>5 DEF EmbedFails
<1>6. ASSUME NEW i \in Indexer, KillIndexer(i) PROVE MaintenanceInv' /\ PassInv'
  BY <1>6 DEF KillIndexer, Given
<1>7. CASE Quiet
  <2>1. \A i \in Capture : todo'[i] = todo[i]
    BY <1>7 DEF Quiet
  <2>2. QED
    BY <1>7, <2>1 DEF Quiet
<1>8. CASE Watch \/ Receive \/ EndUpdate \/ Retire
  BY <1>8 DEF Watch, Receive, EndUpdate, Retire
<1>9. ASSUME NEW f \in Document, Change(f) PROVE MaintenanceInv' /\ PassInv'
  BY <1>9 DEF Change
<1>10. ASSUME NEW own \in BOOLEAN, Swap(own) PROVE MaintenanceInv' /\ PassInv'
  BY <1>10 DEF Swap
<1>11. CASE UNCHANGED indexVars
  BY <1>11 DEF indexVars
<1>12. QED
  BY <1>1, <1>2, <1>3, <1>4, <1>5, <1>6, <1>7, <1>8, <1>9, <1>10, <1>11 DEF IndexNext

\* A look ends an indexer, or finds nobody in a pass; a rename that follows it
\* closely enough finds nobody either.
LEMMA LockSteps ==
  ASSUME IndexTypeOK, LockInv, [IndexNext]_indexVars
  PROVE  LockInv'
<1> USE IndexAssumption, Paths
    DEF IndexTypeOK, LockInv, Passing, Enter, lockVars, limitVars, watchVars, Locking
<1>1. ASSUME NEW i \in Indexer, Start(i) \/ WriteTmp(i) \/ EndPass(i)
      PROVE  LockInv'
  BY <1>1 DEF Start, WriteTmp, EndPass
<1>2. ASSUME NEW i \in Indexer, Look(i) PROVE LockInv'
  BY <1>2 DEF Look, Alive, Given
<1>3. ASSUME NEW i \in Indexer, Rename(i) PROVE LockInv'
  <2>1. CASE tmp = NoIndexer
    BY <1>3, <2>1 DEF Rename, Given
  <2>2. CASE tmp /= NoIndexer
    <3>1. raced' \/ (~raced /\ i \notin behind /\ tmp = i)
      BY <1>3, <2>2 DEF Rename
    \* Nobody is in a pass, or i would be behind.
    <3>2. raced' \/ \A j \in Indexer : ~Passing(j)
      BY <1>3, <3>1 DEF Rename
    <3>3. QED
      BY <1>3, <2>2, <3>1, <3>2 DEF Rename
  <2>3. QED
    BY <2>1, <2>2
<1>4. ASSUME NEW i \in Indexer, List(i) PROVE LockInv'
  BY <1>4 DEF List
<1>5. ASSUME NEW i \in Indexer, IndexFile(i) \/ Replace(i) \/ EmbedFails(i) PROVE LockInv'
  BY <1>5 DEF IndexFile, Replace, EmbedFails
<1>6. ASSUME NEW i \in Indexer, KillIndexer(i) PROVE LockInv'
  BY <1>6 DEF KillIndexer, Given
<1>7. CASE Watch \/ Receive \/ Quiet \/ EndUpdate \/ Retire
  BY <1>7 DEF Watch, Receive, Quiet, EndUpdate, Retire
<1>8. ASSUME NEW f \in Document, Change(f) PROVE LockInv'
  BY <1>8 DEF Change
<1>9. ASSUME NEW own \in BOOLEAN, Swap(own) PROVE LockInv'
  BY <1>9 DEF Swap
<1>10. CASE UNCHANGED indexVars
  BY <1>10 DEF indexVars
<1>11. QED
  BY <1>1, <1>2, <1>3, <1>4, <1>5, <1>6, <1>7, <1>8, <1>9, <1>10 DEF IndexNext

\* What an indexer does to the index, the daemon's as well as a capture's.
LEMMA IndexerKeepsCurrent ==
  ASSUME IndexTypeOK, MaintenanceInv, PassInv, CurrentInv, GoneInv,
         NEW i \in Indexer,
         List(i) \/ IndexFile(i) \/ Replace(i) \/ EmbedFails(i) \/ KillIndexer(i)
  PROVE  CurrentInv' /\ GoneInv'
<1> USE IndexAssumption, Paths DEF Enter, lockVars, limitVars, watchVars
<1>1. CASE i \in Capture
  <2>1. UNCHANGED <<disk, events, pending>> /\ phase'[Daemon] = phase[Daemon]
    BY <1>1 DEF List, IndexFile, Read, Replace, EmbedFails, KillIndexer, IndexTypeOK
  <2>2. todo'[Daemon] = todo[Daemon] /\ held'[Daemon] = held[Daemon]
    BY <1>1 DEF List, IndexFile, Read, Replace, EmbedFails, KillIndexer, IndexTypeOK
  <2>3. \A f \in Document :
          /\ rows'[KeyOf(Daemon, f)] = rows[KeyOf(Daemon, f)]
          /\ KeyOf(Daemon, f) \in missed => KeyOf(Daemon, f) \in missed'
    BY <1>1 DEF List, IndexFile, Read, Replace, EmbedFails, KillIndexer, IndexTypeOK,
                MaintenanceInv
  <2>4. QED
    <3>1. \A f \in Document : Noticed(f) => Noticed(f)'
      BY <2>1, <2>3 DEF Noticed, KeyOf
    <3>2. \A f \in Document : KeyOf(Daemon, f)' = KeyOf(Daemon, f)
      BY DEF KeyOf
    <3>3. CurrentInv'
      BY <2>1, <2>2, <2>3, <3>1, <3>2 DEF CurrentInv, Current
    <3>4. GoneInv'
      BY <2>1, <2>2, <3>1 DEF GoneInv, IndexTypeOK
    <3>5. QED
      BY <3>3, <3>4
<1>2. CASE i = Daemon /\ List(i)
  <2>1. CurrentInv'
    <3> DEFINE gone == {k \in RowKey : k.by /= Daemon \/ disk[k.file] = Absent}
    <3>1. /\ held'[Daemon] = {} /\ UNCHANGED <<disk, events, pending>>
          /\ todo'[Daemon] = {f \in Document : disk[f] /= Absent}
          /\ rows' = [k \in RowKey |-> IF k \in gone THEN Blank ELSE rows[k]]
      BY <1>2 DEF List, IndexTypeOK, PassInv
    <3>2. \A f \in Document : disk[f] = Absent => rows'[KeyOf(Daemon, f)] = Blank
      BY <3>1
    <3>3. QED
      BY <3>1, <3>2 DEF CurrentInv, Current
  <2>2. GoneInv'
    BY <1>2 DEF List, IndexTypeOK, GoneInv
  <2>3. QED
    BY <2>1, <2>2
<1>3. CASE i = Daemon /\ IndexFile(i)
  <2>1. PICK f \in todo[Daemon] : Read(Daemon, f) /\ todo' = [todo EXCEPT ![Daemon] = @ \ {f}]
    BY <1>3 DEF IndexFile
  <2>2. /\ f \in Document /\ held[Daemon] = {}
        /\ UNCHANGED <<disk, events, pending, phase>>
        /\ todo'[Daemon] = todo[Daemon] \ {f}
        /\ phase[Daemon] \in {"index", "resync", "update"}
    BY <1>3, <2>1 DEF IndexFile, IndexTypeOK
  \* What is said of another file stays true of it.
  <2>3. \A g \in Document \ {f} :
          /\ KeyOf(Daemon, g) \in missed' <=> KeyOf(Daemon, g) \in missed
          /\ rows'[KeyOf(Daemon, g)] = rows[KeyOf(Daemon, g)]
          /\ \A h \in held'[Daemon] : h.key /= KeyOf(Daemon, g)
    BY <2>1, <2>2 DEF Read, IndexTypeOK
  <2>4. \A g \in Document \ {f} : Noticed(g) => Noticed(g)'
    BY <2>2, <2>3 DEF Noticed, KeyOf
  <2>5. CASE disk[f] = Absent /\ phase[Daemon] /= "update"
    \* It is passed over, and noticed already.
    <3>1. Noticed(f) /\ missed' = missed
      BY <2>1, <2>2, <2>5 DEF GoneInv, Read
    <3>2. QED
      BY <2>2, <2>3, <3>1 DEF CurrentInv, GoneInv, Noticed, Current
  <2>6. CASE disk[f] = Blank \/ (disk[f] = Absent /\ phase[Daemon] = "update")
    <3>1. rows'[KeyOf(Daemon, f)] = Blank /\ held'[Daemon] = {}
      BY <2>1, <2>2, <2>6 DEF Read, IndexTypeOK
    <3>2. CurrentInv'
      <4> SUFFICES ASSUME NEW g \in Document
                   PROVE  (Noticed(g) \/ g \in todo[Daemon] \/ Current(g))'
        BY DEF CurrentInv
      <4>1. CASE g = f
        BY <2>2, <2>6, <3>1, <4>1 DEF Current, KeyOf
      <4>2. CASE g /= f
        BY <2>2, <2>3, <4>2 DEF CurrentInv, Current, Noticed, KeyOf
      <4>3. QED
        BY <4>1, <4>2
    <3>3. GoneInv'
      BY <2>2, <2>4 DEF GoneInv, IndexTypeOK
    <3>4. QED
      BY <3>2, <3>3
  <2>7. CASE disk[f] \notin {Absent, Blank}
    <3>1. rows' = rows
      BY <2>1, <2>7 DEF Read
    <3>2. \/ held'[Daemon] = {} /\ disk[f] = rows[KeyOf(Daemon, f)]
          \/ held'[Daemon] = {[key |-> KeyOf(Daemon, f), content |-> disk[f]]}
      BY <2>1, <2>2, <2>7 DEF Read, IndexTypeOK
    <3>3. CurrentInv'
      <4> SUFFICES ASSUME NEW g \in Document
                   PROVE  (Noticed(g) \/ g \in todo[Daemon] \/ Current(g))'
        BY DEF CurrentInv
      <4>1. CASE g = f
        <5>1. CASE held'[Daemon] = {} /\ disk[f] = rows[KeyOf(Daemon, f)]
          BY <2>2, <2>7, <3>1, <4>1, <5>1 DEF Current, KeyOf
        <5>2. CASE held'[Daemon] = {[key |-> KeyOf(Daemon, f), content |-> disk[f]]}
          BY <2>2, <4>1, <5>2 DEF Current, KeyOf
        <5>3. QED
          BY <3>2, <5>1, <5>2
      <4>2. CASE g /= f
        BY <2>2, <2>3, <4>2 DEF CurrentInv, Current, Noticed, KeyOf
      <4>3. QED
        BY <4>1, <4>2
    <3>4. GoneInv'
      BY <2>2, <2>4 DEF GoneInv, IndexTypeOK
    <3>5. QED
      BY <3>3, <3>4
  <2>8. QED
    BY <2>5, <2>6, <2>7
<1>4. CASE i = Daemon /\ (Replace(i) \/ EmbedFails(i))
  BY <1>4 DEF Replace, EmbedFails, IndexTypeOK, CurrentInv, GoneInv, Noticed, Current
<1>5. CASE i = Daemon /\ KillIndexer(i)
  BY <1>5 DEF KillIndexer, Given, IndexTypeOK, CurrentInv, GoneInv, Noticed, Current, Followed
<1>6. QED
  BY <1>1, <1>2, <1>3, <1>4, <1>5 DEF Indexer

\* Changes on disk, what the watcher makes of them, and the index lock.
LEMMA OthersKeepCurrent ==
  ASSUME IndexTypeOK, MaintenanceInv, PassInv, CurrentInv, GoneInv,
         \/ \E i \in Indexer :
              Start(i) \/ Look(i) \/ WriteTmp(i) \/ Rename(i) \/ EndPass(i)
         \/ Watch \/ Receive \/ Quiet \/ EndUpdate \/ Retire
         \/ \E f \in Document : Change(f)
         \/ \E own \in BOOLEAN : Swap(own)
         \/ UNCHANGED indexVars
  PROVE  CurrentInv' /\ GoneInv'
<1> USE IndexAssumption, Paths
    DEF IndexTypeOK, Enter, lockVars, limitVars, watchVars, Locking, CurrentInv, GoneInv, Noticed, Current
<1>1. ASSUME NEW i \in Indexer,
             Start(i) \/ Look(i) \/ WriteTmp(i) \/ Rename(i) \/ EndPass(i)
      PROVE  CurrentInv' /\ GoneInv'
  BY <1>1 DEF Start, Look, WriteTmp, Rename, EndPass, Given
<1>2. CASE Watch \/ Receive \/ EndUpdate \/ Retire
  BY <1>2 DEF Watch, Receive, EndUpdate, Retire
<1>3. CASE Quiet
  BY <1>3 DEF Quiet, PassInv
<1>4. ASSUME NEW f \in Document, Change(f) PROVE CurrentInv' /\ GoneInv'
  BY <1>4 DEF Change
<1>5. ASSUME NEW own \in BOOLEAN, Swap(own) PROVE CurrentInv' /\ GoneInv'
  BY <1>5 DEF Swap, PassInv, Followed
<1>6. CASE UNCHANGED indexVars
  BY <1>6 DEF indexVars
<1>7. QED
  BY <1>1, <1>2, <1>3, <1>4, <1>5, <1>6

\* Every step keeps the invariant.
LEMMA NextIndex == IndexInv /\ [IndexNext]_indexVars => IndexInv'
<1> SUFFICES ASSUME IndexInv, [IndexNext]_indexVars PROVE IndexInv'
  OBVIOUS
<1>1. CurrentInv' /\ GoneInv'
  BY IndexerKeepsCurrent, OthersKeepCurrent DEF IndexInv, IndexNext
<1>2. QED
  BY <1>1, IndexTypeSteps, PassSteps, LockSteps DEF IndexInv

-----------------------------------------------------------------------------
(* Theorems.                                                               *)

\* The invariant holds in every reachable state.
THEOREM IndexInvariance == IndexSpec => []IndexInv
BY InitIndex, NextIndex, PTL DEF IndexSpec

\* Two passes overlap only after two looks at the lock file crossed, and a
\* quiet daemon's index is what the disk holds, but for the paths it had no
\* chance to see.
THEOREM IndexIsSafe == IndexSpec => []IndexSafe
<1>1. IndexInv => OneIndexerUnlessRaced
  BY DEF IndexInv, LockInv, Passing, OneIndexerUnlessRaced
<1>2. IndexInv => QuietIsCurrent
  BY DEF IndexInv, PassInv, CurrentInv, Noticed, Current, QuietIsCurrent
<1>3. QED
  BY <1>1, <1>2, IndexInvariance, PTL DEF IndexSafe

-----------------------------------------------------------------------------
(* WarmPool.                                                               *)

\* What is at the path was bound by a server that listens or is dead.
SocketInv == socket /= NoServer => server[socket] \in {"up", "dead"}

\* Unless a socket was usurped, who listens listens at the path.
AtPathInv == usurped \/ \A s \in Server : server[s] = "up" => socket = s

PoolInv == PoolTypeOK /\ PoolAccounted /\ SocketInv /\ AtPathInv

-----------------------------------------------------------------------------
(* WarmPool: the sum of the reservations.                                  *)

\* The partial sums of the recursive definition of Children, up to k.
SumsUpTo(g, tasks, k) ==
  g = [n \in 0..k |-> IF n = 0 THEN 0 ELSE g[n - 1] + n * tasks[n]]

\* They exist, so that the definition defines.
LEMMA SumsExist ==
  ASSUME NEW tasks, PoolSize \in Nat
  PROVE  \E g : SumsUpTo(g, tasks, PoolSize)
<1> DEFINE T == {k \in Nat : \E g : SumsUpTo(g, tasks, k)}
<1>1. 0 \in T
  <2> DEFINE g == [n \in 0..0 |-> 0]
  <2>1. g = [n \in 0..0 |-> IF n = 0 THEN 0 ELSE g[n - 1] + n * tasks[n]]
    OBVIOUS
  <2> QED
    BY <2>1 DEF SumsUpTo
<1>2. ASSUME NEW k \in Nat, k \in T PROVE k + 1 \in T
  <2>1. PICK g : g = [n \in 0..k |-> IF n = 0 THEN 0 ELSE g[n - 1] + n * tasks[n]]
    BY <1>2 DEF SumsUpTo
  <2> DEFINE h == [n \in 0..(k + 1) |-> IF n = k + 1 THEN g[k] + (k + 1) * tasks[k + 1] ELSE g[n]]
  <2>2. ASSUME NEW n \in 0..(k + 1)
        PROVE  h[n] = IF n = 0 THEN 0 ELSE h[n - 1] + n * tasks[n]
    <3>1. CASE n = k + 1
      <4>1. k \in 0..(k + 1) /\ n - 1 = k /\ n # 0
        BY <3>1
      <4>2. h[k] = g[k]
        BY <4>1
      <4>3. h[n] = g[k] + (k + 1) * tasks[k + 1]
        BY <3>1
      <4> HIDE DEF h
      <4> QED
        BY <4>1, <4>2, <4>3, <3>1
    <3>2. CASE n # k + 1
      <4>1. n \in 0..k /\ h[n] = g[n]
        BY <3>2
      <4>2. g[n] = IF n = 0 THEN 0 ELSE g[n - 1] + n * tasks[n]
        BY <2>1, <4>1
      <4>3. n # 0 => h[n - 1] = g[n - 1]
        BY <3>2
      <4> HIDE DEF h
      <4> QED
        BY <4>1, <4>2, <4>3
    <3> QED
      BY <3>1, <3>2
  <2>3. h = [n \in 0..(k + 1) |-> IF n = 0 THEN 0 ELSE h[n - 1] + n * tasks[n]]
    BY <2>2
  <2> HIDE DEF h
  <2> QED
    BY <2>3 DEF SumsUpTo
<1>3. Nat \subseteq T
  <2> HIDE DEF T
  <2> QED
    BY <1>1, <1>2, NumbersOf
<1> QED
  BY <1>3

\* Children(tasks) is the last of the partial sums.
LEMMA ChildrenSum ==
  ASSUME NEW tasks, PoolSize \in Nat
  PROVE  \E g : /\ g[0] = 0 /\ \A n \in 1..PoolSize : g[n] = g[n - 1] + n * tasks[n]
                /\ Children(tasks) = g[PoolSize]
<1> DEFINE g == CHOOSE h : SumsUpTo(h, tasks, PoolSize)
<1>1. SumsUpTo(g, tasks, PoolSize)
  BY SumsExist
<1>2. Children(tasks) = g[PoolSize]
  BY DEF Children, SumsUpTo
<1> HIDE DEF g
<1>3. g[0] = 0 /\ \A n \in 1..PoolSize : g[n] = g[n - 1] + n * tasks[n]
  BY <1>1 DEF SumsUpTo
<1> QED
  BY <1>2, <1>3

\* The sum is a number, and no smaller than one of its terms.
LEMMA ChildrenType ==
  ASSUME PoolSize \in Nat, NEW tasks \in [1..PoolSize -> Nat]
  PROVE  /\ Children(tasks) \in Nat
         /\ \A n \in 1..PoolSize : tasks[n] > 0 => n <= Children(tasks)
<1>1. PICK g : /\ g[0] = 0 /\ \A n \in 1..PoolSize : g[n] = g[n - 1] + n * tasks[n]
               /\ Children(tasks) = g[PoolSize]
  BY ChildrenSum
<1>2. \A a \in Nat, b \in Nat : b > 0 => a * b \in Nat /\ a <= a * b
  OBVIOUS
<1>3. \A a \in Nat, b \in Nat : a * b \in Nat
  OBVIOUS
<1> DEFINE T == {k \in Nat : k <= PoolSize =>
                   /\ g[k] \in Nat
                   /\ \A n \in 1..k : tasks[n] > 0 => n <= g[k]}
<1>4. 0 \in T
  BY <1>1
<1>5. ASSUME NEW k \in Nat, k \in T PROVE k + 1 \in T
  <2> SUFFICES ASSUME k + 1 <= PoolSize PROVE k + 1 \in T
    OBVIOUS
  <2>1. g[k] \in Nat /\ \A n \in 1..k : tasks[n] > 0 => n <= g[k]
    BY <1>5
  <2>2. g[k + 1] = g[k] + (k + 1) * tasks[k + 1] /\ tasks[k + 1] \in Nat
    BY <1>1
  <2>3. /\ (k + 1) * tasks[k + 1] \in Nat
        /\ tasks[k + 1] > 0 => k + 1 <= (k + 1) * tasks[k + 1]
    <3> DEFINE a == k + 1
               b == tasks[k + 1]
    <3>1. a \in Nat /\ b \in Nat
      BY <2>2
    <3> HIDE DEF a, b
    <3>2. a * b \in Nat /\ (b > 0 => a <= a * b)
      BY <1>2, <1>3, <3>1
    <3> QED
      BY <3>2 DEF a, b
  <2> QED
    BY <2>1, <2>2, <2>3
<1>6. Nat \subseteq T
  <2> HIDE DEF T
  <2> QED
    BY <1>4, <1>5, NumbersOf
<1> QED
  BY <1>1, <1>6

\* One task more, or less, of size m changes it by m.
LEMMA ChildrenChange ==
  ASSUME PoolSize \in Nat, NEW tasks \in [1..PoolSize -> Nat], NEW m \in 1..PoolSize,
         NEW d \in {1, -1}, NEW after, after = [tasks EXCEPT ![m] = @ + d]
  PROVE  Children(after) = Children(tasks) + d * m
<1>1. PICK g : /\ g[0] = 0 /\ \A n \in 1..PoolSize : g[n] = g[n - 1] + n * tasks[n]
               /\ Children(tasks) = g[PoolSize]
  BY ChildrenSum
<1>2. PICK h : /\ h[0] = 0 /\ \A n \in 1..PoolSize : h[n] = h[n - 1] + n * after[n]
               /\ Children(after) = h[PoolSize]
  BY ChildrenSum
<1>3. \A a \in Nat, b \in Nat : a * b \in Nat
  OBVIOUS
<1> DEFINE e == d * m
<1>4. e \in Int
  OBVIOUS
<1>8. \A b \in Nat : m * (b + d) = m * b + e
  OBVIOUS
<1> HIDE DEF e
<1> DEFINE T == {k \in Nat : k <= PoolSize =>
                   /\ g[k] \in Int
                   /\ h[k] = IF k < m THEN g[k] ELSE g[k] + e}
<1>5. 0 \in T
  BY <1>1, <1>2
<1>6. ASSUME NEW k \in Nat, k \in T PROVE k + 1 \in T
  <2> SUFFICES ASSUME k + 1 <= PoolSize PROVE k + 1 \in T
    OBVIOUS
  <2>1. g[k] \in Int /\ h[k] = IF k < m THEN g[k] ELSE g[k] + e
    BY <1>6
  <2> DEFINE term == (k + 1) * tasks[k + 1]
             changed == (k + 1) * after[k + 1]
  <2>2. tasks[k + 1] \in Nat /\ term \in Nat
    BY <1>3
  <2>3. g[k + 1] = g[k] + term /\ h[k + 1] = h[k] + changed
    BY <1>1, <1>2
  <2>4. CASE k + 1 = m
    <3>1. changed = term + e
      <4>1. after[k + 1] = tasks[k + 1] + d
        BY <2>4
      <4> QED
        BY <4>1, <1>8, <2>2, <2>4
    <3> HIDE DEF term, changed
    <3>2. g[k + 1] \in Int /\ h[k + 1] = g[k + 1] + e
      BY <1>4, <2>1, <2>2, <2>3, <2>4, <3>1
    <3> QED
      BY <2>4, <3>2
  <2>5. CASE k + 1 # m
    <3>1. changed = term
      BY <2>5
    <3> HIDE DEF term, changed
    <3>2. g[k + 1] \in Int /\ h[k + 1] = IF k + 1 < m THEN g[k + 1] ELSE g[k + 1] + e
      BY <1>4, <2>1, <2>2, <2>3, <2>5, <3>1
    <3> QED
      BY <3>2
  <2> QED
    BY <2>4, <2>5
<1>7. Nat \subseteq T
  <2> HIDE DEF T
  <2> QED
    BY <1>5, <1>6, NumbersOf
<1> QED
  BY <1>1, <1>2, <1>7 DEF e

\* Nothing is reserved by no task.
LEMMA NoChildren ==
  ASSUME PoolSize \in Nat
  PROVE  Children([n \in 1..PoolSize |-> 0]) = 0
<1> DEFINE none == [n \in 1..PoolSize |-> 0]
<1>1. PICK g : /\ g[0] = 0 /\ \A n \in 1..PoolSize : g[n] = g[n - 1] + n * none[n]
               /\ Children(none) = g[PoolSize]
  BY ChildrenSum
<1> DEFINE T == {k \in Nat : k <= PoolSize => g[k] = 0}
<1>2. 0 \in T
  BY <1>1
<1>3. ASSUME NEW k \in Nat, k \in T PROVE k + 1 \in T
  BY <1>1, <1>3
<1>4. Nat \subseteq T
  <2> HIDE DEF T
  <2> QED
    BY <1>2, <1>3, NumbersOf
<1> QED
  BY <1>1, <1>4

-----------------------------------------------------------------------------
(* The invariant is inductive.                                             *)

\* The pool of s has lost its children and its tasks.
Emptied(s) ==
  /\ idle' = [idle EXCEPT ![s] = 0] /\ old' = [old EXCEPT ![s] = 0]
  /\ warming' = [warming EXCEPT ![s] = 0] /\ asked' = [asked EXCEPT ![s] = 0]
  /\ reserved' = [reserved EXCEPT ![s] = [n \in 1..PoolSize |-> 0]]

\* The types, by who the variables are of.
ElectionTypes ==
  /\ socket \in Server \cup {NoServer}
  /\ server \in [Server -> {"off", "look", "unlink", "bind", "up", "dead"}]
  /\ usurped \in BOOLEAN

CountTypes ==
  /\ idle \in [Server -> Nat] /\ old \in [Server -> Nat]
  /\ \A s \in Server : old[s] <= idle[s]
  /\ warming \in [Server -> Nat] /\ asked \in [Server -> 0..MaxRefills]

ReservedType == reserved \in [Server -> [1..PoolSize -> Nat]]

ClientTypes ==
  /\ client \in [Client -> {"free", "request", "lease", "turn", "retry", "cold"}]
  /\ attempt \in [Client -> 0..(Retries - 1)]
  /\ asking \in [Client -> Server \cup {NoServer}]
  /\ calls \in 0..MaxCalls /\ crashes \in 0..MaxCrashes

\* The types of the pool in groups, each for the steps that touch it.
LEMMA TypeParts ==
  /\ PoolTypeOK <=> ElectionTypes /\ CountTypes /\ ReservedType /\ ClientTypes
  /\ PoolTypeOK' <=> ElectionTypes' /\ CountTypes' /\ ReservedType' /\ ClientTypes'
BY DEF PoolTypeOK, ElectionTypes, CountTypes, ReservedType, ClientTypes

\* The pool's invariant holds initially.
LEMMA InitPool == PoolInit => PoolInv
<1> SUFFICES ASSUME PoolInit PROVE PoolInv
  OBVIOUS
<1> USE WarmPoolAssumption DEF PoolInit
<1>1. ElectionTypes
  BY DEF ElectionTypes
<1>2. CountTypes
  BY DEF CountTypes
<1>3. ReservedType
  BY DEF ReservedType
<1>4. ClientTypes
  BY DEF ClientTypes
<1>5. PoolAccounted
  BY NoChildren DEF PoolAccounted, Reservations
<1>6. SocketInv /\ AtPathInv
  BY DEF SocketInv, AtPathInv
<1> QED
  BY <1>1, <1>2, <1>3, <1>4, <1>5, <1>6, TypeParts DEF PoolInv

\* One count of one server changes.
LEMMA OneCount ==
  ASSUME NEW f \in [Server -> [1..PoolSize -> Nat]], NEW s \in Server, NEW n \in 1..PoolSize,
         NEW v \in Nat, NEW g, g = [f EXCEPT ![s][n] = v]
  PROVE  \E after \in [1..PoolSize -> Nat] :
           after = [f[s] EXCEPT ![n] = v] /\ g = [f EXCEPT ![s] = after]
<1> DEFINE after == [f[s] EXCEPT ![n] = v]
<1>1. f[s] \in [1..PoolSize -> Nat]
  OBVIOUS
<1>2. after \in [1..PoolSize -> Nat]
  BY <1>1
<1>3. g = [f EXCEPT ![s] = after]
  OBVIOUS
<1> QED
  BY <1>2, <1>3

\* A refill task ends: what it does to the pool.
LEMMA FinishEffect ==
  ASSUME NEW s \in Server, FinishRefill(s), PoolTypeOK
  PROVE  \E n \in 1..PoolSize :
           /\ reserved[s][n] > 0
           /\ \E after \in [1..PoolSize -> Nat] :
                /\ after = [reserved[s] EXCEPT ![n] = @ - 1]
                /\ reserved' = [reserved EXCEPT ![s] = after]
           /\ warming' = [warming EXCEPT ![s] = IF @ > n THEN @ - n ELSE 0]
           /\ idle'[s] \in Nat /\ idle[s] <= idle'[s]
           /\ idle'[s] <= idle[s] + n /\ idle'[s] <= IF idle[s] > PoolSize THEN idle[s] ELSE PoolSize
           /\ idle' = [idle EXCEPT ![s] = idle'[s]]
           /\ old' = old /\ asked' = asked
<1>1. PICK n \in 1..PoolSize :
        /\ reserved[s][n] > 0
        /\ reserved' = [reserved EXCEPT ![s][n] = @ - 1]
        /\ warming' = [warming EXCEPT ![s] = IF @ > n THEN @ - n ELSE 0]
        /\ \E started \in 0..n :
             idle' = [idle EXCEPT ![s] = IF @ >= PoolSize THEN @
                                         ELSE IF @ + started > PoolSize THEN PoolSize
                                         ELSE @ + started]
        /\ old' = old /\ asked' = asked
  BY DEF FinishRefill
<1>2. PICK started \in 0..n :
        idle' = [idle EXCEPT ![s] = IF @ >= PoolSize THEN @
                                    ELSE IF @ + started > PoolSize THEN PoolSize
                                    ELSE @ + started]
  BY <1>1
<1>3. /\ idle'[s] = IF idle[s] >= PoolSize THEN idle[s]
                    ELSE IF idle[s] + started > PoolSize THEN PoolSize ELSE idle[s] + started
      /\ idle' = [idle EXCEPT ![s] = idle'[s]]
  BY <1>2, TypeParts DEF CountTypes
<1>4. idle[s] \in Nat
  BY TypeParts DEF CountTypes
<1>5. /\ idle'[s] \in Nat /\ idle[s] <= idle'[s]
      /\ idle'[s] <= idle[s] + n /\ idle'[s] <= IF idle[s] > PoolSize THEN idle[s] ELSE PoolSize
  BY <1>3, <1>4, WarmPoolAssumption
<1>6. PICK after \in [1..PoolSize -> Nat] :
        after = [reserved[s] EXCEPT ![n] = @ - 1] /\ reserved' = [reserved EXCEPT ![s] = after]
  <2>1. reserved[s] \in [1..PoolSize -> Nat]
    BY TypeParts DEF ReservedType
  <2>3. reserved[s][n] \in Nat
    BY <2>1
  <2>2. reserved[s][n] - 1 \in Nat
    BY <1>1, <2>3
  <2> QED
    BY <1>1, <2>2, OneCount, TypeParts DEF ReservedType
<1> QED
  BY <1>1, <1>3, <1>5, <1>6

\* A refill task begins: what it does to the pool.
LEMMA ReserveEffect ==
  ASSUME NEW s \in Server, ReserveRefill(s), PoolTypeOK
  PROVE  /\ asked[s] > 0 /\ asked' = [asked EXCEPT ![s] = @ - 1]
         /\ idle' = idle /\ old' = old
         /\ \/ warming' = warming /\ reserved' = reserved
            \/ \E n \in 1..PoolSize :
                 /\ idle[s] + warming[s] + n = PoolSize
                 /\ warming' = [warming EXCEPT ![s] = @ + n]
                 /\ \E after \in [1..PoolSize -> Nat] :
                      /\ after = [reserved[s] EXCEPT ![n] = @ + 1]
                      /\ reserved' = [reserved EXCEPT ![s] = after]
<1> DEFINE n == Deficit(s)
<1>1. asked[s] > 0 /\ asked' = [asked EXCEPT ![s] = @ - 1] /\ idle' = idle /\ old' = old
  BY DEF ReserveRefill
<1>2. idle[s] \in Nat /\ warming[s] \in Nat
  BY TypeParts DEF CountTypes
<1>3. n > 0 => n \in 1..PoolSize /\ idle[s] + warming[s] + n = PoolSize
  BY <1>2, WarmPoolAssumption DEF Deficit
<1>4. IF n > 0
      THEN /\ warming' = [warming EXCEPT ![s] = @ + n]
           /\ reserved' = [reserved EXCEPT ![s][n] = @ + 1]
      ELSE warming' = warming /\ reserved' = reserved
  BY DEF ReserveRefill
<1> HIDE DEF n
<1>5. CASE n > 0
  <2>3. reserved[s] \in [1..PoolSize -> Nat]
    BY TypeParts DEF ReservedType
  <2>4. reserved[s][n] \in Nat
    BY <1>3, <1>5, <2>3
  <2>1. reserved[s][n] + 1 \in Nat
    BY <2>4
  <2>2. PICK after \in [1..PoolSize -> Nat] :
          after = [reserved[s] EXCEPT ![n] = @ + 1] /\ reserved' = [reserved EXCEPT ![s] = after]
    BY <1>3, <1>4, <1>5, <2>1, OneCount, TypeParts DEF ReservedType
  <2> QED
    BY <1>1, <1>3, <1>4, <1>5, <2>2
<1>6. CASE ~ (n > 0)
  BY <1>1, <1>4, <1>6
<1> QED
  BY <1>5, <1>6

\* Which variables a step changes.
LEMMA Footprints ==
  ASSUME PoolNext
  PROVE  /\ \/ UNCHANGED electionVars
            \/ \E s \in Server : LookAtSocket(s) \/ UnlinkSocket(s) \/ BindSocket(s) \/ Crash(s) \/ AcceptFails(s)
            \/ \E k \in Client : Retry(k)
         /\ \/ UNCHANGED <<idle, old, warming, reserved>> /\ (UNCHANGED asked \/ (\E s \in Server : BindSocket(s)) \/ \E k \in Client : Answer(k))
            \/ \E s \in Server : Emptied(s) \/ ReserveRefill(s) \/ FinishRefill(s) \/ GrowOld(s) \/ ReapStale(s)
            \/ \E k \in Client : Lease(k)
         /\ \/ UNCHANGED clientVars
            \/ \E k \in Client : Call(k) \/ Connect(k) \/ Retry(k) \/ Lease(k) \/ Answer(k) \/ ColdFallback(k)
         /\ \/ UNCHANGED crashes
            \/ crashes < MaxCrashes /\ crashes' = crashes + 1
<1>1. ASSUME NEW s \in Server, ServerStep(s)
      PROVE  UNCHANGED clientVars
  BY <1>1 DEF ServerStep, LookAtSocket, UnlinkSocket, BindSocket, Crash, AcceptFails, ReserveRefill,
              FinishRefill, GrowOld, ReapStale
<1>2. ASSUME NEW s \in Server, ServerStep(s)
      PROVE  \/ UNCHANGED crashes
             \/ crashes < MaxCrashes /\ crashes' = crashes + 1
  BY <1>2 DEF ServerStep, LookAtSocket, UnlinkSocket, BindSocket, Crash, AcceptFails, ReserveRefill,
              FinishRefill, GrowOld, ReapStale
<1>3. ASSUME NEW s \in Server, ServerStep(s)
      PROVE  \/ UNCHANGED electionVars
             \/ LookAtSocket(s) \/ UnlinkSocket(s) \/ BindSocket(s) \/ Crash(s) \/ AcceptFails(s)
  BY <1>3 DEF ServerStep, ReserveRefill, FinishRefill, GrowOld, ReapStale
<1>4. ASSUME NEW s \in Server, ServerStep(s)
      PROVE  \/ UNCHANGED <<idle, old, warming, reserved>> /\ (UNCHANGED asked \/ BindSocket(s))
             \/ Emptied(s) \/ ReserveRefill(s) \/ FinishRefill(s) \/ GrowOld(s) \/ ReapStale(s)
  BY <1>4 DEF ServerStep, LookAtSocket, UnlinkSocket, BindSocket, Crash, AcceptFails, Emptied, poolVars
<1>5. ASSUME NEW k \in Client, Call(k) \/ CallStep(k)
      PROVE  /\ UNCHANGED crashes
             /\ UNCHANGED electionVars \/ Retry(k)
             /\ \/ UNCHANGED <<idle, old, warming, reserved>> /\ (UNCHANGED asked \/ Answer(k))
                \/ Lease(k)
             /\ Call(k) \/ Connect(k) \/ Retry(k) \/ Lease(k) \/ Answer(k) \/ ColdFallback(k)
  BY <1>5 DEF CallStep, Call, Connect, ConnectFails, Lease, Answer, RequestFails, ColdFallback, Retry, poolVars
<1>6. CASE \E s \in Server : ServerStep(s)
  BY <1>1, <1>2, <1>3, <1>4, <1>6
<1>7. ASSUME NEW k \in Client, Call(k) \/ CallStep(k)
      PROVE  /\ UNCHANGED crashes
             /\ UNCHANGED electionVars \/ \E j \in Client : Retry(j)
             /\ \/ UNCHANGED <<idle, old, warming, reserved>> /\ (UNCHANGED asked \/ \E j \in Client : Answer(j))
                \/ \E j \in Client : Lease(j)
             /\ \E j \in Client : Call(j) \/ Connect(j) \/ Retry(j) \/ Lease(j) \/ Answer(j) \/ ColdFallback(j)
  BY ONLY <1>5, <1>7, k \in Client
<1>8. CASE \E k \in Client : Call(k) \/ CallStep(k)
  BY <1>7, <1>8
<1>9. (\E s \in Server : ServerStep(s)) \/ (\E k \in Client : Call(k) \/ CallStep(k))
  BY DEF PoolNext
<1> QED
  BY <1>6, <1>8, <1>9

\* Every step keeps the types.
LEMMA TypeSteps ==
  ASSUME PoolTypeOK, PoolNext PROVE PoolTypeOK'
<1> USE WarmPoolAssumption
<1>1. ElectionTypes /\ CountTypes /\ ReservedType /\ ClientTypes
  BY TypeParts
<1>2. ElectionTypes'
  <2> USE <1>1 DEF ElectionTypes, electionVars, ServerAt
  <2>1. ASSUME NEW s \in Server, LookAtSocket(s) \/ UnlinkSocket(s) \/ BindSocket(s) \/ Crash(s) \/ AcceptFails(s)
        PROVE  ElectionTypes'
    BY <2>1 DEF LookAtSocket, UnlinkSocket, BindSocket, Crash, AcceptFails, Listening
  <2>2. ASSUME NEW k \in Client, Retry(k) PROVE ElectionTypes'
    BY <2>2 DEF Retry
  <2>3. CASE UNCHANGED electionVars
    BY <2>3
  <2> QED
    BY <2>1, <2>2, <2>3, Footprints
<1>3. CountTypes'
  <2> USE <1>1 DEF CountTypes
  <2>1. ASSUME NEW s \in Server, Emptied(s) PROVE CountTypes'
    BY <2>1 DEF Emptied
  <2>6. ASSUME NEW s \in Server, GrowOld(s) PROVE CountTypes'
    BY <2>6 DEF GrowOld
  <2>7. ASSUME NEW s \in Server, ReapStale(s) PROVE CountTypes'
    BY <2>7 DEF ReapStale
  <2>2. ASSUME NEW s \in Server, ReserveRefill(s) PROVE CountTypes'
    <3>1. asked[s] > 0 /\ asked' = [asked EXCEPT ![s] = @ - 1] /\ idle' = idle /\ old' = old
      BY <2>2, ReserveEffect
    <3>2. warming' = warming \/ \E n \in Nat : warming' = [warming EXCEPT ![s] = @ + n]
      BY <2>2, ReserveEffect
    <3>3. warming' \in [Server -> Nat]
      BY <3>2
    <3>4. asked' \in [Server -> 0..MaxRefills]
      BY <3>1
    <3> QED
      BY <3>1, <3>3, <3>4
  <2>3. ASSUME NEW s \in Server, FinishRefill(s) PROVE CountTypes'
    <3>1. /\ idle'[s] \in Nat /\ idle[s] <= idle'[s] /\ idle' = [idle EXCEPT ![s] = idle'[s]]
          /\ old' = old /\ asked' = asked
          /\ \E n \in 1..PoolSize : warming' = [warming EXCEPT ![s] = IF @ > n THEN @ - n ELSE 0]
      BY <2>3, FinishEffect
    <3>2. warming' \in [Server -> Nat]
      BY <3>1
    <3>3. idle' \in [Server -> Nat] /\ \A u \in Server : old[u] <= idle'[u]
      BY <3>1
    <3> QED
      BY <3>1, <3>2, <3>3
  <2>4. ASSUME NEW k \in Client, Lease(k) PROVE CountTypes'
    <3> DEFINE t == asking[k]
    <3>1. /\ idle' = [idle EXCEPT ![t] = IF @ > 0 THEN @ - 1 ELSE 0]
          /\ old' = [old EXCEPT ![t] = IF @ = idle[t] /\ @ > 0 THEN @ - 1 ELSE @]
          /\ UNCHANGED <<warming, asked>>
      BY <2>4 DEF Lease
    <3> HIDE DEF t
    <3>5. /\ idle' = [u \in Server |-> IF u = t THEN IF idle[u] > 0 THEN idle[u] - 1 ELSE 0 ELSE idle[u]]
          /\ old' = [u \in Server |-> IF u = t /\ old[u] = idle[u] /\ old[u] > 0 THEN old[u] - 1 ELSE old[u]]
      BY <3>1
    <3>6. ASSUME NEW u \in Server PROVE idle[u] \in Nat /\ old[u] \in Nat
      OBVIOUS
    <3>2. idle' \in [Server -> Nat]
      BY <3>5, <3>6
    <3>4. old' \in [Server -> Nat]
      BY <3>5, <3>6
    <3>3. \A s \in Server : old'[s] <= idle'[s]
      BY <3>1
    <3> QED
      BY <3>1, <3>2, <3>3, <3>4
  <2>5. ASSUME UNCHANGED <<idle, old, warming>>,
               UNCHANGED asked \/ (\E s \in Server : BindSocket(s)) \/ \E k \in Client : Answer(k)
        PROVE  CountTypes'
    BY <2>5 DEF BindSocket, Answer
  <2> QED
    BY <2>1, <2>2, <2>3, <2>4, <2>5, <2>6, <2>7, Footprints
<1>4. ReservedType'
  <2> USE <1>1 DEF ReservedType
  <2>1. ASSUME NEW s \in Server, Emptied(s) \/ GrowOld(s) \/ ReapStale(s) PROVE ReservedType'
    BY <2>1 DEF Emptied, GrowOld, ReapStale
  <2>2. ASSUME NEW s \in Server, ReserveRefill(s) PROVE ReservedType'
    BY <2>2, ReserveEffect
  <2>3. ASSUME NEW s \in Server, FinishRefill(s) PROVE ReservedType'
    BY <2>3, FinishEffect
  <2>4. ASSUME NEW k \in Client, Lease(k) PROVE ReservedType'
    BY <2>4 DEF Lease
  <2>5. CASE UNCHANGED reserved
    BY <2>5
  <2> QED
    BY <2>1, <2>2, <2>3, <2>4, <2>5, Footprints
<1>5. ClientTypes'
  <2> USE <1>1 DEF ClientTypes, Return
  <2>1. ASSUME NEW k \in Client, Call(k) \/ Retry(k) PROVE ClientTypes'
    BY <2>1, Footprints DEF Call, Retry
  <2>2. ASSUME NEW k \in Client, Connect(k) \/ Lease(k) PROVE ClientTypes'
    BY <2>2 DEF Connect, Lease, Listening, ElectionTypes
  <2>3. ASSUME NEW k \in Client, Answer(k) \/ ColdFallback(k) PROVE ClientTypes'
    BY <2>3 DEF Answer, ColdFallback
  <2>4. CASE UNCHANGED clientVars
    BY <2>4, Footprints DEF clientVars
  <2> QED
    BY <2>1, <2>2, <2>3, <2>4, Footprints
<1> QED
  BY <1>2, <1>3, <1>4, <1>5, TypeParts

\* What is reserved is what is counted as starting: only a refill task
\* that begins or ends changes either.
LEMMA AccountSteps ==
  ASSUME PoolTypeOK, PoolAccounted, PoolNext PROVE PoolAccounted'
<1> USE WarmPoolAssumption
<1> DEFINE Stays(s) == /\ idle'[s] + warming'[s] <= PoolSize
                      /\ warming'[s] = Children(reserved'[s])
<1>1. CountTypes /\ ReservedType
  BY TypeParts
<1>2. \A s \in Server : /\ idle[s] + warming[s] <= PoolSize
                        /\ warming[s] = Children(reserved[s])
  BY DEF PoolAccounted, Reservations
<1> USE <1>1, <1>2 DEF CountTypes, ReservedType
<1>3. ASSUME NEW s \in Server, Emptied(s) PROVE \A u \in Server : Stays(u)
  BY <1>3, NoChildren DEF Emptied
<1>4. ASSUME NEW s \in Server, ReserveRefill(s) PROVE \A u \in Server : Stays(u)
  <2>1. CASE warming' = warming /\ reserved' = reserved /\ idle' = idle
    BY <2>1
  <2>2. ASSUME NEW n \in 1..PoolSize, idle[s] + warming[s] + n = PoolSize, idle' = idle,
               warming' = [warming EXCEPT ![s] = @ + n],
               NEW after \in [1..PoolSize -> Nat], after = [reserved[s] EXCEPT ![n] = @ + 1],
               reserved' = [reserved EXCEPT ![s] = after]
        PROVE  \A u \in Server : Stays(u)
    <3>1. reserved'[s] = [reserved[s] EXCEPT ![n] = @ + 1]
      BY <2>2
    <3>2. Children(reserved'[s]) = Children(reserved[s]) + 1 * n
      BY <3>1, ChildrenChange
    <3>3. Stays(s)
      BY <2>2, <3>2
    <3>4. \A u \in Server : u # s => Stays(u)
      BY <2>2
    <3> QED
      BY <3>3, <3>4
  <2> QED
    BY <1>4, <2>1, <2>2, ReserveEffect
<1>5. ASSUME NEW s \in Server, FinishRefill(s) PROVE \A u \in Server : Stays(u)
  <2>1. PICK n \in 1..PoolSize :
          /\ reserved[s][n] > 0
          /\ \E after \in [1..PoolSize -> Nat] :
               /\ after = [reserved[s] EXCEPT ![n] = @ - 1]
               /\ reserved' = [reserved EXCEPT ![s] = after]
          /\ warming' = [warming EXCEPT ![s] = IF @ > n THEN @ - n ELSE 0]
          /\ idle'[s] \in Nat /\ idle'[s] <= idle[s] + n
          /\ idle' = [idle EXCEPT ![s] = idle'[s]]
    BY <1>5, FinishEffect
  <2>2. reserved'[s] = [reserved[s] EXCEPT ![n] = @ + (-1)]
    BY <2>1
  <2>3. Children(reserved'[s]) = Children(reserved[s]) + (-1) * n
    BY <2>2, ChildrenChange
  <2>4. reserved[s] \in [1..PoolSize -> Nat]
    OBVIOUS
  <2>5. n <= Children(reserved[s])
    BY <2>1, <2>4, ChildrenType
  <2>6. warming'[s] = warming[s] - n
    BY <2>1, <2>5
  <2>7. Stays(s)
    <3>1. warming[s] = Children(reserved[s]) /\ idle[s] + warming[s] <= PoolSize
      BY <1>2
    <3>2. warming[s] \in Nat /\ idle[s] \in Nat
      OBVIOUS
    <3>3. warming'[s] = Children(reserved'[s])
      BY <2>3, <2>6, <3>1, <3>2
    <3>4. idle'[s] + warming'[s] <= PoolSize
      BY <2>1, <2>6, <3>1, <3>2
    <3> QED
      BY <3>3, <3>4
  <2>8. \A u \in Server : u # s => Stays(u)
    BY <2>1
  <2> QED
    BY <2>7, <2>8
<1>6. ASSUME NEW s \in Server, GrowOld(s) PROVE \A u \in Server : Stays(u)
  BY <1>6 DEF GrowOld
<1>7. ASSUME NEW s \in Server, ReapStale(s) PROVE \A u \in Server : Stays(u)
  <2>1. warming' = warming /\ reserved' = reserved
    BY <1>7 DEF ReapStale
  <2>2. ASSUME NEW u \in Server PROVE idle'[u] <= idle[u] /\ idle'[u] \in Int
    <3>1. idle' = [idle EXCEPT ![s] = @ - old[s]]
      BY <1>7 DEF ReapStale
    <3>2. old[s] \in Nat /\ idle[u] \in Nat
      OBVIOUS
    <3>3. idle'[u] = IF u = s THEN idle[u] - old[s] ELSE idle[u]
      BY <3>1
    <3> QED
      BY <3>2, <3>3
  <2> QED
    BY <2>1, <2>2
<1>8. ASSUME NEW k \in Client, Lease(k) PROVE \A u \in Server : Stays(u)
  BY <1>8 DEF Lease
<1>9. ASSUME UNCHANGED <<idle, warming, reserved>> PROVE \A u \in Server : Stays(u)
  BY <1>9
<1>10. \A u \in Server : Stays(u)
  BY <1>3, <1>4, <1>5, <1>6, <1>7, <1>8, <1>9, Footprints
<1> QED
  BY <1>10 DEF PoolAccounted, Reservations

\* A server leaves the path of another only as a usurper.
LEMMA SocketSteps ==
  ASSUME PoolTypeOK, SocketInv, AtPathInv, PoolNext PROVE SocketInv' /\ AtPathInv'
<1> USE WarmPoolAssumption
    DEF PoolTypeOK, SocketInv, AtPathInv, electionVars, poolVars, clientVars, ServerAt, Listening
<1>1. ASSUME NEW s \in Server, LookAtSocket(s) PROVE SocketInv' /\ AtPathInv'
  BY <1>1 DEF LookAtSocket
<1>2. ASSUME NEW s \in Server, UnlinkSocket(s) PROVE SocketInv' /\ AtPathInv'
  BY <1>2 DEF UnlinkSocket
<1>3. ASSUME NEW s \in Server, BindSocket(s) PROVE SocketInv' /\ AtPathInv'
  BY <1>3 DEF BindSocket
<1>4. ASSUME NEW s \in Server, Crash(s) PROVE SocketInv' /\ AtPathInv'
  BY <1>4 DEF Crash
<1>5. ASSUME NEW s \in Server, AcceptFails(s) PROVE SocketInv' /\ AtPathInv'
  BY <1>5 DEF AcceptFails
<1>6. ASSUME NEW k \in Client, Retry(k) PROVE SocketInv' /\ AtPathInv'
  BY <1>6 DEF Retry
<1>7. CASE UNCHANGED electionVars
  BY <1>7
<1> QED
  BY <1>1, <1>2, <1>3, <1>4, <1>5, <1>6, <1>7, Footprints

\* Every step of the pool keeps its invariant.
LEMMA NextPool == PoolInv /\ [PoolNext]_warmVars => PoolInv'
<1> SUFFICES ASSUME PoolInv, [PoolNext]_warmVars PROVE PoolInv'
  OBVIOUS
<1>1. CASE PoolNext
  BY <1>1, TypeSteps, AccountSteps, SocketSteps DEF PoolInv
<1>2. CASE UNCHANGED warmVars
  BY <1>2 DEF PoolInv, PoolTypeOK, PoolAccounted, Reservations, SocketInv, AtPathInv,
              warmVars, electionVars, poolVars, clientVars
<1> QED
  BY <1>1, <1>2

-----------------------------------------------------------------------------
(* Theorems.                                                               *)

\* The invariant holds in every reachable state.
THEOREM PoolInvariance == PoolSpec => []PoolInv
BY InitPool, NextPool, PTL DEF PoolSpec

\* Every variable keeps its type.
THEOREM PoolTypes == PoolSpec => []PoolTypeOK
<1>1. PoolInv => PoolTypeOK
  BY DEF PoolInv
<1> QED
  BY <1>1, PoolInvariance, PTL

\* Whatever the size of the pool and however many tasks refill it, none of its
\* reservations leaks; and however many servers are started, two listen only
\* after one unlinked the other's socket.
THEOREM PoolIsSafe == PoolSpec => []PoolSafe
<1>1. ASSUME PoolInv PROVE PoolSafe
  <2> DEFINE Up == {s \in Server : server[s] = "up"}
  <2>1. ASSUME ~ usurped PROVE Cardinality(Up) <= 1
    <3>1. Up \subseteq {socket}
      BY <1>1, <2>1 DEF PoolInv, AtPathInv
    <3>2. IsFiniteSet({socket}) /\ Cardinality({socket}) = 1
      BY FS_Singleton
    <3>3. Cardinality(Up) <= Cardinality({socket})
      BY <3>1, <3>2, FS_Subset
    <3> QED
      BY <3>2, <3>3
  <2> QED
    BY <1>1, <2>1 DEF PoolInv, PoolSafe, OneServerUnlessUsurped
<1> QED
  BY <1>1, PoolInvariance, PTL

-----------------------------------------------------------------------------
(* The event log and its followers.                                        *)

\* The members of a finite set of numbers in their order: each has its place, one
\* to a place.
LEMMA Places ==
  ASSUME NEW S \in SUBSET Nat, IsFiniteSet(S)
  PROVE  /\ Cardinality(S) \in Nat
         /\ \A k \in S : Cardinality({l \in S : l <= k}) \in 1..Cardinality(S)
         /\ \A k, m \in S :
              Cardinality({l \in S : l <= k}) = Cardinality({l \in S : l <= m}) => k = m
         /\ \A j \in 1..Cardinality(S) : \E k \in S : Cardinality({l \in S : l <= k}) = j
<1> DEFINE UpTo(k) == {l \in S : l <= k}
           f == [k \in S |-> Cardinality(UpTo(k))]
           C == 1..Cardinality(S)
<1>0. Cardinality(S) \in Nat
  BY FS_CardinalityType
<1>1. ASSUME NEW k \in S
      PROVE  IsFiniteSet(UpTo(k)) /\ Cardinality(UpTo(k)) \in C
  <2>1. UpTo(k) \in SUBSET S /\ k \in UpTo(k)
    OBVIOUS
  <2> HIDE DEF UpTo
  <2>2. IsFiniteSet(UpTo(k)) /\ Cardinality(UpTo(k)) <= Cardinality(S)
    BY <2>1, FS_Subset
  <2>3. Cardinality(UpTo(k)) \in Nat /\ Cardinality(UpTo(k)) # 0
    BY <2>1, <2>2, FS_CardinalityType, FS_EmptySet
  <2> QED
    BY <1>0, <2>2, <2>3
<1>2. ASSUME NEW k \in S, NEW m \in S, k < m
      PROVE  Cardinality(UpTo(k)) # Cardinality(UpTo(m))
  <2>1. UpTo(k) \in SUBSET UpTo(m) /\ UpTo(k) # UpTo(m)
    <3>1. m \in UpTo(m) /\ m \notin UpTo(k)
      BY <1>2
    <3>2. \A l \in UpTo(k) : l \in UpTo(m)
      BY <1>2
    <3> QED
      BY <3>1, <3>2
  <2>2. IsFiniteSet(UpTo(m))
    BY <1>1
  <2> HIDE DEF UpTo
  <2> QED
    BY <2>1, <2>2, FS_Subset
<1>3. ASSUME NEW k \in S, NEW m \in S, Cardinality(UpTo(k)) = Cardinality(UpTo(m))
      PROVE  k = m
  <2>1. CASE k < m
    BY <1>2, <1>3, <2>1
  <2>2. CASE m < k
    BY <1>2, <1>3, <2>2
  <2> QED
    BY <2>1, <2>2
<1> HIDE DEF UpTo
<1>4. f \in Injection(S, C)
  BY <1>1, <1>3 DEF Injection, IsInjective
<1>5. IsFiniteSet(C) /\ Cardinality(C) = Cardinality(S)
  BY <1>0, FS_Interval
<1> HIDE DEF f
<1>6. f \in Surjection(S, C)
  BY <1>4, <1>5, FS_Injection
<1>7. \A j \in C : \E k \in S : Cardinality(UpTo(k)) = j
  BY <1>6 DEF f, Surjection
<1> QED
  BY <1>0, <1>1, <1>3, <1>7 DEF UpTo

\* A set of numbers with a bound has a greatest one.
LEMMA Greatest ==
  ASSUME NEW n \in Nat, NEW S \in SUBSET (1..n), S # {}
  PROVE  Max(S) \in S /\ \A k \in S : k <= Max(S)
<1> DEFINE T == {n - k : k \in S}
<1>0. \A k \in S : k \in Nat /\ n - k \in Nat
  OBVIOUS
<1>1. T \in SUBSET Nat /\ T # {}
  <2>1. \A t \in T : t \in Nat
    BY <1>0, Zenon
  <2> QED
    BY <2>1
<1>2. PICK t \in T : \A u \in T : t <= u
  BY <1>1, LeastNumber
<1>3. PICK m \in S : t = n - m
  BY <1>2
<1>4. ASSUME NEW k \in S PROVE m >= k
  <2>1. n - k \in T
    OBVIOUS
  <2> HIDE DEF T
  <2>2. t <= n - k
    BY <1>2, <2>1
  <2> QED
    BY <1>0, <1>3, <2>2
<1>5. \E x \in S : \A y \in S : x >= y
  BY <1>4
<1>6. Max(S) \in S /\ \A y \in S : Max(S) >= y
  BY <1>5 DEF Max
<1> QED
  BY <1>6

\* The lines among some pieces are the events whose line ends there, each once
\* when each ends once.
LEMMA LinesAre ==
  ASSUME NEW all \in Seq(Piece)
  PROVE  /\ Lines(all) \in Seq(Event)
         /\ ToSet(Lines(all)) = {all[k][1] : k \in Ends(all)}
         /\ (\A k, l \in Ends(all) : all[k][1] = all[l][1] => k = l)
              => \A i, j \in DOMAIN Lines(all) : Lines(all)[i] = Lines(all)[j] => i = j
<1> DEFINE E == Ends(all)
           N == Cardinality(E)
           UpTo(k) == {l \in E : l <= k}
           nth(j) == CHOOSE k \in E : Cardinality(UpTo(k)) = j
<1>1. E \subseteq 2..Len(all) /\ Len(all) \in Nat
  BY DEF Ends
<1>2. IsFiniteSet(2..Len(all))
  BY <1>1, FS_Interval
<1>3. IsFiniteSet(E) /\ E \in SUBSET Nat
  BY <1>1, <1>2, FS_Subset
<1>4. \A k \in E : all[k][1] \in Event
  BY <1>1 DEF Piece
<1>5. Lines(all) = [j \in 1..N |-> all[nth(j)][1]]
  BY DEF Lines
<1> HIDE DEF E
<1>6. /\ N \in Nat
      /\ \A k \in E : Cardinality(UpTo(k)) \in 1..N
      /\ \A k, m \in E : Cardinality(UpTo(k)) = Cardinality(UpTo(m)) => k = m
      /\ \A j \in 1..N : \E k \in E : Cardinality(UpTo(k)) = j
  BY <1>3, Places
<1> HIDE DEF N, UpTo
<1>7. ASSUME NEW j \in 1..N
      PROVE  nth(j) \in E /\ Cardinality(UpTo(nth(j))) = j
  BY <1>6
<1>8. ASSUME NEW k \in E
      PROVE  \E j \in 1..N : nth(j) = k
  <2>1. Cardinality(UpTo(k)) \in 1..N
    BY <1>6
  <2>2. nth(Cardinality(UpTo(k))) = k
    BY <1>6, <1>7, <2>1
  <2> QED
    BY <2>1, <2>2
<1> HIDE DEF nth
<1>9. Lines(all) \in Seq(Event)
  <2>1. \A j \in 1..N : all[nth(j)][1] \in Event
    BY <1>4, <1>7
  <2> QED
    BY <1>5, <1>6, <2>1
<1>10. DOMAIN Lines(all) = 1..N /\ \A j \in 1..N : Lines(all)[j] = all[nth(j)][1]
  BY <1>5
<1>11. ToSet(Lines(all)) = {all[k][1] : k \in E}
  BY <1>7, <1>8, <1>10 DEF ToSet
<1>12. ASSUME \A k, l \in E : all[k][1] = all[l][1] => k = l,
              NEW i \in 1..N, NEW j \in 1..N, Lines(all)[i] = Lines(all)[j]
       PROVE  i = j
  BY <1>7, <1>10, <1>12
<1> QED
  BY <1>9, <1>10, <1>11, <1>12 DEF E

\* The half line at the end is what is behind the last end of a line.
LEMMA RemainderIs ==
  ASSUME NEW all \in Seq(Piece)
  PROVE  \E r \in 0..Len(all) :
           /\ Remainder(all) = SubSeq(all, r + 1, Len(all))
           /\ r = 0 \/ all[r][2] = 2
           /\ \A k \in DOMAIN all : k > r => all[k][2] = 1
<1> DEFINE ends == {k \in DOMAIN all : all[k][2] = 2}
<1>1. Len(all) \in Nat /\ ends \in SUBSET (1..Len(all))
  OBVIOUS
<1>2. \A k \in DOMAIN all : all[k][2] \in {1, 2}
  BY DEF Piece
<1>3. CASE ends = {}
  <2>1. Remainder(all) = SubSeq(all, 0 + 1, Len(all))
    BY <1>3 DEF Remainder
  <2> QED
    BY <1>1, <1>2, <1>3, <2>1
<1>4. CASE ends # {}
  <2>1. Max(ends) \in ends /\ \A k \in ends : k <= Max(ends)
    <3> HIDE DEF ends
    <3> QED
      BY <1>1, <1>4, Greatest
  <2>2. Remainder(all) = SubSeq(all, Max(ends) + 1, Len(all))
    BY <1>4 DEF Remainder
  <2>3. Max(ends) \in 0..Len(all) /\ all[Max(ends)][2] = 2
    BY <1>1, <2>1
  <2>4. \A k \in DOMAIN all : k > Max(ends) => all[k][2] = 1
    <3> SUFFICES ASSUME NEW k \in DOMAIN all, k > Max(ends), all[k][2] # 1 PROVE FALSE
      OBVIOUS
    <3>1. k \in ends
      BY <1>2
    <3> HIDE DEF ends
    <3> QED
      BY <1>1, <2>1, <3>1
  <2> HIDE DEF ends
  <2> QED
    BY <2>2, <2>3, <2>4
<1> QED
  BY <1>3, <1>4

Once(s) == \A i, j \in DOMAIN s : s[i] = s[j] => i = j

\* What is in two sequences put together.
LEMMA SetOfBoth ==
  ASSUME NEW a \in Seq(Event), NEW b \in Seq(Event)
  PROVE  ToSet(a \o b) = ToSet(a) \cup ToSet(b)
<1>1. /\ a \o b \in Seq(Event) /\ Len(a \o b) = Len(a) + Len(b)
      /\ \A i \in 1..Len(a) + Len(b) : (a \o b)[i] = IF i <= Len(a) THEN a[i] ELSE b[i - Len(a)]
  BY ConcatProperties
<1>2. Len(a) \in Nat /\ Len(b) \in Nat
  OBVIOUS
<1>3. ASSUME NEW i \in DOMAIN a PROVE a[i] \in ToSet(a \o b)
  <2>1. i \in DOMAIN (a \o b) /\ (a \o b)[i] = a[i]
    BY <1>1, <1>2
  <2> QED
    BY <2>1 DEF ToSet
<1>4. ASSUME NEW i \in DOMAIN b PROVE b[i] \in ToSet(a \o b)
  <2>1. i + Len(a) \in DOMAIN (a \o b) /\ (a \o b)[i + Len(a)] = b[i]
    BY <1>1, <1>2
  <2> QED
    BY <2>1 DEF ToSet
<1>5. ASSUME NEW i \in DOMAIN (a \o b) PROVE (a \o b)[i] \in ToSet(a) \cup ToSet(b)
  <2>1. CASE i <= Len(a)
    <3>1. i \in DOMAIN a /\ (a \o b)[i] = a[i]
      BY <1>1, <1>2, <2>1
    <3> QED
      BY <3>1 DEF ToSet
  <2>2. CASE i > Len(a)
    <3>1. i - Len(a) \in DOMAIN b /\ (a \o b)[i] = b[i - Len(a)]
      BY <1>1, <1>2, <2>2
    <3> QED
      BY <3>1 DEF ToSet
  <2> QED
    BY <1>1, <1>2, <2>1, <2>2
<1> QED
  BY <1>3, <1>4, <1>5 DEF ToSet

\* Two sequences put together repeat nothing if neither does and they share nothing.
LEMMA OnceInBoth ==
  ASSUME NEW a \in Seq(Event), NEW b \in Seq(Event)
  PROVE  Once(a \o b) <=> Once(a) /\ Once(b) /\ ToSet(a) \cap ToSet(b) = {}
<1>1. /\ a \o b \in Seq(Event) /\ Len(a \o b) = Len(a) + Len(b)
      /\ \A i \in 1..Len(a) + Len(b) : (a \o b)[i] = IF i <= Len(a) THEN a[i] ELSE b[i - Len(a)]
  BY ConcatProperties
<1>2. Len(a) \in Nat /\ Len(b) \in Nat
  OBVIOUS
<1>3. \A i \in DOMAIN a : i \in DOMAIN (a \o b) /\ (a \o b)[i] = a[i]
  BY <1>1, <1>2
<1>4. \A i \in DOMAIN b : i + Len(a) \in DOMAIN (a \o b) /\ (a \o b)[i + Len(a)] = b[i]
  BY <1>1, <1>2
<1>5. ASSUME Once(a \o b) PROVE Once(a) /\ Once(b) /\ ToSet(a) \cap ToSet(b) = {}
  <2>1. Once(a)
    BY <1>3, <1>5 DEF Once
  <2>2. ASSUME NEW i \in DOMAIN b, NEW j \in DOMAIN b, b[i] = b[j] PROVE i = j
    <3>1. i + Len(a) = j + Len(a)
      BY <1>4, <1>5, <2>2 DEF Once
    <3> QED
      BY <1>2, <3>1
  <2>3. ASSUME NEW i \in DOMAIN a, NEW j \in DOMAIN b, a[i] = b[j] PROVE FALSE
    <3>1. i = j + Len(a)
      BY <1>3, <1>4, <1>5, <2>3 DEF Once
    <3> QED
      BY <1>2, <3>1
  <2> QED
    BY <2>1, <2>2, <2>3 DEF ToSet, Once
<1>6. ASSUME Once(a), Once(b), ToSet(a) \cap ToSet(b) = {},
             NEW i \in DOMAIN (a \o b), NEW j \in DOMAIN (a \o b), (a \o b)[i] = (a \o b)[j]
      PROVE  i = j
  <2>1. \A k \in DOMAIN a : \A l \in DOMAIN b : a[k] # b[l]
    BY <1>6 DEF ToSet
  <2>2. \A k \in DOMAIN (a \o b) :
          \/ k \in DOMAIN a /\ (a \o b)[k] = a[k]
          \/ k - Len(a) \in DOMAIN b /\ (a \o b)[k] = b[k - Len(a)]
    BY <1>1, <1>2
  <2>3. i \in Nat /\ j \in Nat
    BY <1>1
  <2> QED
    BY <1>2, <1>6, <2>1, <2>2, <2>3 DEF Once
<1> QED
  BY <1>5, <1>6 DEF Once

\* What a view or a printer is handed: its types, the set of it, and when no
\* event is there twice.
LEMMA HandAdds ==
  ASSUME LogTypeOK, LogAssumption, NEW lines \in Seq(Event), Hand(lines)
  PROVE  /\ queue' \in Seq(Event) /\ Len(queue') <= Room
         /\ shown' \in Seq(Event) /\ refused' \in Seq(Event)
         /\ Handed' = Handed \cup ToSet(lines)
         /\ Once(shown \o queue \o refused) /\ Once(lines) /\ Handed \cap ToSet(lines) = {}
              => Once(shown' \o queue' \o refused')
<1> USE DEF LogTypeOK
<1>1. CASE reader.style = "printer"
  <2>1. shown' = shown \o lines /\ queue' = queue /\ refused' = refused
    BY <1>1 DEF Hand
  <2>2. shown' \in Seq(Event)
    BY <2>1
  <2>3. ToSet(shown') = ToSet(shown) \cup ToSet(lines)
    BY <2>1, SetOfBoth
  <2>4. shown \o queue \in Seq(Event) /\ shown' \o queue' \in Seq(Event)
    BY <2>1, <2>2
  <2>5. Once(shown \o queue \o refused) <=>
          Once(shown \o queue) /\ Once(refused) /\ (ToSet(shown) \cup ToSet(queue)) \cap ToSet(refused) = {}
    BY <2>4, OnceInBoth, SetOfBoth
  <2>6. Once(shown' \o queue' \o refused') <=>
          Once(shown' \o queue') /\ Once(refused') /\ (ToSet(shown') \cup ToSet(queue')) \cap ToSet(refused') = {}
    BY <2>1, <2>2, <2>4, OnceInBoth, SetOfBoth
  <2>7. Once(shown \o queue) <=> Once(shown) /\ Once(queue) /\ ToSet(shown) \cap ToSet(queue) = {}
    BY OnceInBoth
  <2>8. Once(shown' \o queue') <=> Once(shown') /\ Once(queue') /\ ToSet(shown') \cap ToSet(queue') = {}
    BY <2>1, <2>2, OnceInBoth
  <2>9. Once(shown') <=> Once(shown) /\ Once(lines) /\ ToSet(shown) \cap ToSet(lines) = {}
    BY <2>1, OnceInBoth
  <2>10. Handed' = Handed \cup ToSet(lines)
    BY <2>1, <2>3 DEF Handed
  <2>11. Once(shown \o queue \o refused) /\ Once(lines) /\ Handed \cap ToSet(lines) = {}
              => Once(shown' \o queue' \o refused')
    BY <2>1, <2>3, <2>5, <2>6, <2>7, <2>8, <2>9, Zenon DEF Handed
  <2> QED
    BY <2>1, <2>2, <2>10, <2>11
<1>2. CASE reader.style # "printer"
  <2> DEFINE fits == IF Len(lines) <= Room - Len(queue) THEN Len(lines) ELSE Room - Len(queue)
             in == SubSeq(lines, 1, fits)
             out == SubSeq(lines, fits + 1, Len(lines))
  <2>1. queue' = queue \o in /\ refused' = refused \o out /\ shown' = shown
    BY <1>2 DEF Hand
  <2>2. fits \in 0..Len(lines) /\ fits <= Room - Len(queue) /\ Room \in Nat /\ Len(queue) \in Nat
    BY DEF LogAssumption
  <2> HIDE DEF fits
  <2>3. in \in Seq(Event) /\ out \in Seq(Event) /\ Len(in) = fits
    BY <2>2
  <2>4. lines = in \o out
    <3>1. Len(lines) \in Nat /\ 1 \in 1..Len(lines) + 1 /\ fits \in 1 - 1..Len(lines)
          /\ Len(lines) \in fits..Len(lines)
      BY <2>2
    <3>2. in \o out = SubSeq(lines, 1, Len(lines))
      BY <3>1, ConcatAdjacentSubSeq, Zenon
    <3> QED
      BY <3>2, SubSeqFull
  <2> HIDE DEF in, out
  <2>5. queue' \in Seq(Event) /\ Len(queue') <= Room /\ refused' \in Seq(Event)
    BY <2>1, <2>2, <2>3
  <2>6. /\ ToSet(queue') = ToSet(queue) \cup ToSet(in)
        /\ ToSet(refused') = ToSet(refused) \cup ToSet(out)
        /\ ToSet(lines) = ToSet(in) \cup ToSet(out)
    BY <2>1, <2>3, <2>4, SetOfBoth
  <2>7. shown \o queue \in Seq(Event) /\ shown' \o queue' \in Seq(Event)
    BY <2>1, <2>5
  <2>8. Once(shown \o queue \o refused) <=>
          Once(shown \o queue) /\ Once(refused) /\ (ToSet(shown) \cup ToSet(queue)) \cap ToSet(refused) = {}
    BY <2>7, OnceInBoth, SetOfBoth
  <2>9. Once(shown' \o queue' \o refused') <=>
          Once(shown' \o queue') /\ Once(refused') /\ (ToSet(shown') \cup ToSet(queue')) \cap ToSet(refused') = {}
    BY <2>1, <2>5, <2>7, OnceInBoth, SetOfBoth
  <2>10. Once(shown \o queue) <=> Once(shown) /\ Once(queue) /\ ToSet(shown) \cap ToSet(queue) = {}
    BY OnceInBoth
  <2>11. Once(shown' \o queue') <=> Once(shown') /\ Once(queue') /\ ToSet(shown') \cap ToSet(queue') = {}
    BY <2>1, <2>5, OnceInBoth
  <2>12. /\ Once(queue') <=> Once(queue) /\ Once(in) /\ ToSet(queue) \cap ToSet(in) = {}
         /\ Once(refused') <=> Once(refused) /\ Once(out) /\ ToSet(refused) \cap ToSet(out) = {}
         /\ Once(lines) <=> Once(in) /\ Once(out) /\ ToSet(in) \cap ToSet(out) = {}
    BY <2>1, <2>3, <2>4, OnceInBoth
  <2>13. Handed' = Handed \cup ToSet(lines)
    BY <2>1, <2>6 DEF Handed
  <2>14. Once(shown \o queue \o refused) /\ Once(lines) /\ Handed \cap ToSet(lines) = {}
              => Once(shown' \o queue' \o refused')
    <3> DEFINE A == ToSet(shown)  B == ToSet(queue)  C == ToSet(refused)
               D == ToSet(in)     F == ToSet(out)
    <3>1. SUFFICES ASSUME Once(shown \o queue \o refused), Once(lines), Handed \cap ToSet(lines) = {}
                   PROVE  Once(shown' \o queue' \o refused')
      OBVIOUS
    <3>2. (A \cup B) \cap C = {} /\ A \cap B = {} /\ D \cap F = {} /\ (A \cup B \cup C) \cap (D \cup F) = {}
      BY <2>6, <2>8, <2>10, <2>12, <3>1 DEF Handed
    <3>3. A \cap (B \cup D) = {} /\ (A \cup (B \cup D)) \cap (C \cup F) = {}
          /\ B \cap D = {} /\ C \cap F = {}
      <4> HIDE DEF A, B, C, D, F
      <4> QED BY <3>2
    <3>4. Once(queue') /\ Once(refused')
      BY <2>8, <2>10, <2>12, <3>1, <3>3
    <3>5. Once(shown' \o queue')
      BY <2>1, <2>6, <2>8, <2>10, <2>11, <3>1, <3>3, <3>4
    <3> QED
      BY <2>1, <2>6, <2>9, <3>3, <3>4, <3>5
  <2> QED
    BY <2>1, <2>5, <2>13, <2>14
<1> QED
  BY <1>1, <1>2

\* A whole line is its two halves, one behind the other; a half one, and one
\* behind it, is torn, but for the line a writer is at.
PieceInv(i, k) ==
  /\ text[i][k][1] <= logged
  /\ text[i][k][2] = 2 => k > 1 /\ text[i][k - 1] = <<text[i][k][1], 1>>
  /\ text[i][k][2] = 1 =>
       /\ k = 1 \/ text[i][k - 1][2] = 2 \/ text[i][k][1] \in torn
       /\ \/ text[i][k][1] \in torn
          \/ k < Len(text[i]) /\ text[i][k + 1] = <<text[i][k][1], 2>>
          \/ k = Len(text[i]) /\ \E w \in Logger : writer[w].pc = "rest" /\ writer[w].inode = i
TextInv == \A i \in DOMAIN text : \A k \in DOMAIN text[i] : PieceInv(i, k)

\* The first half of an event is in one place.
OnceInv ==
  \A i, j \in DOMAIN text : \A k \in DOMAIN text[i] : \A l \in DOMAIN text[j] :
    text[i][k] = text[j][l] /\ text[i][k][2] = 1 => i = j /\ k = l

\* A writer that is at a line has just written its first half, and has the file
\* to itself.
RestInv ==
  /\ \A w \in Logger : writer[w].pc = "rest" =>
       /\ text[writer[w].inode] /= <<>>
       /\ text[writer[w].inode][Len(text[writer[w].inode])] = <<writer[w].event, 1>>
  /\ \A v, w \in Logger :
       writer[v].pc = "rest" /\ writer[w].pc = "rest" /\ writer[v].inode = writer[w].inode
         => v = w

\* The log is the newest file.
FileInv == file[0] \in {0, Len(text)} /\ RotatedFull

\* Where the follower is in the file it follows, and what it keeps of it.
Unread == {"start", "first", "load"}
PlaceInv ==
  /\ reader.pc /= "start" => reader.fd /= 0
  /\ reader.pc \in Unread => reader.offset = 0 /\ reader.kept = <<>> /\ Handed = {}
  /\ reader.offset <= Size(reader.fd)
KeptFrom == reader.offset - Len(reader.kept)
KeptInv ==
  /\ KeptFrom >= 0
  /\ \A k \in DOMAIN reader.kept :
       reader.kept[k] = text[reader.fd][KeptFrom + k] /\ reader.kept[k][2] = 1
  /\ KeptFrom > 0 => \/ text[reader.fd][KeptFrom][2] = 2
                     \/ text[reader.fd][KeptFrom][1] \in torn

\* Unless a rotation crossed a poll, the follower knows which file it reads, and
\* what it was shown was in older files or before the place it has read to.
FollowInv ==
  ~crossed =>
    /\ reader.pc \notin {"start", "first"} => reader.inode = reader.fd
    /\ reader.pc \in {"first", "load"} => file[0] = reader.fd
    /\ reader.pc \in {"length", "open"} => reader.now = file[0]
    /\ reader.pc = "open" => reader.now /= reader.fd
PastInv ==
  ~crossed =>
    \A e \in Handed : \E i \in 1..reader.fd : \E k \in DOMAIN text[i] :
      text[i][k] = <<e, 2>> /\ (i = reader.fd => k <= reader.offset)

LogInv ==
  /\ LogTypeOK /\ TextInv /\ OnceInv /\ RestInv /\ FileInv
  /\ PlaceInv /\ KeptInv /\ ReadIsShown /\ FollowInv /\ PastInv /\ ShownOnce

\* The log's invariant holds initially.
LEMMA InitLog == LogAssumption /\ LogInit => LogInv
<1> SUFFICES ASSUME LogAssumption, LogInit PROVE LogInv
  OBVIOUS
<1> USE DEF LogInit
<1>1. LogTypeOK
  <2>1. text \in Seq(Seq(Piece)) /\ Len(text) = 0
    OBVIOUS
  <2>2. file \in [Name -> 0..Len(text)]
    BY <2>1 DEF Name
  <2>3. writer \in [Logger -> [pc : {"idle", "check", "try", "held"}]]
    BY DEF AtRest
  <2>4. reader \in [style : {"printer", "view", "replay"}, fd : 0..Len(text),
                 pc : {"start", "first", "load", "poll", "length", "open", "read"},
                 inode : 0..Len(text), now : 0..Len(text), offset : Nat, kept : Seq(Piece)]
    <3>1. <<>> \in Seq(Piece)
      OBVIOUS
    <3> QED
      BY <2>1, <3>1
  <2>5. writer \in [Logger -> [pc : {"idle", "check", "try", "held"}]
                            \cup [pc : {"open"}, inode : 1..Len(text)]
                            \cup [pc : {"rest"}, inode : 1..Len(text), event : Event]]
    BY <2>3
  <2>6. /\ queue \in Seq(Event) /\ Len(queue) <= Room
        /\ shown \in Seq(Event) /\ refused \in Seq(Event)
    BY DEF LogAssumption
  <2>7. logged \in 0..MaxEvents
    BY DEF LogAssumption
  <2>8. rotator \in Logger \cup {"none"} /\ torn \subseteq Event
    OBVIOUS
  <2>9. crossed \in BOOLEAN
    BY Zenon
  <2> QED
    BY <2>1, <2>2, <2>4, <2>5, <2>6, <2>7, <2>8, <2>9 DEF LogTypeOK
<1>2. Handed = {} /\ Len(text) = 0
  BY DEF Handed, ToSet
<1>3. \A w \in Logger : writer[w].pc = "idle"
  BY DEF AtRest
<1>4. reader.pc = "start" /\ reader.fd = 0 /\ reader.offset = 0 /\ reader.kept = <<>>
  OBVIOUS
<1>5. TextInv /\ OnceInv /\ RestInv
  BY <1>3 DEF TextInv, OnceInv, RestInv
<1>6. FileInv
  <2>1. 0 \in Name
    BY DEF Name, Kept, LogAssumption
  <2> QED
    BY <2>1 DEF FileInv, RotatedFull
<1>7. PlaceInv /\ KeptInv /\ ReadIsShown /\ FollowInv /\ PastInv
  BY <1>2, <1>4 DEF PlaceInv, KeptInv, KeptFrom, Size, ReadIsShown, FollowInv, PastInv, Unread
<1>8. ShownOnce
  <2>1. shown \o queue \o refused = <<>>
    OBVIOUS
  <2> QED
    BY <2>1 DEF ShownOnce
<1> QED
  BY <1>1, <1>5, <1>6, <1>7, <1>8 DEF LogInv

\* What a step does to the files' text: it stays, a file is created, or a piece
\* is written behind a file.
Created == text' = Append(text, <<>>)
Written(i, p) == text' = [text EXCEPT ![i] = Append(@, p)]

\* A file is created empty, behind the others.
LEMMA CreatedIs ==
  ASSUME LogTypeOK, Created
  PROVE  /\ Len(text') = Len(text) + 1
         /\ \A i \in DOMAIN text : i \in DOMAIN text' /\ text'[i] = text[i]
         /\ text'[Len(text) + 1] = <<>>
         /\ \A i \in DOMAIN text' : i \in DOMAIN text \/ i = Len(text) + 1
         /\ text' \in Seq(Seq(Piece))
<1>1. <<>> \in Seq(Piece) /\ text \in Seq(Seq(Piece))
  BY DEF LogTypeOK
<1> QED
  BY <1>1 DEF Created

\* A piece is appended to one file and the others stay.
LEMMA WrittenIs ==
  ASSUME LogTypeOK, NEW i \in DOMAIN text, NEW p \in Piece, Written(i, p)
  PROVE  /\ Len(text') = Len(text) /\ DOMAIN text' = DOMAIN text
         /\ \A j \in DOMAIN text : j # i => text'[j] = text[j]
         /\ Len(text'[i]) = Len(text[i]) + 1 /\ Len(text[i]) \in Nat
         /\ text'[i][Len(text[i]) + 1] = p
         /\ \A k \in DOMAIN text[i] : k \in DOMAIN text'[i] /\ text'[i][k] = text[i][k]
         /\ \A k \in DOMAIN text'[i] : k \in DOMAIN text[i] \/ k = Len(text[i]) + 1
         /\ text' \in Seq(Seq(Piece))
<1>1. text \in Seq(Seq(Piece)) /\ text[i] \in Seq(Piece)
  BY DEF LogTypeOK
<1>2. Append(text[i], p) \in Seq(Piece)
  BY <1>1
<1>3. text'[i] = Append(text[i], p) /\ DOMAIN text' = DOMAIN text
  BY <1>1 DEF Written
<1>4. Len(text') = Len(text) /\ text' \in Seq(Seq(Piece))
  BY <1>1, <1>2, ExceptSeq DEF Written
<1>5. \A j \in DOMAIN text : j # i => text'[j] = text[j]
  BY <1>1 DEF Written
<1> QED
  BY <1>1, <1>3, <1>4, <1>5

\* What the writer has open is a file, and what it is at an event.
LEMMA WriterIs ==
  ASSUME LogTypeOK, NEW w \in Logger
  PROVE  /\ writer[w].pc \in {"idle", "check", "try", "held", "open", "rest"}
         /\ writer[w].pc \in {"open", "rest"} => writer[w].inode \in DOMAIN text
         /\ writer[w].pc = "rest" => writer[w].event \in Event
         /\ writer[w].pc = "open" => writer[w] = [pc |-> "open", inode |-> writer[w].inode]
BY DEF LogTypeOK

WriterTypes(n) ==
  [pc : {"idle", "check", "try", "held"}]
    \cup [pc : {"open"}, inode : 1..n]
    \cup [pc : {"rest"}, inode : 1..n, event : Event]
ReaderTypes(n) ==
  [style : {"printer", "view", "replay"}, fd : 0..n,
   pc : {"start", "first", "load", "poll", "length", "open", "read"},
   inode : 0..n, now : 0..n, offset : Nat, kept : Seq(Piece)]

\* The types of the log with the number of files made explicit.
LEMMA TypesAre ==
  LogTypeOK <=>
    /\ text \in Seq(Seq(Piece))
    /\ file \in [Name -> 0..Len(text)]
    /\ writer \in [Logger -> WriterTypes(Len(text))]
    /\ rotator \in Logger \cup {"none"}
    /\ logged \in 0..MaxEvents
    /\ reader \in ReaderTypes(Len(text))
    /\ queue \in Seq(Event) /\ Len(queue) <= Room
    /\ shown \in Seq(Event) /\ refused \in Seq(Event)
    /\ torn \subseteq Event /\ crossed \in BOOLEAN
BY Zenon DEF LogTypeOK, WriterTypes, ReaderTypes

\* The parts of the follower have their types.
LEMMA ReaderIs ==
  ASSUME LogTypeOK
  PROVE  /\ reader.fd \in 0..Len(text) /\ reader.inode \in 0..Len(text)
         /\ reader.now \in 0..Len(text)
         /\ reader.offset \in Nat /\ reader.kept \in Seq(Piece)
         /\ reader.pc \in {"start", "first", "load", "poll", "length", "open", "read"}
BY DEF LogTypeOK

\* The parts of the files have their types.
LEMMA FileIs ==
  ASSUME LogTypeOK
  PROVE  /\ 0 \in Name /\ Kept \in Nat \ {0} /\ Len(text) \in Nat
         /\ \A n \in Name : file[n] \in 0..Len(text)
         /\ DOMAIN text = 1..Len(text)
         /\ \A i \in DOMAIN text : text[i] \in Seq(Piece) /\ Len(text[i]) \in Nat
         /\ \A n \in Name : Size(file[n]) \in Nat
<1>1. Kept \in Nat \ {0}
  BY LogAssumption DEF Kept
<1>2. text \in Seq(Seq(Piece)) /\ Len(text) \in Nat /\ file \in [Name -> 0..Len(text)]
  BY DEF LogTypeOK
<1>3. \A n \in Name : file[n] \in 0..Len(text)
  BY <1>2
<1>4. \A i \in DOMAIN text : text[i] \in Seq(Piece) /\ Len(text[i]) \in Nat
  BY <1>2
<1> QED
  BY <1>1, <1>2, <1>3, <1>4 DEF Name, Size

\* Names, writers and follower of some files are so of more files.
LEMMA MoreFiles ==
  ASSUME LogTypeOK, NEW n \in Nat, n >= Len(text)
  PROVE  /\ file \in [Name -> 0..n]
         /\ writer \in [Logger -> WriterTypes(n)]
         /\ reader \in ReaderTypes(n)
<1>1. Len(text) \in Nat
  BY FileIs
<1>2. 0..Len(text) \subseteq 0..n /\ 1..Len(text) \subseteq 1..n
  BY <1>1
<1>3. file \in [Name -> 0..n]
  BY <1>2 DEF LogTypeOK
<1>4. writer \in [Logger -> WriterTypes(n)]
  <2>1. WriterTypes(Len(text)) \subseteq WriterTypes(n)
    BY <1>2 DEF WriterTypes
  <2> QED
    BY <2>1, TypesAre
<1>5. reader \in ReaderTypes(n)
  BY <1>2 DEF LogTypeOK, ReaderTypes
<1> QED
  BY <1>3, <1>4, <1>5

-----------------------------------------------------------------------------
\* Opening the log keeps the types.
LEMMA OpenTypes == ASSUME LogTypeOK, NEW w \in Logger, OpenLog(w) PROVE LogTypeOK'
<1> USE DEF OpenLog
<1>1. text' \in Seq(Seq(Piece)) /\ Len(text') \in Nat /\ Len(text') >= Len(text)
      /\ file' \in [Name -> 0..Len(text')] /\ file'[0] \in 1..Len(text')
  <2>1. CASE file[0] = 0
    <3>1. Created /\ file' = [file EXCEPT ![0] = Len(text) + 1]
      BY <2>1 DEF Created
    <3>2. text' \in Seq(Seq(Piece)) /\ Len(text') = Len(text) + 1 /\ Len(text) \in Nat
      BY <3>1, CreatedIs, FileIs
    <3>3. file \in [Name -> 0..Len(text')]
      BY <3>2, MoreFiles
    <3> QED
      BY <3>1, <3>2, <3>3, FileIs
  <2>2. CASE file[0] # 0
    <3>1. text' = text /\ file' = file
      BY <2>2
    <3> QED
      BY <2>2, <3>1, FileIs DEF LogTypeOK
  <2> QED
    BY <2>1, <2>2
<1>2. writer \in [Logger -> WriterTypes(Len(text'))] /\ reader \in ReaderTypes(Len(text'))
  BY <1>1, MoreFiles
<1>3. writer' \in [Logger -> WriterTypes(Len(text'))]
  <2>1. [pc |-> "open", inode |-> file'[0]] \in WriterTypes(Len(text'))
    BY <1>1 DEF WriterTypes
  <2> QED
    BY <1>2, <2>1
<1>4. crossed' \in BOOLEAN
  BY Zenon DEF LogTypeOK
<1>5. /\ rotator \in Logger \cup {"none"} /\ logged \in 0..MaxEvents
      /\ queue \in Seq(Event) /\ Len(queue) <= Room
      /\ shown \in Seq(Event) /\ refused \in Seq(Event) /\ torn \subseteq Event
  BY DEF LogTypeOK
<1>6. UNCHANGED <<rotator, logged, reader, queue, shown, refused, torn>>
  OBVIOUS
<1> QED
  BY <1>1, <1>2, <1>3, <1>4, <1>5, <1>6 DEF LogTypeOK, WriterTypes, ReaderTypes

\* A writer appends the first or the second piece of its line.
LEMMA WriteEffect ==
  ASSUME LogTypeOK, NEW w \in Logger, WriteLine(w) \/ WriteRest(w)
  PROVE  /\ \E i \in DOMAIN text : \E p \in Piece :
              /\ writer[w].inode = i /\ Written(i, p)
              /\ WriteLine(w) => p = <<logged + 1, 1>> /\ logged' = logged + 1
              /\ WriteRest(w) => p = <<writer[w].event, 2>> /\ logged' = logged
         /\ logged' \in 0..MaxEvents /\ logged <= logged'
         /\ torn \subseteq torn' /\ torn' \subseteq Event
<1>1. CASE WriteLine(w)
  <2>1. writer[w].pc = "open" /\ logged < MaxEvents /\ logged' = logged + 1
        /\ Written(writer[w].inode, <<logged + 1, 1>>)
        /\ torn' = IF Half(writer[w].inode) THEN torn \cup {logged + 1} ELSE torn
    BY <1>1 DEF WriteLine, Written
  <2>2. writer[w].inode \in DOMAIN text
    BY <2>1, WriterIs
  <2>3. logged \in 0..MaxEvents /\ torn \subseteq Event /\ MaxEvents \in Nat
    BY LogAssumption DEF LogTypeOK
  <2>4. logged + 1 \in Event
    BY <2>1, <2>3 DEF Event
  <2>5. <<logged + 1, 1>> \in Piece
    BY <2>4 DEF Piece
  <2>6. ~WriteRest(w)
    BY <2>1 DEF WriteRest
  <2> QED
    BY <1>1, <2>1, <2>2, <2>3, <2>4, <2>5, <2>6
<1>2. CASE WriteRest(w)
  <2>1. writer[w].pc = "rest" /\ logged' = logged /\ torn' = torn
        /\ Written(writer[w].inode, <<writer[w].event, 2>>)
    BY <1>2 DEF WriteRest, Written
  <2>2. writer[w].inode \in DOMAIN text /\ writer[w].event \in Event
    BY <2>1, WriterIs
  <2>3. <<writer[w].event, 2>> \in Piece
    BY <2>2 DEF Piece
  <2>4. ~WriteLine(w)
    BY <2>1 DEF WriteLine
  <2>5. logged \in 0..MaxEvents /\ torn \subseteq Event
    BY DEF LogTypeOK
  <2> QED
    BY <1>2, <2>1, <2>2, <2>3, <2>4, <2>5
<1> QED
  BY <1>1, <1>2

\* Writing keeps the types.
LEMMA WriteTypes ==
  ASSUME LogTypeOK, NEW w \in Logger, WriteLine(w) \/ WriteRest(w) PROVE LogTypeOK'
<1>1. PICK i \in DOMAIN text, p \in Piece : writer[w].inode = i /\ Written(i, p)
  BY WriteEffect
<1>2. text' \in Seq(Seq(Piece)) /\ Len(text') = Len(text)
  BY <1>1, WrittenIs
<1>3. logged' \in 0..MaxEvents /\ torn' \subseteq Event
  BY WriteEffect
<1>4. writer' \in [Logger -> WriterTypes(Len(text))]
  <2>0. writer \in [Logger -> WriterTypes(Len(text))]
    BY TypesAre
  <2>1. CASE WriteLine(w)
    <3>1. writer[w].pc = "open" /\ logged' = logged + 1
          /\ writer' = [writer EXCEPT ![w] = [pc |-> "rest", inode |-> writer[w].inode, event |-> logged + 1]]
      BY <2>1 DEF WriteLine
    <3>2. logged + 1 \in Event /\ writer[w].inode \in 1..Len(text)
      <4>1. logged \in 0..MaxEvents /\ logged < MaxEvents /\ MaxEvents \in Nat
        BY <2>1, LogAssumption DEF LogTypeOK, WriteLine
      <4>2. writer[w].inode \in DOMAIN text /\ DOMAIN text = 1..Len(text)
        BY <3>1, WriterIs, FileIs
      <4>3. logged + 1 \in Event
        BY <4>1 DEF Event
      <4> QED
        BY <4>2, <4>3
    <3>3. [pc |-> "rest", inode |-> writer[w].inode, event |-> logged + 1] \in WriterTypes(Len(text))
      BY <3>2 DEF WriterTypes
    <3> QED
      BY <2>0, <3>1, <3>3
  <2>2. CASE WriteRest(w)
    <3>1. PICK next \in {"idle", "check"} : writer' = [writer EXCEPT ![w] = [pc |-> next]]
      BY <2>2 DEF WriteRest
    <3>2. [pc |-> next] \in WriterTypes(Len(text))
      BY DEF WriterTypes
    <3> QED
      BY <2>0, <3>1, <3>2
  <2> QED
    BY <2>1, <2>2
<1>5. UNCHANGED <<file, rotator, reader, queue, shown, refused, crossed>>
  BY DEF WriteLine, WriteRest
<1>6. /\ file \in [Name -> 0..Len(text)] /\ rotator \in Logger \cup {"none"}
      /\ reader \in ReaderTypes(Len(text))
      /\ queue \in Seq(Event) /\ Len(queue) <= Room
      /\ shown \in Seq(Event) /\ refused \in Seq(Event) /\ crossed \in BOOLEAN
  BY TypesAre, Zenon
<1> QED
  BY <1>2, <1>3, <1>4, <1>5, <1>6 DEF LogTypeOK, WriterTypes, ReaderTypes

\* The writer's steps that write nothing.
Moves(w) == CheckSize(w) \/ TryLock(w) \/ Rotate(w) \/ KillWriter(w)

\* A writer that does not write leaves texts and follower as they are.
LEMMA MoveEffect ==
  ASSUME LogTypeOK, NEW w \in Logger, Moves(w)
  PROVE  /\ UNCHANGED <<text, logged, reader, queue, shown, refused>>
         /\ torn \subseteq torn' /\ torn' \subseteq Event
         /\ ~KillWriter(w) => torn' = torn
         /\ \E s \in [pc : {"idle", "try", "held"}] : writer' = [writer EXCEPT ![w] = s]
         /\ writer[w].pc = "rest" => KillWriter(w)
<1>1. CASE CheckSize(w)
  <2>1. /\ writer[w].pc = "check"
        /\ \/ writer' = [writer EXCEPT ![w] = [pc |-> "try"]]
           \/ writer' = [writer EXCEPT ![w] = [pc |-> "idle"]]
        /\ UNCHANGED <<text, logged, reader, queue, shown, refused, torn>>
    BY <1>1 DEF CheckSize, AtRest
  <2> QED
    BY <1>1, <2>1 DEF LogTypeOK
<1>2. CASE TryLock(w)
  <2>1. /\ writer[w].pc = "try"
        /\ \/ writer' = [writer EXCEPT ![w] = [pc |-> "held"]]
           \/ writer' = [writer EXCEPT ![w] = [pc |-> "idle"]]
        /\ UNCHANGED <<text, logged, reader, queue, shown, refused, torn>>
    BY <1>2 DEF TryLock, AtRest
  <2> QED
    BY <1>2, <2>1 DEF LogTypeOK
<1>3. CASE Rotate(w)
  BY <1>3 DEF Rotate, AtRest, LogTypeOK
<1>4. CASE KillWriter(w)
  <2>1. writer[w].pc = "rest" => writer[w].event \in Event
    BY WriterIs
  <2> QED
    BY <1>4, <2>1 DEF KillWriter, AtRest, LogTypeOK
<1> QED
  BY <1>1, <1>2, <1>3, <1>4 DEF Moves

\* A rotation shifts names to files.
LEMMA ShiftTypes ==
  ASSUME LogTypeOK PROVE Shift \in [Name -> 0..Len(text)]
<1>1. ASSUME NEW n \in Name, n # 0 PROVE n - 1 \in Name
  BY <1>1, FileIs DEF Name
<1> QED
  BY <1>1, FileIs DEF Shift

\* Moving on without writing keeps the types.
LEMMA MoveTypes == ASSUME LogTypeOK, NEW w \in Logger, Moves(w) PROVE LogTypeOK'
<1>1. UNCHANGED <<text, logged, reader, queue, shown, refused>> /\ torn' \subseteq Event
  BY MoveEffect
<1>2. writer' \in [Logger -> WriterTypes(Len(text))]
  <2>1. PICK s \in [pc : {"idle", "try", "held"}] : writer' = [writer EXCEPT ![w] = s]
    BY MoveEffect
  <2>2. s \in WriterTypes(Len(text))
    BY DEF WriterTypes
  <2>3. writer \in [Logger -> WriterTypes(Len(text))]
    BY TypesAre
  <2> QED
    BY <2>1, <2>2, <2>3
<1>3. file' \in [Name -> 0..Len(text)]
  <2>1. file \in [Name -> 0..Len(text)]
    BY TypesAre
  <2>2. file' = file \/ file' = Shift
    BY DEF Moves, CheckSize, TryLock, Rotate, KillWriter
  <2> QED
    BY <2>1, <2>2, ShiftTypes
<1>4. rotator' \in Logger \cup {"none"}
  <2>1. rotator \in Logger \cup {"none"}
    BY TypesAre
  <2>2. rotator' \in {rotator, w, "none"}
    BY DEF Moves, CheckSize, TryLock, Rotate, KillWriter
  <2> QED
    BY <2>1, <2>2
<1>5. crossed' \in BOOLEAN
  <2>1. crossed' = crossed \/ crossed' = (crossed \/ (file' /= file /\ Polling))
    BY DEF Moves, CheckSize, TryLock, Rotate, KillWriter
  <2>2. crossed \in BOOLEAN
    BY TypesAre
  <2> QED
    BY <2>1, <2>2, Zenon
<1>6. /\ text \in Seq(Seq(Piece)) /\ logged \in 0..MaxEvents
      /\ reader \in ReaderTypes(Len(text))
      /\ queue \in Seq(Event) /\ Len(queue) <= Room
      /\ shown \in Seq(Event) /\ refused \in Seq(Event)
  BY TypesAre
<1> QED
  BY <1>1, <1>2, <1>3, <1>4, <1>5, <1>6 DEF LogTypeOK, WriterTypes, ReaderTypes

\* What a read of the follower takes: what it kept and what is new.
Taken == reader.kept \o SubSeq(text[reader.fd], reader.offset + 1, Size(reader.fd))

\* What the follower reads is the rest of the file from where its half line began.
LEMMA TakenIs ==
  ASSUME LogTypeOK, PlaceInv, KeptInv, reader.pc \in {"load", "read"}
  PROVE  /\ reader.fd \in DOMAIN text /\ Size(reader.fd) = Len(text[reader.fd])
         /\ KeptFrom \in 0..Len(text[reader.fd])
         /\ Taken \in Seq(Piece) /\ Len(Taken) = Len(text[reader.fd]) - KeptFrom
         /\ \A k \in DOMAIN Taken :
              /\ KeptFrom + k \in DOMAIN text[reader.fd]
              /\ Taken[k] = text[reader.fd][KeptFrom + k]
              /\ KeptFrom + k <= reader.offset => Taken[k][2] = 1
         /\ \A k \in DOMAIN text[reader.fd] : k > KeptFrom => k - KeptFrom \in DOMAIN Taken
         /\ reader.pc = "load" => Taken = text[reader.fd]
<1> DEFINE t == text[reader.fd]
           fresh == SubSeq(t, reader.offset + 1, Len(t))
<1>1. reader.fd \in DOMAIN text /\ t \in Seq(Piece) /\ Len(t) \in Nat /\ Size(reader.fd) = Len(t)
      /\ reader.offset \in Nat /\ reader.kept \in Seq(Piece) /\ reader.offset <= Len(t)
  <2>1. reader.fd # 0 /\ reader.fd \in 0..Len(text)
    BY ReaderIs DEF PlaceInv
  <2>2. reader.fd \in DOMAIN text
    BY <2>1, FileIs
  <2>3. Size(reader.fd) = Len(t)
    BY <2>1 DEF Size
  <2> QED
    BY <2>2, <2>3, ReaderIs, FileIs DEF PlaceInv
<1>2. Taken = reader.kept \o fresh
  BY <1>1 DEF Taken
<1>k. KeptFrom = reader.offset - Len(reader.kept) /\ KeptFrom >= 0
      /\ \A k \in DOMAIN reader.kept : reader.kept[k] = t[KeptFrom + k] /\ reader.kept[k][2] = 1
      /\ Len(reader.kept) \in Nat /\ DOMAIN reader.kept = 1..Len(reader.kept)
  BY <1>1 DEF KeptInv, KeptFrom
<1> HIDE DEF t
<1>3. fresh \in Seq(Piece) /\ Len(fresh) = Len(t) - reader.offset
      /\ \A k \in 1..Len(fresh) : fresh[k] = t[reader.offset + k]
  <2> DEFINE m == reader.offset + 1
             n == Len(t)
  <2>1. m \in Int /\ n \in Int /\ \A i \in m..n : t[i] \in Piece
    BY <1>1
  <2>2. /\ SubSeq(t, m, n) \in Seq(Piece)
        /\ Len(SubSeq(t, m, n)) = IF m <= n THEN n - m + 1 ELSE 0
        /\ \A i \in 1..n - m + 1 : SubSeq(t, m, n)[i] = t[m + i - 1]
    <3> HIDE DEF m, n
    <3> QED BY <2>1, SubSeqProperties
  <2>3. Len(SubSeq(t, m, n)) = Len(t) - reader.offset
    BY <1>1, <2>2
  <2>4. ASSUME NEW k \in 1..Len(SubSeq(t, m, n)) PROVE SubSeq(t, m, n)[k] = t[reader.offset + k]
    <3>1. k \in 1..n - m + 1 /\ m + k - 1 = reader.offset + k
      BY <1>1, <2>3
    <3> QED
      BY <2>2, <3>1
  <2> HIDE DEF m, n
  <2> QED
    BY <2>2, <2>3, <2>4 DEF m, n
<1> HIDE DEF fresh
<1>4. /\ Taken \in Seq(Piece) /\ Len(Taken) = Len(reader.kept) + Len(fresh)
      /\ \A k \in 1..Len(Taken) : Taken[k] = IF k <= Len(reader.kept) THEN reader.kept[k]
                                             ELSE fresh[k - Len(reader.kept)]
  <2> DEFINE half == reader.kept
  <2>1. half \in Seq(Piece)
    BY <1>1
  <2> HIDE DEF half
  <2>2. /\ half \o fresh \in Seq(Piece) /\ Len(half \o fresh) = Len(half) + Len(fresh)
        /\ \A i \in 1..Len(half) + Len(fresh) :
             (half \o fresh)[i] = IF i <= Len(half) THEN half[i] ELSE fresh[i - Len(half)]
    BY <1>3, <2>1, ConcatProperties
  <2> QED
    BY <1>2, <2>2 DEF half
<1>5. Len(Taken) = Len(t) - KeptFrom /\ KeptFrom \in 0..Len(t)
  BY <1>1, <1>3, <1>4, <1>k
<1>6. ASSUME NEW k \in DOMAIN Taken
      PROVE  /\ KeptFrom + k \in DOMAIN t /\ Taken[k] = t[KeptFrom + k]
             /\ KeptFrom + k <= reader.offset => Taken[k][2] = 1
  <2>1. k \in 1..Len(Taken) /\ k \in Nat
    BY <1>4
  <2>2. KeptFrom + k \in DOMAIN t
    BY <1>1, <1>5, <2>1
  <2>3. CASE k <= Len(reader.kept)
    <3>1. k \in DOMAIN reader.kept /\ Taken[k] = reader.kept[k]
      BY <1>4, <1>k, <2>1, <2>3
    <3> QED
      BY <1>k, <2>2, <3>1
  <2>4. CASE k > Len(reader.kept)
    <3>1. Taken[k] = fresh[k - Len(reader.kept)] /\ k - Len(reader.kept) \in 1..Len(fresh)
      BY <1>1, <1>3, <1>4, <1>k, <2>1, <2>4
    <3>2. reader.offset + (k - Len(reader.kept)) = KeptFrom + k /\ ~(KeptFrom + k <= reader.offset)
      BY <1>1, <1>k, <2>1, <2>4
    <3> QED
      BY <1>3, <2>2, <3>1, <3>2
  <2> QED
    BY <1>k, <2>1, <2>3, <2>4
<1>7. \A k \in DOMAIN t : k > KeptFrom => k - KeptFrom \in DOMAIN Taken
  BY <1>1, <1>4, <1>5
<1>8. reader.pc = "load" => Taken = t
  <2> SUFFICES ASSUME reader.pc = "load" PROVE Taken = t
    OBVIOUS
  <2>1. reader.offset = 0 /\ reader.kept = <<>>
    BY DEF PlaceInv, Unread
  <2>2. KeptFrom = 0
    <3>1. Len(reader.kept) = 0
      BY <2>1
    <3>2. KeptFrom = 0 - 0
      BY <2>1, <3>1 DEF KeptFrom
    <3> QED
      BY <3>2
  <2> QED
    BY <1>1, <1>4, <1>5, <1>6, <2>2, SeqEqual
<1> QED
  BY <1>1, <1>4, <1>5, <1>6, <1>7, <1>8 DEF t

\* What the two reads have in common.
LEMMA ReadEffect ==
  ASSUME LogTypeOK, PlaceInv, KeptInv, LoadExisting \/ ReadNew
  PROVE  /\ reader.pc \in {"load", "read"} /\ reader'.pc = "poll"
         /\ Hand(Lines(Taken)) /\ Lines(Taken) \in Seq(Event)
         /\ reader'.fd = reader.fd /\ reader'.inode = reader.inode
         /\ reader'.offset = Len(text[reader.fd])
         /\ torn' \in {torn, torn \cup Seen(Remainder(Taken))}
         /\ \/ reader'.kept = Remainder(Taken)
            \/ reader'.kept = <<>> /\ torn' = torn \cup Seen(Remainder(Taken))
         /\ UNCHANGED <<file, text, writer, rotator, logged, crossed>>
         /\ reader' \in ReaderTypes(Len(text))
         /\ torn' \subseteq Event
<1>1. reader.pc \in {"load", "read"}
  BY DEF LoadExisting, ReadNew
<1>2. Taken \in Seq(Piece) /\ Size(reader.fd) = Len(text[reader.fd]) /\ reader.fd \in DOMAIN text
  BY <1>1, TakenIs
<1>3. Lines(Taken) \in Seq(Event)
  BY <1>2, LinesAre
<1>4. Remainder(Taken) \in Seq(Piece)
  <2>1. PICK r \in 0..Len(Taken) : Remainder(Taken) = SubSeq(Taken, r + 1, Len(Taken))
    BY <1>2, RemainderIs
  <2> QED
    BY <1>2, <2>1
<1>5. Seen(Remainder(Taken)) \subseteq Event
  <2>1. \A k \in DOMAIN Remainder(Taken) : Remainder(Taken)[k] \in Piece
    BY <1>4
  <2> QED
    BY <2>1 DEF Seen, Piece
<1>6. reader \in ReaderTypes(Len(text)) /\ Size(reader.fd) \in Nat /\ torn \subseteq Event
  BY <1>2, TypesAre, FileIs
<1>7. CASE LoadExisting
  <2>1. reader.pc = "load"
    BY <1>7 DEF LoadExisting
  <2>2. Taken = text[reader.fd] /\ reader.kept = <<>>
    BY <2>1, TakenIs DEF PlaceInv, Unread
  <2>3. /\ Hand(Lines(Taken)) /\ torn' = torn \cup Seen(Remainder(Taken))
        /\ reader' = [reader EXCEPT !.pc = "poll", !.offset = Size(reader.fd)]
        /\ UNCHANGED <<file, text, writer, rotator, logged, crossed>>
    BY <1>7, <2>2 DEF LoadExisting
  <2>4. reader' \in ReaderTypes(Len(text))
    BY <1>6, <2>3 DEF ReaderTypes
  <2>5. reader'.pc = "poll" /\ reader'.fd = reader.fd /\ reader'.inode = reader.inode
        /\ reader'.offset = Size(reader.fd) /\ reader'.kept = reader.kept
    BY <1>6, <2>3 DEF ReaderTypes
  <2> QED
    BY <1>1, <1>2, <1>3, <1>5, <1>6, <2>2, <2>3, <2>4, <2>5
<1>8. CASE ReadNew
  <2> DEFINE keeps == reader.style /= "replay"
  <2>3. /\ Hand(Lines(Taken))
        /\ torn' = IF keeps THEN torn ELSE torn \cup Seen(Remainder(Taken))
        /\ reader' = [reader EXCEPT !.pc = "poll", !.offset = Size(reader.fd),
                                    !.kept = IF keeps THEN Remainder(Taken) ELSE <<>>]
        /\ UNCHANGED <<file, text, writer, rotator, logged, crossed>>
    BY <1>8 DEF ReadNew, Taken
  <2> HIDE DEF keeps
  <2>4. <<>> \in Seq(Piece)
    OBVIOUS
  <2>5. (IF keeps THEN Remainder(Taken) ELSE <<>>) \in Seq(Piece)
    BY <1>4, <2>4
  <2>6. reader' \in ReaderTypes(Len(text))
    BY <1>6, <2>3, <2>5 DEF ReaderTypes
  <2>7. reader'.pc = "poll" /\ reader'.fd = reader.fd /\ reader'.inode = reader.inode
        /\ reader'.offset = Size(reader.fd)
        /\ reader'.kept = IF keeps THEN Remainder(Taken) ELSE <<>>
    BY <1>6, <2>3 DEF ReaderTypes
  <2> QED
    BY <1>1, <1>2, <1>3, <1>5, <1>6, <2>3, <2>6, <2>7
<1> QED
  BY <1>7, <1>8

\* Reading keeps the types.
LEMMA ReadTypes ==
  ASSUME LogTypeOK, PlaceInv, KeptInv, LoadExisting \/ ReadNew PROVE LogTypeOK'
<1>1. /\ Hand(Lines(Taken)) /\ Lines(Taken) \in Seq(Event)
      /\ UNCHANGED <<file, text, writer, rotator, logged, crossed>>
      /\ reader' \in ReaderTypes(Len(text)) /\ torn' \subseteq Event
  BY ReadEffect
<1>2. /\ queue' \in Seq(Event) /\ Len(queue') <= Room
      /\ shown' \in Seq(Event) /\ refused' \in Seq(Event)
  BY <1>1, LogAssumption, HandAdds
<1>3. /\ text \in Seq(Seq(Piece))
      /\ file \in [Name -> 0..Len(text)]
      /\ writer \in [Logger -> WriterTypes(Len(text))]
      /\ rotator \in Logger \cup {"none"} /\ logged \in 0..MaxEvents /\ crossed \in BOOLEAN
  BY TypesAre, Zenon
<1> QED
  BY <1>1, <1>2, <1>3 DEF LogTypeOK, WriterTypes, ReaderTypes

\* The follower's other steps.
Asks == Follow \/ FirstInode \/ PollInode \/ PollLength \/ Reopen

\* Between its reads the follower changes its own place alone.
LEMMA AskEffect ==
  ASSUME LogTypeOK, Asks
  PROVE  /\ UNCHANGED <<file, text, writer, rotator, logged, queue, shown, refused, crossed>>
         /\ reader' \in ReaderTypes(Len(text))
         /\ torn \subseteq torn' /\ torn' \subseteq Event
<1>1. UNCHANGED <<file, text, writer, rotator, logged, queue, shown, refused, crossed>>
  BY DEF Asks, Follow, FirstInode, PollInode, PollLength, Reopen
<1>2. reader \in ReaderTypes(Len(text)) /\ file[0] \in 0..Len(text)
  BY TypesAre, FileIs
<1>3. torn \subseteq torn' /\ torn' \subseteq Event
  <2>1. Seen(reader.kept) \subseteq Event
    <3>1. \A k \in DOMAIN reader.kept : reader.kept[k] \in Piece
      BY ReaderIs
    <3> QED
      BY <3>1 DEF Seen, Piece
  <2>2. torn' \in {torn, torn \cup Seen(reader.kept)}
    BY DEF Asks, Follow, FirstInode, PollInode, PollLength, Reopen
  <2>3. torn \subseteq Event
    BY TypesAre
  <2> QED
    BY <2>1, <2>2, <2>3
<1>4. reader' \in ReaderTypes(Len(text))
  <2> USE DEF ReaderTypes
  <2>1. CASE Follow
    BY <1>2, <2>1 DEF Follow
  <2>2. CASE FirstInode
    BY <1>2, <2>2 DEF FirstInode
  <2>3. CASE PollInode
    BY <1>2, <2>3 DEF PollInode
  <2>4. CASE PollLength
    BY <1>2, <2>4 DEF PollLength
  <2>5. CASE Reopen
    <3>1. CASE file[0] = 0
      BY <1>2, <2>5, <3>1 DEF Reopen
    <3>2. CASE file[0] # 0
      <4>1. reader' = [reader EXCEPT !.pc = "read", !.fd = file[0], !.inode = reader.now,
                                   !.offset = 0, !.kept = <<>>]
        BY <2>5, <3>2 DEF Reopen
      <4>2. <<>> \in Seq(Piece) /\ reader.now \in 0..Len(text)
        BY ReaderIs
      <4> QED
        BY <1>2, <4>1, <4>2
    <3> QED
      BY <3>1, <3>2
  <2> QED
    BY <2>1, <2>2, <2>3, <2>4, <2>5 DEF Asks
<1> QED
  BY <1>1, <1>3, <1>4

\* The follower's other steps keep the types.
LEMMA AskTypes == ASSUME LogTypeOK, Asks PROVE LogTypeOK'
<1>1. /\ text \in Seq(Seq(Piece))
      /\ file \in [Name -> 0..Len(text)]
      /\ writer \in [Logger -> WriterTypes(Len(text))]
      /\ rotator \in Logger \cup {"none"} /\ logged \in 0..MaxEvents /\ crossed \in BOOLEAN
      /\ queue \in Seq(Event) /\ Len(queue) <= Room
      /\ shown \in Seq(Event) /\ refused \in Seq(Event)
  BY TypesAre, Zenon
<1> QED
  BY <1>1, AskEffect DEF LogTypeOK, WriterTypes, ReaderTypes

\* An event taken from the channel is shown, and what was handed on is the same.
LEMMA TakeEffect ==
  ASSUME LogTypeOK, TakeEvent
  PROVE  /\ queue' \in Seq(Event) /\ Len(queue') <= Room /\ shown' \in Seq(Event)
         /\ Handed' = Handed /\ shown' \o queue' \o refused' = shown \o queue \o refused
<1>1. queue \in Seq(Event) /\ shown \in Seq(Event) /\ refused \in Seq(Event) /\ Len(queue) <= Room
  BY TypesAre
<1>2. queue # <<>> /\ queue' = Tail(queue) /\ shown' = Append(shown, queue[1]) /\ refused' = refused
  BY DEF TakeEvent
<1>3. /\ queue' \in Seq(Event) /\ Len(queue') = Len(queue) - 1 /\ shown' \in Seq(Event)
      /\ Len(shown') = Len(shown) + 1
  BY <1>1, <1>2
<1>4. Len(queue') <= Room
  BY <1>1, <1>3, LogAssumption
<1>5. shown' \o queue' = shown \o queue
  <2>1. shown' \o queue' \in Seq(Event) /\ shown \o queue \in Seq(Event)
        /\ Len(shown' \o queue') = Len(shown \o queue)
    <3>1. /\ shown' \o queue' \in Seq(Event) /\ shown \o queue \in Seq(Event)
          /\ Len(shown' \o queue') = Len(shown') + Len(queue')
          /\ Len(shown \o queue) = Len(shown) + Len(queue)
      BY <1>1, <1>3, ConcatProperties
    <3>2. Len(shown) \in Nat /\ Len(queue) \in Nat
      BY <1>1
    <3> QED
      BY <1>3, <3>1, <3>2
  <2>2. ASSUME NEW k \in 1..Len(shown \o queue)
        PROVE  (shown' \o queue')[k] = (shown \o queue)[k]
    <3>1. Len(shown \o queue) = Len(shown) + Len(queue) /\ Len(shown) \in Nat /\ Len(queue) \in Nat
      BY <1>1
    <3>2. CASE k <= Len(shown)
      <4>1. (shown \o queue)[k] = shown[k]
        BY <1>1, <3>1, <3>2
      <4>2. (shown' \o queue')[k] = shown'[k]
        BY <1>1, <1>3, <3>1, <3>2
      <4>3. shown'[k] = shown[k]
        BY <1>1, <1>2, <3>1, <3>2
      <4> QED
        BY <4>1, <4>2, <4>3
    <3>3. CASE k = Len(shown) + 1
      <4>1. (shown \o queue)[k] = queue[1]
        BY <1>1, <3>1, <3>3
      <4>2. (shown' \o queue')[k] = shown'[k]
        BY <1>1, <1>3, <3>1, <3>3
      <4>3. shown'[k] = queue[1]
        BY <1>1, <1>2, <3>1, <3>3
      <4> QED
        BY <4>1, <4>2, <4>3
    <3>4. CASE k > Len(shown) + 1
      <4>1. (shown \o queue)[k] = queue[k - Len(shown)]
        BY <1>1, <3>1, <3>4
      <4>2. (shown' \o queue')[k] = queue'[k - (Len(shown) + 1)]
        BY <1>1, <1>3, <3>1, <3>4
      <4>3. queue'[k - (Len(shown) + 1)] = queue[k - Len(shown)]
        BY <1>1, <1>2, <1>3, <3>1, <3>4
      <4> QED
        BY <4>1, <4>2, <4>3
    <3>5. k \in Nat
      BY <3>1
    <3>6. k <= Len(shown) \/ k = Len(shown) + 1 \/ k > Len(shown) + 1
      BY <3>1, <3>5
    <3> QED
      BY <3>2, <3>3, <3>4, <3>6
  <2> QED
    BY <2>1, <2>2, SeqEqual
<1>6. Handed' = Handed
  <2>1. ToSet(shown \o queue) = ToSet(shown) \cup ToSet(queue)
    BY <1>1, SetOfBoth
  <2>2. ToSet(shown' \o queue') = ToSet(shown') \cup ToSet(queue')
    BY <1>3, SetOfBoth
  <2>3. ToSet(refused') = ToSet(refused)
    BY <1>2
  <2> QED
    BY <1>5, <2>1, <2>2, <2>3 DEF Handed
<1> QED
  BY <1>2, <1>3, <1>4, <1>5, <1>6

\* Taking an event keeps the types.
LEMMA TakeTypes == ASSUME LogTypeOK, TakeEvent PROVE LogTypeOK'
<1>1. UNCHANGED <<file, text, writer, rotator, logged, reader, refused, torn, crossed>>
  BY DEF TakeEvent
<1>2. /\ text \in Seq(Seq(Piece))
      /\ file \in [Name -> 0..Len(text)]
      /\ writer \in [Logger -> WriterTypes(Len(text))] /\ reader \in ReaderTypes(Len(text))
      /\ rotator \in Logger \cup {"none"} /\ logged \in 0..MaxEvents /\ crossed \in BOOLEAN
      /\ refused \in Seq(Event) /\ torn \subseteq Event
  BY TypesAre, Zenon
<1> QED
  BY <1>1, <1>2, TakeEffect DEF LogTypeOK, WriterTypes, ReaderTypes

LineInv == TextInv /\ OnceInv /\ RestInv

\* The lines stay as they are while none is written; a killed writer's is torn.
LEMMA LinesStay ==
  ASSUME LogTypeOK, LineInv, text' \in Seq(Seq(Piece)), logged' = logged, torn \subseteq torn',
         NEW w \in Logger,
         \A i \in DOMAIN text : i \in DOMAIN text' /\ text'[i] = text[i],
         \A i \in DOMAIN text' : i \in DOMAIN text \/ text'[i] = <<>>,
         \A v \in Logger \ {w} : writer'[v] = writer[v],
         writer'[w].pc # "rest",
         writer[w].pc = "rest" => writer[w].event \in torn'
  PROVE  LineInv'
<1>1. ASSUME NEW i \in DOMAIN text', NEW k \in DOMAIN text'[i]
      PROVE  i \in DOMAIN text /\ k \in DOMAIN text[i] /\ text'[i] = text[i]
  <2>1. text'[i] # <<>>
    OBVIOUS
  <2> QED
    BY <2>1
<1>2. ASSUME NEW v \in Logger, writer'[v].pc = "rest"
      PROVE  writer'[v] = writer[v] /\ v # w /\ writer[v].inode \in DOMAIN text
  BY <1>2, WriterIs
<1>3. ASSUME NEW i \in DOMAIN text', NEW k \in DOMAIN text'[i]
      PROVE  PieceInv(i, k)'
  <2>1. i \in DOMAIN text /\ k \in DOMAIN text[i] /\ text'[i] = text[i]
    BY <1>1
  <2>2. /\ text[i][k][1] <= logged
        /\ text[i][k][2] = 2 => k > 1 /\ text[i][k - 1] = <<text[i][k][1], 1>>
        /\ text[i][k][2] = 1 =>
             /\ k = 1 \/ text[i][k - 1][2] = 2 \/ text[i][k][1] \in torn
             /\ \/ text[i][k][1] \in torn
                \/ k < Len(text[i]) /\ text[i][k + 1] = <<text[i][k][1], 2>>
                \/ k = Len(text[i]) /\ \E v \in Logger : writer[v].pc = "rest" /\ writer[v].inode = i
    BY <2>1 DEF LineInv, TextInv, PieceInv
  <2>3. ASSUME k = Len(text[i]), NEW v \in Logger, writer[v].pc = "rest", writer[v].inode = i
        PROVE  \/ text[i][k][1] \in torn'
               \/ \E u \in Logger : writer'[u].pc = "rest" /\ writer'[u].inode = i
    <3>1. CASE v = w
      <4>1. text[i][k] = <<writer[w].event, 1>>
        BY <2>3, <3>1 DEF LineInv, RestInv
      <4> QED
        BY <2>3, <3>1, <4>1
    <3>2. CASE v # w
      BY <2>3, <3>2
    <3> QED
      BY <3>1, <3>2
  <2> QED
    BY <2>1, <2>2, <2>3 DEF PieceInv
<1>4. TextInv'
  BY <1>3 DEF TextInv
<1>5. OnceInv'
  <2> SUFFICES ASSUME NEW i \in DOMAIN text', NEW j \in DOMAIN text',
                      NEW k \in DOMAIN text'[i], NEW l \in DOMAIN text'[j],
                      text'[i][k] = text'[j][l], text'[i][k][2] = 1
               PROVE  i = j /\ k = l
    BY DEF OnceInv
  <2> QED
    BY <1>1 DEF LineInv, OnceInv
<1>6. RestInv'
  <2>1. ASSUME NEW v \in Logger, writer'[v].pc = "rest"
        PROVE  /\ text'[writer'[v].inode] # <<>>
               /\ text'[writer'[v].inode][Len(text'[writer'[v].inode])] = <<writer'[v].event, 1>>
    <3>1. writer'[v] = writer[v] /\ text'[writer[v].inode] = text[writer[v].inode]
      BY <1>2, <2>1
    <3> QED
      BY <2>1, <3>1 DEF LineInv, RestInv
  <2>2. ASSUME NEW u \in Logger, NEW v \in Logger, writer'[u].pc = "rest", writer'[v].pc = "rest",
               writer'[u].inode = writer'[v].inode
        PROVE  u = v
    BY <1>2, <2>2 DEF LineInv, RestInv
  <2> QED
    BY <2>1, <2>2 DEF RestInv
<1> QED
  BY <1>4, <1>5, <1>6 DEF LineInv

\* Where no text changes, the lines are as they were.
LEMMA LinesUnread ==
  ASSUME LogTypeOK, LineInv, UNCHANGED <<text, logged, writer>>, torn \subseteq torn'
  PROVE  LineInv'
<1>1. TextInv'
  <2>1. ASSUME NEW i \in DOMAIN text', NEW k \in DOMAIN text'[i] PROVE PieceInv(i, k)'
    <3>1. PieceInv(i, k)
      BY DEF LineInv, TextInv
    <3> QED
      BY <3>1 DEF PieceInv
  <2> QED
    BY <2>1 DEF TextInv
<1>2. OnceInv' /\ RestInv'
  BY DEF LineInv, OnceInv, RestInv
<1> QED
  BY <1>1, <1>2 DEF LineInv

\* The first half: behind a half line its event is torn.
LEMMA WriteLineLines == ASSUME LogTypeOK, LineInv, NEW w \in Logger, WriteLine(w) PROVE LineInv'
<1> DEFINE i == writer[w].inode
           n == Len(text[i]) + 1
           p == <<logged + 1, 1>>
<1>1. /\ writer[w].pc = "open" /\ logged' = logged + 1
      /\ \A v \in Logger : ~(writer[v].pc = "rest" /\ writer[v].inode = i)
      /\ torn' = IF Half(i) THEN torn \cup {logged + 1} ELSE torn
      /\ writer' = [writer EXCEPT ![w] = [pc |-> "rest", inode |-> i, event |-> logged + 1]]
  BY DEF WriteLine
<1>2. Written(i, p) /\ i \in DOMAIN text /\ p \in Piece
  BY WriteEffect
<1>3. /\ DOMAIN text' = DOMAIN text /\ \A j \in DOMAIN text : j # i => text'[j] = text[j]
      /\ Len(text'[i]) = n /\ n - 1 \in Nat /\ text'[i][n] = p
      /\ \A k \in DOMAIN text[i] : k \in DOMAIN text'[i] /\ text'[i][k] = text[i][k]
      /\ \A k \in DOMAIN text'[i] : k \in DOMAIN text[i] \/ k = n
      /\ text' \in Seq(Seq(Piece))
  BY <1>2, WrittenIs
<1>4. logged \in Nat /\ torn \subseteq torn' /\ torn \subseteq Event
  BY <1>1, WriteEffect DEF LogTypeOK
<1>5. /\ writer'[w].pc = "rest" /\ writer'[w].inode = i /\ writer'[w].event = logged + 1
      /\ \A v \in Logger \ {w} : writer'[v] = writer[v]
  BY <1>1 DEF LogTypeOK
<1>6. text[i] \in Seq(Piece) /\ \A j \in DOMAIN text : text[j] \in Seq(Piece)
  BY <1>2, FileIs
<1> HIDE DEF i, n, p
<1>7. TextInv'
  <2> SUFFICES ASSUME NEW j \in DOMAIN text', NEW k \in DOMAIN text'[j] PROVE PieceInv(j, k)'
    BY DEF TextInv
  <2>0. j \in DOMAIN text
    BY <1>3
  <2>1. CASE j = i /\ k = n
    <3>1. text'[j][k] = <<logged + 1, 1>> /\ k = Len(text'[j])
      BY <1>3, <2>1 DEF p
    <3>2. k = 1 \/ text'[j][k - 1][2] = 2 \/ text'[j][k][1] \in torn'
      <4> SUFFICES ASSUME k # 1, text'[j][k - 1][2] # 2 PROVE logged + 1 \in torn'
        BY <3>1
      <4>1. n - 1 \in DOMAIN text[i] /\ text'[j][k - 1] = text[i][n - 1] /\ n - 1 = Len(text[i])
        BY <1>3, <1>6, <2>1 DEF n
      <4>2. text[i][n - 1] \in Piece
        BY <1>6, <4>1
      <4>3. text[i][Len(text[i])][2] = 1 /\ text[i] # <<>>
        BY <4>1, <4>2 DEF Piece
      <4>4. Half(i)
        BY <4>3 DEF Half, Last
      <4> QED
        BY <1>1, <4>4
    <3> QED
      BY <1>1, <1>4, <1>5, <2>1, <3>1, <3>2 DEF PieceInv
  <2>2. CASE ~(j = i /\ k = n)
    <3>1. k \in DOMAIN text[j] /\ \A l \in DOMAIN text[j] : text'[j][l] = text[j][l]
      BY <1>3, <2>0, <2>2
    <3>2. Len(text[j]) <= Len(text'[j]) /\ Len(text[j]) \in Nat /\ DOMAIN text[j] = 1..Len(text[j])
      <4>1. Len(text[j]) \in Nat /\ DOMAIN text[j] = 1..Len(text[j])
        BY <1>6, <2>0
      <4>2. CASE j = i
        BY <1>3, <4>1, <4>2 DEF n
      <4>3. CASE j # i
        BY <1>3, <2>0, <4>1, <4>3
      <4> QED
        BY <4>1, <4>2, <4>3
    <3>3. /\ text[j][k][1] <= logged
          /\ text[j][k][2] = 2 => k > 1 /\ text[j][k - 1] = <<text[j][k][1], 1>>
          /\ text[j][k][2] = 1 =>
               /\ k = 1 \/ text[j][k - 1][2] = 2 \/ text[j][k][1] \in torn
               /\ \/ text[j][k][1] \in torn
                  \/ k < Len(text[j]) /\ text[j][k + 1] = <<text[j][k][1], 2>>
                  \/ k = Len(text[j]) /\ \E v \in Logger : writer[v].pc = "rest" /\ writer[v].inode = j
      BY <2>0, <3>1 DEF LineInv, TextInv, PieceInv
    <3>4. text[j][k][1] \in Event
      <4>1. text[j][k] \in Piece
        BY <1>6, <2>0, <3>1
      <4> QED
        BY <4>1 DEF Piece
    <3>5. text[j][k][1] <= logged'
      BY <1>1, <1>4, <3>3, <3>4 DEF Event
    <3>6. text'[j][k] = text[j][k] /\ (k > 1 => text'[j][k - 1] = text[j][k - 1])
          /\ (k < Len(text[j]) => text'[j][k + 1] = text[j][k + 1])
      BY <3>1, <3>2
    <3>7. ASSUME k = Len(text[j]), NEW v \in Logger, writer[v].pc = "rest", writer[v].inode = j
          PROVE  k = Len(text'[j]) /\ writer'[v].pc = "rest" /\ writer'[v].inode = j
      <4>1. j # i /\ v # w
        BY <1>1, <3>7
      <4> QED
        BY <1>3, <1>5, <2>0, <3>7, <4>1
    <3> QED
      BY <1>4, <3>1, <3>2, <3>3, <3>5, <3>6, <3>7 DEF PieceInv
  <2> QED
    BY <2>1, <2>2
<1>8. OnceInv'
  <2> SUFFICES ASSUME NEW j \in DOMAIN text, NEW l \in DOMAIN text,
                      NEW k \in DOMAIN text'[j], NEW m \in DOMAIN text'[l],
                      text'[j][k] = text'[l][m], text'[j][k][2] = 1
               PROVE  j = l /\ k = m
    BY <1>3 DEF OnceInv
  <2>1. ASSUME NEW a \in DOMAIN text, NEW b \in DOMAIN text'[a], ~(a = i /\ b = n)
        PROVE  b \in DOMAIN text[a] /\ text'[a][b] = text[a][b] /\ text'[a][b][1] # logged + 1
    <3>1. b \in DOMAIN text[a] /\ text'[a][b] = text[a][b]
      BY <1>3, <2>1
    <3>2. text[a][b] \in Piece
      BY <1>6, <3>1
    <3>3. text[a][b][1] <= logged /\ text[a][b][1] \in Nat
      BY <3>1, <3>2 DEF LineInv, TextInv, PieceInv, Piece, Event
    <3> QED
      BY <1>4, <3>1, <3>3
  <2>2. text'[i][n][1] = logged + 1
    BY <1>3 DEF p
  <2>3. CASE (j = i /\ k = n) \/ (l = i /\ m = n)
    BY <2>1, <2>2, <2>3
  <2>4. CASE ~(j = i /\ k = n) /\ ~(l = i /\ m = n)
    BY <2>1, <2>4 DEF LineInv, OnceInv
  <2> QED
    BY <2>3, <2>4
<1>9. RestInv'
  <2>1. ASSUME NEW v \in Logger, v # w, writer'[v].pc = "rest"
        PROVE  writer'[v] = writer[v] /\ writer[v].inode # i /\ writer[v].inode \in DOMAIN text
    BY <1>1, <1>5, <2>1, WriterIs
  <2>2. ASSUME NEW v \in Logger, writer'[v].pc = "rest"
        PROVE  /\ text'[writer'[v].inode] # <<>>
               /\ text'[writer'[v].inode][Len(text'[writer'[v].inode])] = <<writer'[v].event, 1>>
    <3>1. CASE v = w
      <4>1. text'[i][Len(text'[i])] = <<logged + 1, 1>> /\ Len(text'[i]) # 0
        BY <1>3 DEF p
      <4> QED
        BY <1>5, <3>1, <4>1
    <3>2. CASE v # w
      <4>1. text'[writer[v].inode] = text[writer[v].inode]
        BY <1>3, <2>1, <2>2, <3>2
      <4> QED
        BY <2>1, <2>2, <3>2, <4>1 DEF LineInv, RestInv
    <3> QED
      BY <3>1, <3>2
  <2>3. ASSUME NEW u \in Logger, NEW v \in Logger, writer'[u].pc = "rest", writer'[v].pc = "rest",
               writer'[u].inode = writer'[v].inode
        PROVE  u = v
    BY <1>5, <2>1, <2>3 DEF LineInv, RestInv
  <2> QED
    BY <2>2, <2>3 DEF RestInv
<1> QED
  BY <1>7, <1>8, <1>9 DEF LineInv

\* The second piece makes the writer's line whole.
LEMMA WriteRestLines == ASSUME LogTypeOK, LineInv, NEW w \in Logger, WriteRest(w) PROVE LineInv'
<1> DEFINE i == writer[w].inode
           n == Len(text[i]) + 1
           e == writer[w].event
           p == <<e, 2>>
<1>1. writer[w].pc = "rest" /\ logged' = logged /\ torn' = torn
  BY DEF WriteRest
<1>2. Written(i, p) /\ i \in DOMAIN text /\ p \in Piece
  BY WriteEffect
<1>3. /\ DOMAIN text' = DOMAIN text /\ \A j \in DOMAIN text : j # i => text'[j] = text[j]
      /\ Len(text'[i]) = n /\ n - 1 \in Nat /\ text'[i][n] = p
      /\ \A k \in DOMAIN text[i] : k \in DOMAIN text'[i] /\ text'[i][k] = text[i][k]
      /\ \A k \in DOMAIN text'[i] : k \in DOMAIN text[i] \/ k = n
      /\ text' \in Seq(Seq(Piece))
  BY <1>2, WrittenIs
<1>4. e \in Event
  BY <1>1, WriterIs
<1>5. writer'[w].pc # "rest" /\ \A v \in Logger \ {w} : writer'[v] = writer[v]
  BY DEF WriteRest, LogTypeOK
<1>6. text[i] \in Seq(Piece) /\ \A j \in DOMAIN text : text[j] \in Seq(Piece)
  BY <1>2, FileIs
<1>7. /\ n - 1 \in DOMAIN text[i] /\ n - 1 = Len(text[i]) /\ text[i][n - 1] = <<e, 1>>
      /\ \A v \in Logger \ {w} : writer[v].pc = "rest" => writer[v].inode # i
  <2>1. text[i] # <<>> /\ text[i][Len(text[i])] = <<e, 1>>
        /\ \A v \in Logger \ {w} : writer[v].pc = "rest" => writer[v].inode # i
    BY <1>1 DEF LineInv, RestInv
  <2> QED
    BY <1>6, <2>1
<1>8. PieceInv(i, n - 1)
  BY <1>2, <1>7 DEF LineInv, TextInv
<1> HIDE DEF i, n, p, e
<1>9. TextInv'
  <2> SUFFICES ASSUME NEW j \in DOMAIN text', NEW k \in DOMAIN text'[j] PROVE PieceInv(j, k)'
    BY DEF TextInv
  <2>0. j \in DOMAIN text
    BY <1>3
  <2>1. CASE j = i /\ k = n
    <3>1. text'[j][k] = <<e, 2>> /\ text'[j][k - 1] = <<e, 1>> /\ k > 1
      BY <1>3, <1>6, <1>7, <2>1 DEF p
    <3>2. e <= logged'
      BY <1>1, <1>7, <1>8 DEF PieceInv
    <3> QED
      BY <3>1, <3>2 DEF PieceInv
  <2>2. CASE ~(j = i /\ k = n)
    <3>1. k \in DOMAIN text[j] /\ \A l \in DOMAIN text[j] : text'[j][l] = text[j][l]
      BY <1>3, <2>0, <2>2
    <3>2. Len(text[j]) <= Len(text'[j]) /\ Len(text[j]) \in Nat /\ DOMAIN text[j] = 1..Len(text[j])
      <4>1. Len(text[j]) \in Nat /\ DOMAIN text[j] = 1..Len(text[j])
        BY <1>6, <2>0
      <4>2. CASE j = i
        BY <1>3, <4>1, <4>2 DEF n
      <4>3. CASE j # i
        BY <1>3, <2>0, <4>1, <4>3
      <4> QED
        BY <4>1, <4>2, <4>3
    <3>3. PieceInv(j, k)
      BY <2>0, <3>1 DEF LineInv, TextInv
    <3>4. text'[j][k] = text[j][k] /\ (k > 1 => text'[j][k - 1] = text[j][k - 1])
          /\ (k < Len(text[j]) => text'[j][k + 1] = text[j][k + 1])
      BY <3>1, <3>2
    <3>5. ASSUME text[j][k][2] = 1, k = Len(text[j]), NEW v \in Logger,
                 writer[v].pc = "rest", writer[v].inode = j
          PROVE  \/ k < Len(text'[j]) /\ text'[j][k + 1] = <<text[j][k][1], 2>>
                 \/ k = Len(text'[j]) /\ writer'[v].pc = "rest" /\ writer'[v].inode = j
      <4>1. CASE j = i
        <5>1. k = n - 1 /\ text'[j][k + 1] = p /\ k < Len(text'[j])
          BY <1>3, <1>7, <3>5, <4>1
        <5> QED
          BY <1>7, <4>1, <5>1 DEF p
      <4>2. CASE j # i
        <5>1. v # w
          BY <3>5, <4>2 DEF i
        <5> QED
          BY <1>3, <1>5, <2>0, <3>5, <4>2, <5>1
      <4> QED
        BY <4>1, <4>2
    <3>6. ASSUME text[j][k][2] = 1
          PROVE  \/ text[j][k][1] \in torn
                 \/ k < Len(text'[j]) /\ text'[j][k + 1] = <<text[j][k][1], 2>>
                 \/ k = Len(text'[j])
                    /\ \E v \in Logger : writer'[v].pc = "rest" /\ writer'[v].inode = j
      <4>1. CASE k < Len(text[j]) /\ text[j][k + 1] = <<text[j][k][1], 2>>
        BY <3>1, <3>2, <3>4, <4>1
      <4>2. CASE k = Len(text[j]) /\ \E v \in Logger : writer[v].pc = "rest" /\ writer[v].inode = j
        BY <3>5, <3>6, <4>2
      <4> QED
        BY <3>3, <3>6, <4>1, <4>2 DEF PieceInv
    <3> QED
      BY <1>1, <3>1, <3>2, <3>3, <3>4, <3>6 DEF PieceInv
  <2> QED
    BY <2>1, <2>2
<1>10. OnceInv'
  <2> SUFFICES ASSUME NEW j \in DOMAIN text, NEW l \in DOMAIN text,
                      NEW k \in DOMAIN text'[j], NEW m \in DOMAIN text'[l],
                      text'[j][k] = text'[l][m], text'[j][k][2] = 1
               PROVE  j = l /\ k = m
    BY <1>3 DEF OnceInv
  <2>1. ASSUME NEW a \in DOMAIN text, NEW b \in DOMAIN text'[a], text'[a][b][2] = 1
        PROVE  b \in DOMAIN text[a] /\ text'[a][b] = text[a][b]
    <3>1. ~(a = i /\ b = n)
      BY <1>3, <2>1 DEF p
    <3> QED
      BY <1>3, <2>1, <3>1
  <2> QED
    BY <2>1 DEF LineInv, OnceInv
<1>11. RestInv'
  <2>1. ASSUME NEW v \in Logger, writer'[v].pc = "rest"
        PROVE  /\ v # w /\ writer'[v] = writer[v]
               /\ text'[writer[v].inode] = text[writer[v].inode]
    <3>1. v # w /\ writer'[v] = writer[v]
      BY <1>5, <2>1
    <3>2. writer[v].inode # i /\ writer[v].inode \in DOMAIN text
      BY <1>7, <2>1, <3>1, WriterIs
    <3> QED
      BY <1>3, <3>1, <3>2
  <2>2. ASSUME NEW v \in Logger, writer'[v].pc = "rest"
        PROVE  /\ text'[writer'[v].inode] # <<>>
               /\ text'[writer'[v].inode][Len(text'[writer'[v].inode])] = <<writer'[v].event, 1>>
    BY <2>1, <2>2 DEF LineInv, RestInv
  <2>3. ASSUME NEW u \in Logger, NEW v \in Logger, writer'[u].pc = "rest", writer'[v].pc = "rest",
               writer'[u].inode = writer'[v].inode
        PROVE  u = v
    BY <2>1, <2>3 DEF LineInv, RestInv
  <2> QED
    BY <2>2, <2>3 DEF RestInv
<1> QED
  BY <1>9, <1>10, <1>11 DEF LineInv

\* Moving on without writing leaves the lines as they were, or torn.
LEMMA MoveLines == ASSUME LogTypeOK, LineInv, NEW w \in Logger, Moves(w) PROVE LineInv'
<1>1. text' = text /\ logged' = logged /\ torn \subseteq torn'
  BY MoveEffect
<1>2. PICK s \in [pc : {"idle", "try", "held"}] : writer' = [writer EXCEPT ![w] = s]
  BY MoveEffect
<1>3. writer'[w].pc # "rest" /\ \A v \in Logger \ {w} : writer'[v] = writer[v]
  BY <1>2 DEF LogTypeOK
<1>4. writer[w].pc = "rest" => writer[w].event \in torn'
  <2>1. writer[w].pc = "rest" => KillWriter(w)
    BY MoveEffect
  <2> QED
    BY <2>1 DEF KillWriter
<1>5. text \in Seq(Seq(Piece))
  BY TypesAre
<1> QED
  BY <1>1, <1>3, <1>4, <1>5, LinesStay

\* Opening the log creates an empty file or nothing.
LEMMA OpenEffect ==
  ASSUME LogTypeOK, NEW w \in Logger, OpenLog(w)
  PROVE  /\ text' \in Seq(Seq(Piece)) /\ Len(text') >= Len(text)
         /\ \A i \in DOMAIN text : i \in DOMAIN text' /\ text'[i] = text[i]
         /\ \A i \in DOMAIN text' : i \in DOMAIN text \/ text'[i] = <<>>
         /\ UNCHANGED <<rotator, logged, reader, queue, shown, refused, torn>>
         /\ writer[w].pc = "idle"
         /\ \/ text' = text /\ file' = file /\ crossed' = crossed
            \/ /\ file[0] = 0 /\ Len(text') = Len(text) + 1
               /\ file' = [file EXCEPT ![0] = Len(text) + 1]
               /\ ~crossed' => ~Polling
               /\ crossed => crossed'
<1>1. UNCHANGED <<rotator, logged, reader, queue, shown, refused, torn>> /\ writer[w].pc = "idle"
  BY DEF OpenLog, AtRest
<1>2. text \in Seq(Seq(Piece)) /\ Len(text) \in Nat /\ crossed \in BOOLEAN
  BY TypesAre
<1>3. CASE file[0] = 0
  <2>1. Created /\ file' = [file EXCEPT ![0] = Len(text) + 1]
    BY <1>3 DEF OpenLog, Created
  <2>2. crossed' = (crossed \/ (file[0] = 0 /\ Polling))
    BY DEF OpenLog
  <2>3. (~crossed' => ~Polling) /\ (crossed => crossed')
    BY <1>3, <2>2, Zenon
  <2> QED
    BY <1>1, <1>2, <1>3, <2>1, <2>3, CreatedIs
<1>4. CASE file[0] # 0
  <2>1. text' = text /\ file' = file
    BY <1>4 DEF OpenLog
  <2>2. crossed' = (crossed \/ (file[0] = 0 /\ Polling)) /\ (file[0] = 0) = FALSE
    BY <1>4 DEF OpenLog
  <2>3. crossed' = crossed
    BY <1>2, <2>2, Zenon
  <2> QED
    BY <1>1, <1>2, <2>1, <2>3
<1> QED
  BY <1>3, <1>4

\* Opening the log leaves the lines as they were.
LEMMA OpenLines == ASSUME LogTypeOK, LineInv, NEW w \in Logger, OpenLog(w) PROVE LineInv'
<1>1. writer'[w].pc # "rest" /\ (\A v \in Logger \ {w} : writer'[v] = writer[v]) /\ writer[w].pc # "rest"
  BY OpenEffect DEF OpenLog, LogTypeOK
<1>2. /\ text' \in Seq(Seq(Piece)) /\ logged' = logged /\ torn \subseteq torn'
      /\ \A i \in DOMAIN text : i \in DOMAIN text' /\ text'[i] = text[i]
      /\ \A i \in DOMAIN text' : i \in DOMAIN text \/ text'[i] = <<>>
  BY OpenEffect
<1> QED
  BY <1>1, <1>2, LinesStay

-----------------------------------------------------------------------------
\* The log is the newest file, and the rotated ones are full.
LEMMA FileSteps ==
  ASSUME LogTypeOK, FileInv, NEW w \in Logger,
         OpenLog(w) \/ WriteLine(w) \/ WriteRest(w) \/ Moves(w)
  PROVE  FileInv'
<1>1. ASSUME file' = file, Len(text') = Len(text),
             \A i \in DOMAIN text : Len(text[i]) <= Len(text'[i]) /\ Len(text'[i]) \in Nat
      PROVE  FileInv'
  <2>1. ASSUME NEW n \in Name \ {0}, file[n] # 0 PROVE Size(file[n])' > Limit
    <3>1. file[n] \in DOMAIN text /\ Size(file[n]) > Limit /\ Len(text[file[n]]) \in Nat
      BY <2>1, FileIs DEF FileInv, RotatedFull
    <3> QED
      BY <1>1, <2>1, <3>1, LogAssumption DEF Size
  <2> QED
    BY <1>1, <2>1 DEF FileInv, RotatedFull
<1>2. CASE OpenLog(w)
  <2>1. /\ \A i \in DOMAIN text : i \in DOMAIN text' /\ text'[i] = text[i]
        /\ \/ text' = text /\ file' = file
           \/ /\ file[0] = 0 /\ Len(text') = Len(text) + 1
              /\ file' = [file EXCEPT ![0] = Len(text) + 1]
    BY <1>2, OpenEffect
  <2>2. CASE text' = text /\ file' = file
    BY <1>1, <2>2, FileIs
  <2>3. CASE /\ Len(text') = Len(text) + 1 /\ file' = [file EXCEPT ![0] = Len(text) + 1]
    <3>1. file'[0] = Len(text') /\ \A n \in Name \ {0} : file'[n] = file[n]
      BY <2>3, FileIs DEF LogTypeOK
    <3>2. ASSUME NEW n \in Name \ {0}, file[n] # 0 PROVE Size(file[n])' > Limit
      <4>1. file[n] \in DOMAIN text /\ Size(file[n]) > Limit
        BY <3>2, FileIs DEF FileInv, RotatedFull
      <4> QED
        BY <2>1, <3>1, <3>2, <4>1 DEF Size
    <3> QED
      BY <3>1, <3>2 DEF FileInv, RotatedFull
  <2> QED
    BY <2>1, <2>2, <2>3
<1>3. CASE WriteLine(w) \/ WriteRest(w)
  <2>1. PICK i \in DOMAIN text, p \in Piece : Written(i, p)
    BY <1>3, WriteEffect
  <2>2. file' = file
    BY <1>3 DEF WriteLine, WriteRest
  <2>3. /\ Len(text') = Len(text) /\ Len(text'[i]) = Len(text[i]) + 1
        /\ \A j \in DOMAIN text : j # i => text'[j] = text[j]
    BY <2>1, WrittenIs
  <2>4. \A j \in DOMAIN text : Len(text[j]) <= Len(text'[j]) /\ Len(text'[j]) \in Nat
    BY <2>3, FileIs
  <2> QED
    BY <1>1, <2>2, <2>3, <2>4
<1>4. CASE Moves(w)
  <2>1. text' = text
    BY <1>4, MoveEffect
  <2>2. CASE file' = file
    BY <1>1, <2>1, <2>2, FileIs
  <2>3. CASE Size(file[0]) > Limit /\ file' = Shift
    <3>1. file'[0] = 0
      BY <2>3, FileIs DEF Shift
    <3>2. ASSUME NEW n \in Name \ {0}, file'[n] # 0 PROVE Size(file[n])' > Limit
      <4>1. n - 1 \in Name
        BY FileIs DEF Name
      <4>2. file'[n] = IF file[n - 1] # 0 THEN file[n - 1] ELSE file[n]
        BY <2>3 DEF Shift
      <4>3. Size(file[n - 1]) > Limit \/ file[n - 1] = 0
        BY <2>3, <4>1 DEF FileInv, RotatedFull
      <4>4. file[n] # 0 => Size(file[n]) > Limit
        BY <3>2 DEF FileInv, RotatedFull
      <4>5. Len(text[file'[n]]) > Limit
        BY <3>2, <4>2, <4>3, <4>4 DEF Size
      <4> QED
        BY <2>1, <3>2, <4>5 DEF Size
    <3> QED
      BY <3>1, <3>2 DEF FileInv, RotatedFull
  <2>4. file' = file \/ (Size(file[0]) > Limit /\ file' = Shift)
    BY <1>4 DEF Moves, CheckSize, TryLock, Rotate, KillWriter
  <2> QED
    BY <2>2, <2>3, <2>4
<1> QED
  BY <1>2, <1>3, <1>4

FollowerInv == PlaceInv /\ KeptInv /\ ReadIsShown /\ FollowInv /\ PastInv /\ ShownOnce

\* A writer's step shows the follower nothing, and takes nothing from under it
\* without crossing its poll.
LEMMA FollowerStays ==
  ASSUME LogTypeOK, FollowerInv, UNCHANGED <<reader, queue, shown, refused>>, torn \subseteq torn',
         \A i \in DOMAIN text :
           /\ i \in DOMAIN text' /\ Len(text[i]) <= Len(text'[i]) /\ Len(text'[i]) \in Nat
           /\ \A k \in DOMAIN text[i] : k \in DOMAIN text'[i] /\ text'[i][k] = text[i][k],
         ~crossed' => ~crossed /\ (Polling => file'[0] = file[0])
  PROVE  FollowerInv'
<1>0. /\ reader.fd \in 0..Len(text) /\ reader.offset \in Nat /\ reader.kept \in Seq(Piece)
      /\ Len(reader.kept) \in Nat /\ DOMAIN reader.kept = 1..Len(reader.kept)
      /\ DOMAIN text = 1..Len(text) /\ Len(text) \in Nat
  BY ReaderIs, FileIs
<1>1. Handed' = Handed
  BY DEF Handed
<1>2. ASSUME NEW k \in 1..reader.offset
      PROVE  /\ reader.fd \in DOMAIN text /\ k \in DOMAIN text[reader.fd]
             /\ text'[reader.fd][k] = text[reader.fd][k]
  <2>1. reader.offset > 0 /\ reader.offset <= Size(reader.fd) /\ k \in Nat
    BY <1>0 DEF FollowerInv, PlaceInv
  <2>2. reader.fd # 0 /\ Size(reader.fd) = Len(text[reader.fd])
    BY <1>0, <2>1 DEF Size
  <2>3. reader.fd \in DOMAIN text
    BY <1>0, <2>2
  <2>4. k \in DOMAIN text[reader.fd]
    BY <1>0, <2>1, <2>2, <2>3, FileIs
  <2> QED
    BY <2>3, <2>4
<1>3. PlaceInv'
  <2>1. (reader.offset <= Size(reader.fd))'
    <3>1. CASE reader.fd = 0
      BY <3>1 DEF FollowerInv, PlaceInv, Size
    <3>2. CASE reader.fd # 0
      <4>1. reader.fd \in DOMAIN text
        BY <1>0, <3>2
      <4>2. Len(text[reader.fd]) <= Len(text'[reader.fd]) /\ reader.offset <= Len(text[reader.fd])
            /\ Len(text[reader.fd]) \in Nat /\ Len(text'[reader.fd]) \in Nat
        BY <3>2, <4>1, FileIs DEF FollowerInv, PlaceInv, Size
      <4> QED
        BY <1>0, <3>2, <4>2 DEF Size
    <3> QED
      BY <3>1, <3>2
  <2> QED
    BY <1>1, <2>1 DEF FollowerInv, PlaceInv
<1>4. KeptInv'
  <2>1. KeptFrom' = KeptFrom /\ KeptFrom = reader.offset - Len(reader.kept) /\ KeptFrom >= 0
    BY DEF FollowerInv, KeptInv, KeptFrom
  <2>2. ASSUME NEW k \in DOMAIN reader.kept
        PROVE  reader.kept[k] = text'[reader.fd][KeptFrom + k] /\ reader.kept[k][2] = 1
    <3>1. KeptFrom + k \in 1..reader.offset
      BY <1>0, <2>1
    <3>2. text'[reader.fd][KeptFrom + k] = text[reader.fd][KeptFrom + k]
      BY <1>2, <3>1
    <3> QED
      BY <3>2 DEF FollowerInv, KeptInv
  <2>3. ASSUME KeptFrom > 0
        PROVE  text'[reader.fd][KeptFrom][2] = 2 \/ text'[reader.fd][KeptFrom][1] \in torn'
    <3>1. KeptFrom \in 1..reader.offset
      BY <1>0, <2>1, <2>3
    <3>2. text'[reader.fd][KeptFrom] = text[reader.fd][KeptFrom]
      BY <1>2, <3>1
    <3> QED
      BY <2>3, <3>2 DEF FollowerInv, KeptInv
  <2> QED
    BY <2>1, <2>2, <2>3 DEF KeptInv
<1>5. ReadIsShown'
  <2>1. ASSUME NEW k \in 1..reader.offset
        PROVE  text'[reader.fd][k][1] \in Handed \cup torn' \cup Seen(reader.kept)
    BY <1>2, <2>1 DEF FollowerInv, ReadIsShown
  <2> QED
    BY <1>1, <2>1 DEF ReadIsShown, Seen
<1>6. FollowInv'
  BY DEF FollowerInv, FollowInv, Polling
<1>7. PastInv'
  <2> SUFFICES ASSUME ~crossed', NEW e \in Handed
               PROVE  \E i \in 1..reader.fd : \E k \in DOMAIN text'[i] :
                        text'[i][k] = <<e, 2>> /\ (i = reader.fd => k <= reader.offset)
    BY <1>1 DEF PastInv
  <2>1. PICK i \in 1..reader.fd : \E k \in DOMAIN text[i] :
          text[i][k] = <<e, 2>> /\ (i = reader.fd => k <= reader.offset)
    BY DEF FollowerInv, PastInv
  <2>2. i \in DOMAIN text
    BY <1>0
  <2> QED
    BY <2>1, <2>2
<1>8. ShownOnce'
  BY DEF FollowerInv, ShownOnce
<1> QED
  BY <1>3, <1>4, <1>5, <1>6, <1>7, <1>8 DEF FollowerInv

\* Writers take nothing from the follower that it has read.
LEMMA WriterKeepsFollower ==
  ASSUME LogTypeOK, FollowerInv, NEW w \in Logger,
         OpenLog(w) \/ WriteLine(w) \/ WriteRest(w) \/ Moves(w)
  PROVE  FollowerInv'
<1> DEFINE Grows == \A i \in DOMAIN text :
             /\ i \in DOMAIN text' /\ Len(text[i]) <= Len(text'[i]) /\ Len(text'[i]) \in Nat
             /\ \A k \in DOMAIN text[i] : k \in DOMAIN text'[i] /\ text'[i][k] = text[i][k]
<1>1. CASE OpenLog(w)
  <2>1. /\ \A i \in DOMAIN text : i \in DOMAIN text' /\ text'[i] = text[i]
        /\ UNCHANGED <<reader, queue, shown, refused, torn>>
        /\ \/ text' = text /\ file' = file /\ crossed' = crossed
           \/ (~crossed' => ~Polling) /\ (crossed => crossed')
    BY <1>1, OpenEffect, Zenon
  <2>2. Grows
    BY <2>1, FileIs
  <2>3. ~crossed' => ~crossed /\ (Polling => file'[0] = file[0])
    BY <2>1, Zenon
  <2> HIDE DEF Grows
  <2> QED
    BY <2>1, <2>2, <2>3, FollowerStays DEF Grows
<1>2. CASE WriteLine(w) \/ WriteRest(w)
  <2>1. PICK i \in DOMAIN text, p \in Piece : Written(i, p)
    BY <1>2, WriteEffect
  <2>2. /\ DOMAIN text' = DOMAIN text
        /\ \A j \in DOMAIN text : j # i => text'[j] = text[j]
        /\ Len(text'[i]) = Len(text[i]) + 1 /\ Len(text[i]) \in Nat
        /\ \A k \in DOMAIN text[i] : k \in DOMAIN text'[i] /\ text'[i][k] = text[i][k]
    BY <2>1, WrittenIs
  <2>3. Grows
    BY <2>2, FileIs
  <2>4. UNCHANGED <<file, reader, queue, shown, refused, crossed>> /\ torn \subseteq torn'
    BY <1>2, WriteEffect DEF WriteLine, WriteRest
  <2> HIDE DEF Grows
  <2> QED
    BY <2>3, <2>4, FollowerStays DEF Grows
<1>3. CASE Moves(w)
  <2>1. UNCHANGED <<text, reader, queue, shown, refused>> /\ torn \subseteq torn'
    BY <1>3, MoveEffect
  <2>2. Grows
    BY <2>1, FileIs
  <2>3. \/ file' = file /\ crossed' = crossed
        \/ crossed' = (crossed \/ (file' /= file /\ Polling))
    BY <1>3 DEF Moves, CheckSize, TryLock, Rotate, KillWriter
  <2>4. ~crossed' => ~crossed /\ (Polling => file'[0] = file[0])
    BY <2>3, Zenon
  <2> HIDE DEF Grows
  <2> QED
    BY <2>1, <2>2, <2>4, FollowerStays DEF Grows
<1> QED
  BY <1>1, <1>2, <1>3

\* Taking an event keeps what the follower has read.
LEMMA TakeKeepsFollower == ASSUME LogTypeOK, FollowerInv, TakeEvent PROVE FollowerInv'
<1>1. UNCHANGED <<file, text, writer, rotator, logged, reader, refused, torn, crossed>>
  BY DEF TakeEvent
<1>2. Handed' = Handed /\ shown' \o queue' \o refused' = shown \o queue \o refused
  BY TakeEffect
<1>3. PlaceInv' /\ KeptInv' /\ FollowInv'
  BY <1>1, <1>2 DEF FollowerInv, PlaceInv, Size, KeptInv, KeptFrom, FollowInv
<1>4. ReadIsShown'
  BY <1>1, <1>2 DEF FollowerInv, ReadIsShown, Seen
<1>5. PastInv'
  BY <1>1, <1>2 DEF FollowerInv, PastInv
<1>6. ShownOnce'
  BY <1>1, <1>2 DEF FollowerInv, ShownOnce
<1> QED
  BY <1>3, <1>4, <1>5, <1>6 DEF FollowerInv

\* Asking for the inode, the length or the file shows nothing either; a file
\* opened in the place of another is a newer one.
LEMMA AskKeepsFollower ==
  ASSUME LogTypeOK, FileInv, FollowerInv, Asks PROVE FollowerInv'
<1>0. /\ UNCHANGED <<file, text, writer, rotator, logged, queue, shown, refused, crossed>>
      /\ torn \subseteq torn'
  BY AskEffect
<1>1. Handed' = Handed /\ ShownOnce'
  BY <1>0 DEF FollowerInv, Handed, ShownOnce
<1>2. /\ reader.fd \in 0..Len(text) /\ reader.now \in 0..Len(text) /\ reader.inode \in 0..Len(text)
      /\ file[0] \in 0..Len(text) /\ Len(text) \in Nat /\ reader.offset \in Nat
  BY ReaderIs, FileIs
<1>3. reader \in ReaderTypes(Len(text))
  BY TypesAre
\* Where it reads, and what it keeps, stay.
<1>4. ASSUME reader'.fd = reader.fd, reader'.offset = reader.offset, reader'.kept = reader.kept,
             torn' = torn
      PROVE  KeptInv' /\ ReadIsShown' /\ PastInv'
  <2>1. KeptInv'
    BY <1>0, <1>4 DEF FollowerInv, KeptInv, KeptFrom
  <2>2. ReadIsShown'
    BY <1>0, <1>1, <1>4 DEF FollowerInv, ReadIsShown, Seen
  <2>3. PastInv'
    BY <1>0, <1>1, <1>4 DEF FollowerInv, PastInv
  <2> QED
    BY <2>1, <2>2, <2>3
<1>5. CASE Follow
  <2>1. reader.pc = "start" /\ file[0] # 0 /\ torn' = torn
        /\ reader' = [reader EXCEPT !.pc = "first", !.fd = file[0]]
    BY <1>5 DEF Follow
  <2>2. reader'.pc = "first" /\ reader'.fd = file[0] /\ reader'.offset = reader.offset
        /\ reader'.kept = reader.kept
    BY <1>3, <2>1 DEF ReaderTypes
  <2>3. reader.offset = 0 /\ reader.kept = <<>> /\ Handed = {}
    BY <2>1 DEF FollowerInv, PlaceInv, Unread
  <2>4. Size(file[0]) \in Nat /\ Size(file[0])' = Size(file[0]) /\ file'[0] = file[0]
    BY <1>0, FileIs DEF Size
  <2>5. PlaceInv'
    BY <1>1, <2>1, <2>2, <2>3, <2>4 DEF PlaceInv, Unread, Size
  <2>6. KeptFrom' = 0
    <3>1. Len(reader'.kept) = 0 /\ reader'.offset = 0
      BY <2>2, <2>3
    <3>2. KeptFrom' = 0 - 0
      BY <3>1 DEF KeptFrom
    <3> QED
      BY <3>2
  <2>7. KeptInv' /\ ReadIsShown'
    BY <2>2, <2>3, <2>6 DEF KeptInv, ReadIsShown
  <2>8. FollowInv' /\ PastInv'
    BY <1>0, <1>1, <2>2, <2>3 DEF FollowInv, PastInv
  <2> QED
    BY <1>1, <2>5, <2>7, <2>8 DEF FollowerInv
<1>6. CASE FirstInode
  <2>1. reader.pc = "first" /\ torn' = torn
        /\ reader' = [reader EXCEPT !.pc = "load", !.inode = file[0]]
    BY <1>6 DEF FirstInode
  <2>2. reader'.pc = "load" /\ reader'.fd = reader.fd /\ reader'.offset = reader.offset
        /\ reader'.kept = reader.kept /\ reader'.inode = file[0]
    BY <1>3, <2>1 DEF ReaderTypes
  <2>3. PlaceInv'
    BY <1>0, <1>1, <2>1, <2>2 DEF FollowerInv, PlaceInv, Unread, Size
  <2>4. FollowInv'
    BY <1>0, <2>1, <2>2 DEF FollowerInv, FollowInv
  <2> QED
    BY <1>1, <1>4, <2>1, <2>2, <2>3, <2>4 DEF FollowerInv
<1>7. CASE PollInode
  <2>1. reader.pc = "poll" /\ torn' = torn
        /\ reader' = [reader EXCEPT !.pc = "length", !.now = file[0]]
    BY <1>7 DEF PollInode
  <2>2. reader'.pc = "length" /\ reader'.fd = reader.fd /\ reader'.offset = reader.offset
        /\ reader'.kept = reader.kept /\ reader'.inode = reader.inode /\ reader'.now = file[0]
    BY <1>3, <2>1 DEF ReaderTypes
  <2>3. PlaceInv'
    BY <1>0, <1>1, <2>1, <2>2 DEF FollowerInv, PlaceInv, Unread, Size
  <2>4. FollowInv'
    BY <1>0, <2>1, <2>2 DEF FollowerInv, FollowInv
  <2> QED
    BY <1>1, <1>4, <2>1, <2>2, <2>3, <2>4 DEF FollowerInv
<1>8. CASE PollLength
  <2> DEFINE pc == IF reader.now /= reader.inode \/ Size(file[0]) < reader.offset
                   THEN "open" ELSE "read"
  <2>1. reader.pc = "length" /\ torn' = torn /\ reader' = [reader EXCEPT !.pc = pc]
    BY <1>8 DEF PollLength
  <2>2. reader'.pc = pc /\ reader'.fd = reader.fd /\ reader'.offset = reader.offset
        /\ reader'.kept = reader.kept /\ reader'.inode = reader.inode /\ reader'.now = reader.now
    BY <1>3, <2>1 DEF ReaderTypes
  <2>3. PlaceInv'
    BY <1>0, <1>1, <2>1, <2>2 DEF FollowerInv, PlaceInv, Unread, Size
  <2>4. FollowInv'
    <3> SUFFICES ASSUME ~crossed PROVE
          /\ reader.inode = reader.fd
          /\ pc = "open" => reader.now = file[0] /\ reader.now # reader.fd
      BY <1>0, <2>2 DEF FollowInv
    <3>1. reader.inode = reader.fd /\ reader.now = file[0]
      BY <2>1 DEF FollowerInv, FollowInv
    <3>2. reader.offset <= Size(reader.fd) /\ Size(file[0]) \in Nat
      BY FileIs DEF FollowerInv, PlaceInv
    <3>3. reader.now = reader.fd => pc = "read"
      BY <1>2, <3>1, <3>2
    <3> QED
      BY <3>1, <3>3
  <2> QED
    BY <1>1, <1>4, <2>1, <2>2, <2>3, <2>4 DEF FollowerInv
<1>9. CASE Reopen
  <2>0. reader.pc = "open"
    BY <1>9 DEF Reopen
  <2>1. CASE file[0] = 0
    <3> DEFINE pc == IF reader.style = "replay" THEN "read" ELSE "poll"
    <3>1. torn' = torn /\ reader' = [reader EXCEPT !.pc = pc]
      BY <1>9, <2>1 DEF Reopen
    <3>2. reader'.pc = pc /\ reader'.fd = reader.fd /\ reader'.offset = reader.offset
          /\ reader'.kept = reader.kept /\ reader'.inode = reader.inode
      BY <1>3, <3>1 DEF ReaderTypes
    <3>3. PlaceInv'
      BY <1>0, <1>1, <2>0, <3>2 DEF FollowerInv, PlaceInv, Unread, Size
    <3>4. FollowInv'
      BY <1>0, <2>0, <3>2 DEF FollowerInv, FollowInv
    <3> QED
      BY <1>1, <1>4, <3>1, <3>2, <3>3, <3>4 DEF FollowerInv
  <2>2. CASE file[0] # 0
    <3>1. reader' = [reader EXCEPT !.pc = "read", !.fd = file[0], !.inode = reader.now,
                                   !.offset = 0, !.kept = <<>>]
      BY <1>9, <2>2 DEF Reopen
    <3>2. reader'.pc = "read" /\ reader'.fd = file[0] /\ reader'.offset = 0
          /\ reader'.kept = <<>> /\ reader'.inode = reader.now
      BY <1>3, <3>1 DEF ReaderTypes
    <3>3. PlaceInv'
      BY <1>0, <2>2, <3>2, FileIs DEF PlaceInv, Unread, Size
    <3>4. KeptFrom' = 0
      <4>1. Len(reader'.kept) = 0
        BY <3>2
      <4>2. KeptFrom' = 0 - 0
        BY <3>2, <4>1 DEF KeptFrom
      <4> QED
        BY <4>2
    <3>5. KeptInv' /\ ReadIsShown'
      BY <3>2, <3>4 DEF KeptInv, ReadIsShown
    <3>6. ASSUME ~crossed PROVE reader.now = file[0] /\ reader.now # reader.fd
      BY <2>0, <3>6 DEF FollowerInv, FollowInv
    <3>7. FollowInv'
      BY <1>0, <3>2, <3>6 DEF FollowInv
    <3>8. PastInv'
      <4> SUFFICES ASSUME ~crossed, NEW e \in Handed
                   PROVE  \E i \in 1..file[0] : \E k \in DOMAIN text[i] :
                            text[i][k] = <<e, 2>> /\ (i = file[0] => k <= 0)
        BY <1>0, <1>1, <3>2 DEF PastInv
      <4>1. PICK i \in 1..reader.fd : \E k \in DOMAIN text[i] :
              text[i][k] = <<e, 2>> /\ (i = reader.fd => k <= reader.offset)
        BY DEF FollowerInv, PastInv
      <4>2. file[0] = Len(text) /\ reader.fd # file[0]
        BY <2>2, <3>6 DEF FileInv
      <4>3. i \in 1..file[0] /\ i # file[0]
        BY <1>2, <4>2
      <4> QED
        BY <4>1, <4>3
    <3> QED
      BY <1>1, <3>3, <3>5, <3>7, <3>8 DEF FollowerInv
  <2> QED
    BY <2>1, <2>2
<1> QED
  BY <1>5, <1>6, <1>7, <1>8, <1>9 DEF Asks

\* Every piece that a read takes is of a line it finds, torn, or of the half line
\* that remains.
LEMMA TakenIsFound ==
  ASSUME LogTypeOK, LineInv, PlaceInv, KeptInv, reader.pc \in {"load", "read"},
         NEW j \in DOMAIN Taken
  PROVE  Taken[j][1] \in ToSet(Lines(Taken)) \cup torn \cup Seen(Remainder(Taken))
<1> DEFINE t == text[reader.fd]
           F == KeptFrom
           all == Taken
<1>1. /\ reader.fd \in DOMAIN text /\ F \in Nat /\ all \in Seq(Piece) /\ Len(all) = Len(t) - F
      /\ \A k \in DOMAIN all : F + k \in DOMAIN t /\ all[k] = t[F + k]
      /\ \A k \in DOMAIN t : k > F => k - F \in DOMAIN all
  BY TakenIs
<1>2. t \in Seq(Piece) /\ Len(t) \in Nat /\ DOMAIN t = 1..Len(t) /\ DOMAIN all = 1..Len(all) /\ Len(all) \in Nat
  BY <1>1, FileIs
<1>3. \A k \in DOMAIN t : PieceInv(reader.fd, k)
  BY <1>1 DEF LineInv, TextInv
<1>4. F > 0 => t[F][2] = 2 \/ t[F][1] \in torn
  BY DEF KeptInv
<1>5. ToSet(Lines(all)) = {all[k][1] : k \in Ends(all)}
  BY <1>1, LinesAre
<1>6. \A k \in DOMAIN t : t[k][2] \in {1, 2}
  <2>1. \A k \in DOMAIN t : t[k] \in Piece
    BY <1>2
  <2> QED
    BY <2>1 DEF Piece
<1>e. \A k : k \in Ends(all) <=> /\ k \in 2..Len(all) /\ all[k][2] = 2 /\ all[k - 1] = <<all[k][1], 1>>
                                 /\ k = 2 \/ all[k - 2][2] = 2
  BY DEF Ends
<1>t. \A k \in DOMAIN t :
        /\ t[k][2] = 2 => k > 1 /\ t[k - 1] = <<t[k][1], 1>>
        /\ t[k][2] = 1 =>
             /\ k = 1 \/ t[k - 1][2] = 2 \/ t[k][1] \in torn
             /\ \/ t[k][1] \in torn
                \/ k < Len(t) /\ t[k + 1] = <<t[k][1], 2>>
                \/ k = Len(t)
  BY <1>3 DEF PieceInv
<1> HIDE DEF t, F, all
<1>7. ASSUME NEW k \in DOMAIN all, all[k][2] = 2
      PROVE  all[k][1] \in ToSet(Lines(all)) \cup torn
  <2>0. k \in Nat /\ k >= 1 /\ k <= Len(all)
    BY <1>2
  <2>1. F + k \in DOMAIN t /\ t[F + k] = all[k]
    BY <1>1
  <2>2. F + k > 1 /\ t[(F + k) - 1] = <<all[k][1], 1>>
    BY <1>7, <1>t, <2>1
  <2>3. CASE k = 1
    <3>1. (F + k) - 1 = F /\ F > 0
      BY <1>1, <2>2, <2>3
    <3>2. t[F] = <<all[k][1], 1>>
      BY <2>2, <3>1
    <3> QED
      BY <1>4, <3>1, <3>2
  <2>4. CASE k > 1
    <3>1. k - 1 \in DOMAIN all /\ F + (k - 1) = (F + k) - 1
      <4>1. k - 1 \in 1..Len(all)
        BY <1>2, <2>0, <2>4
      <4>2. F + (k - 1) = (F + k) - 1
        BY <1>1, <2>0
      <4> QED
        BY <1>2, <4>1, <4>2
    <3>2. all[k - 1] = <<all[k][1], 1>> /\ (F + k) - 1 \in DOMAIN t
      BY <1>1, <2>2, <3>1
    <3>3. \/ (F + k) - 1 = 1 \/ t[((F + k) - 1) - 1][2] = 2 \/ all[k][1] \in torn
      <4>1. t[(F + k) - 1][2] = 1 /\ t[(F + k) - 1][1] = all[k][1]
        BY <2>2
      <4> QED
        BY <1>t, <3>2, <4>1
    <3>4. CASE k = 2
      <4>1. k \in Ends(all)
        BY <1>7, <1>e, <2>0, <3>2, <3>4
      <4> QED
        BY <1>5, <4>1
    <3>5. CASE k > 2 /\ all[k][1] \notin torn
      <4>1. k - 2 \in DOMAIN all /\ F + (k - 2) = ((F + k) - 1) - 1 /\ (F + k) - 1 # 1
        BY <1>1, <1>2, <2>0, <3>5
      <4>2. all[k - 2][2] = 2
        BY <1>1, <3>3, <3>5, <4>1
      <4>3. k \in Ends(all)
        BY <1>7, <1>e, <2>0, <3>2, <3>5, <4>2
      <4> QED
        BY <1>5, <4>3
    <3> QED
      BY <2>0, <2>4, <3>4, <3>5
  <2> QED
    BY <2>0, <2>3, <2>4
<1>8. ASSUME NEW k \in DOMAIN all, all[k][2] = 1
      PROVE  all[k][1] \in ToSet(Lines(all)) \cup torn \cup Seen(Remainder(all))
  <2>0. k \in Nat /\ k >= 1 /\ k <= Len(all)
    BY <1>2
  <2>1. F + k \in DOMAIN t /\ t[F + k] = all[k]
    BY <1>1
  <2>2. \/ all[k][1] \in torn
        \/ F + k < Len(t) /\ t[(F + k) + 1] = <<all[k][1], 2>>
        \/ F + k = Len(t)
    BY <1>8, <1>t, <2>1
  <2>3. CASE F + k < Len(t) /\ t[(F + k) + 1] = <<all[k][1], 2>>
    <3>1. k + 1 \in DOMAIN all /\ F + (k + 1) = (F + k) + 1
      BY <1>1, <1>2, <2>0, <2>3
    <3>2. all[k + 1] = <<all[k][1], 2>>
      BY <1>1, <2>3, <3>1
    <3> QED
      BY <1>7, <3>1, <3>2
  <2>4. CASE F + k = Len(t)
    <3>1. k = Len(all)
      BY <1>1, <1>2, <2>0, <2>4
    <3>2. PICK r \in 0..Len(all) :
            /\ Remainder(all) = SubSeq(all, r + 1, Len(all))
            /\ r = 0 \/ all[r][2] = 2
      BY <1>1, RemainderIs
    <3>3. r < k /\ r \in Nat
      BY <1>8, <2>0, <3>1, <3>2
    <3>4. Len(all) - r \in DOMAIN Remainder(all) /\ Remainder(all)[Len(all) - r] = all[k]
      <4>1. Len(Remainder(all)) = Len(all) - r /\ Remainder(all) \in Seq(Piece)
        BY <1>1, <1>2, <3>1, <3>2, <3>3
      <4>2. Remainder(all)[Len(all) - r] = all[(r + 1) + (Len(all) - r) - 1]
        BY <1>1, <1>2, <3>1, <3>2, <3>3
      <4>3. (r + 1) + (Len(all) - r) - 1 = k
        BY <2>0, <3>1, <3>3
      <4> QED
        BY <1>2, <3>1, <3>3, <4>1, <4>2, <4>3
    <3>5. all[k][1] \in Seen(Remainder(all))
      BY <3>4 DEF Seen
    <3> QED
      BY <3>5
  <2> QED
    BY <2>2, <2>3, <2>4
<1> QED
  BY <1>1, <1>6, <1>7, <1>8 DEF all

\* The lines a read finds were not shown before, unless a rotation crossed a poll.
LEMMA LinesAreNew ==
  ASSUME LogTypeOK, LineInv, PlaceInv, KeptInv, PastInv, reader.pc \in {"load", "read"}
  PROVE  /\ Once(Lines(Taken))
         /\ ~crossed => Handed \cap ToSet(Lines(Taken)) = {}
         /\ \A e \in ToSet(Lines(Taken)) : \E k \in DOMAIN text[reader.fd] :
              text[reader.fd][k] = <<e, 2>> /\ k > reader.offset
<1> DEFINE t == text[reader.fd]
           F == KeptFrom
           all == Taken
<1>1. /\ reader.fd \in DOMAIN text /\ F \in Nat /\ all \in Seq(Piece) /\ Len(all) = Len(t) - F
      /\ \A k \in DOMAIN all : /\ F + k \in DOMAIN t /\ all[k] = t[F + k]
                               /\ F + k <= reader.offset => all[k][2] = 1
  BY TakenIs
<1>2. t \in Seq(Piece) /\ Len(t) \in Nat /\ DOMAIN t = 1..Len(t) /\ DOMAIN all = 1..Len(all)
      /\ Len(all) \in Nat /\ reader.offset \in Nat /\ reader.fd \in 0..Len(text)
      /\ DOMAIN text = 1..Len(text)
  BY <1>1, FileIs, ReaderIs
<1>3. /\ ToSet(Lines(all)) = {all[k][1] : k \in Ends(all)}
      /\ (\A k, l \in Ends(all) : all[k][1] = all[l][1] => k = l)
              => \A i, j \in DOMAIN Lines(all) : Lines(all)[i] = Lines(all)[j] => i = j
  BY <1>1, LinesAre
<1>4. ASSUME NEW i \in DOMAIN text, NEW j \in DOMAIN text, NEW k \in DOMAIN text[i],
             NEW l \in DOMAIN text[j], text[i][k] = text[j][l], text[i][k][2] = 2
      PROVE  i = j /\ k = l
  <2>1. /\ k > 1 /\ text[i][k - 1] = <<text[i][k][1], 1>>
        /\ l > 1 /\ text[j][l - 1] = <<text[j][l][1], 1>>
    BY <1>4 DEF LineInv, TextInv, PieceInv
  <2>2. k - 1 \in DOMAIN text[i] /\ l - 1 \in DOMAIN text[j] /\ k \in Nat /\ l \in Nat
    BY <2>1, FileIs
  <2>3. i = j /\ k - 1 = l - 1
    BY <1>4, <2>1, <2>2 DEF LineInv, OnceInv
  <2> QED
    BY <2>2, <2>3
<1>5. ASSUME NEW k \in Ends(all)
      PROVE  /\ k \in Nat /\ F + k \in DOMAIN t /\ all[k] = t[F + k]
             /\ t[F + k] = <<all[k][1], 2>> /\ t[F + k][2] = 2 /\ F + k > reader.offset
  <2>1. k \in DOMAIN all /\ all[k][2] = 2 /\ k \in Nat
    BY <1>2 DEF Ends
  <2>2. all[k] \in Piece
    BY <1>1, <2>1
  <2> QED
    BY <1>1, <1>2, <2>1, <2>2 DEF Piece
<1> HIDE DEF t, F, all
<1>6. Once(Lines(all))
  <2>1. ASSUME NEW k \in Ends(all), NEW l \in Ends(all), all[k][1] = all[l][1] PROVE k = l
    <3>0. t[F + k] = t[F + l] /\ F + k \in DOMAIN t /\ F + l \in DOMAIN t /\ t[F + k][2] = 2
      BY <1>5, <2>1
    <3>1. F + k = F + l
      BY <1>1, <1>4, <3>0 DEF t
    <3> QED
      BY <1>1, <1>5, <3>1
  <2> QED
    BY <1>3, <2>1 DEF Once
<1>7. ASSUME NEW e \in ToSet(Lines(all))
      PROVE  \E k \in DOMAIN t : t[k] = <<e, 2>> /\ k > reader.offset
  BY <1>3, <1>5
<1>8. ASSUME ~crossed, NEW e \in Handed, e \in ToSet(Lines(all)) PROVE FALSE
  <2>1. PICK k \in DOMAIN t : t[k] = <<e, 2>> /\ k > reader.offset
    BY <1>7, <1>8
  <2>2. PICK i \in 1..reader.fd : \E l \in DOMAIN text[i] :
          text[i][l] = <<e, 2>> /\ (i = reader.fd => l <= reader.offset)
    BY <1>8 DEF PastInv
  <2>3. PICK l \in DOMAIN text[i] : text[i][l] = <<e, 2>> /\ (i = reader.fd => l <= reader.offset)
    BY <2>2
  <2>4. i \in DOMAIN text
    BY <1>2
  <2>5. i = reader.fd /\ l = k
    BY <1>1, <1>4, <2>1, <2>3, <2>4 DEF t
  <2> QED
    BY <1>2, <2>1, <2>3, <2>5
<1> QED
  BY <1>6, <1>7, <1>8 DEF all, t

\* A read hands on each whole line once and keeps the half one.
LEMMA ReadKeepsFollower ==
  ASSUME LogTypeOK, LineInv, FollowerInv, LoadExisting \/ ReadNew PROVE FollowerInv'
<1> DEFINE t == text[reader.fd]
           F == KeptFrom
           rest == Remainder(Taken)
<1>0. PlaceInv /\ KeptInv /\ ReadIsShown /\ FollowInv /\ PastInv /\ ShownOnce
  BY DEF FollowerInv
<1>1. /\ reader.pc \in {"load", "read"} /\ reader'.pc = "poll"
      /\ Hand(Lines(Taken)) /\ Lines(Taken) \in Seq(Event)
      /\ reader'.fd = reader.fd /\ reader'.inode = reader.inode
      /\ reader'.offset = Len(t)
      /\ torn' \in {torn, torn \cup Seen(rest)}
      /\ \/ reader'.kept = rest
         \/ reader'.kept = <<>> /\ torn' = torn \cup Seen(rest)
      /\ UNCHANGED <<file, text, writer, rotator, logged, crossed>>
  BY <1>0, ReadEffect
<1>2. /\ reader.fd \in DOMAIN text /\ F \in 0..Len(t) /\ Taken \in Seq(Piece) /\ Len(Taken) = Len(t) - F
      /\ \A k \in DOMAIN Taken : F + k \in DOMAIN t /\ Taken[k] = t[F + k]
      /\ \A k \in DOMAIN t : k > F => k - F \in DOMAIN Taken
  BY <1>0, <1>1, TakenIs
<1>3. /\ t \in Seq(Piece) /\ Len(t) \in Nat /\ DOMAIN t = 1..Len(t) /\ Len(Taken) \in Nat
      /\ DOMAIN Taken = 1..Len(Taken) /\ reader.offset \in Nat /\ reader.fd \in Nat \ {0}
  BY <1>2, FileIs, ReaderIs
<1>4. /\ Handed' = Handed \cup ToSet(Lines(Taken))
      /\ Once(shown \o queue \o refused) /\ Once(Lines(Taken)) /\ Handed \cap ToSet(Lines(Taken)) = {}
              => Once(shown' \o queue' \o refused')
  BY <1>1, LogAssumption, HandAdds
<1>5. /\ Once(Lines(Taken))
      /\ ~crossed => Handed \cap ToSet(Lines(Taken)) = {}
      /\ \A e \in ToSet(Lines(Taken)) : \E k \in DOMAIN t : t[k] = <<e, 2>> /\ k > reader.offset
  BY <1>0, <1>1, LinesAreNew
<1>6. PICK r \in 0..Len(Taken) :
        /\ rest = SubSeq(Taken, r + 1, Len(Taken))
        /\ r = 0 \/ Taken[r][2] = 2
        /\ \A k \in DOMAIN Taken : k > r => Taken[k][2] = 1
  BY <1>2, RemainderIs
<1>r. r \in Nat /\ r <= Len(Taken)
  BY <1>3
<1>7. /\ rest \in Seq(Piece) /\ Len(rest) = Len(Taken) - r /\ r \in Nat
      /\ \A k \in DOMAIN rest : r + k \in DOMAIN Taken /\ rest[k] = Taken[r + k] /\ k \in Nat /\ k >= 1
  <2> DEFINE m == r + 1
             n == Len(Taken)
  <2>1. m \in Int /\ n \in Int /\ \A i \in m..n : Taken[i] \in Piece
    BY <1>2, <1>3
  <2>2. /\ SubSeq(Taken, m, n) \in Seq(Piece)
        /\ Len(SubSeq(Taken, m, n)) = IF m <= n THEN n - m + 1 ELSE 0
        /\ \A i \in 1..n - m + 1 : SubSeq(Taken, m, n)[i] = Taken[m + i - 1]
    <3> HIDE DEF m, n
    <3> QED BY <2>1, SubSeqProperties
  <2>3. rest \in Seq(Piece) /\ Len(rest) = Len(Taken) - r /\ r \in Nat
    <3>1. Len(SubSeq(Taken, m, n)) = Len(Taken) - r
      <4>1. CASE r = Len(Taken)
        <5>1. ~(m <= n)
          BY <1>3, <1>r, <4>1
        <5> QED
          BY <1>3, <1>r, <2>2, <4>1, <5>1
      <4>2. CASE r < Len(Taken)
        <5>1. m <= n /\ n - m + 1 = Len(Taken) - r
          BY <1>3, <1>r, <4>2
        <5> HIDE DEF m, n
        <5> QED
          BY <2>2, <5>1
      <4>3. r = Len(Taken) \/ r < Len(Taken)
        <5>1. Len(Taken) \in Nat
          BY <1>3
        <5> QED
          BY <1>r, <5>1
      <4> QED
        BY <4>1, <4>2, <4>3
    <3> HIDE DEF rest, m, n
    <3> QED
      BY <1>6, <1>r, <2>2, <3>1 DEF m, n
  <2>4. ASSUME NEW k \in DOMAIN rest
        PROVE  r + k \in DOMAIN Taken /\ rest[k] = Taken[r + k] /\ k \in Nat /\ k >= 1
    <3>1. k \in 1..n - m + 1 /\ m + k - 1 = r + k /\ k \in Nat /\ k >= 1
      BY <1>3, <2>3
    <3>2. rest[k] = Taken[r + k]
      BY <1>6, <2>2, <3>1
    <3> QED
      BY <1>3, <2>3, <3>1, <3>2
  <2> QED
    BY <2>3, <2>4
<1>8. \A j \in DOMAIN Taken : Taken[j][1] \in ToSet(Lines(Taken)) \cup torn \cup Seen(rest)
  BY <1>0, <1>1, TakenIsFound
<1>9. torn \subseteq torn' /\ Seen(rest) \subseteq torn' \cup Seen(reader'.kept)
  BY <1>1
<1>10. (F > 0 => t[F][2] = 2 \/ t[F][1] \in torn) /\ Size(reader.fd) = Len(t)
       /\ reader.offset <= Len(t)
  BY <1>0, <1>3 DEF KeptInv, PlaceInv, Size
<1> HIDE DEF rest
<1>11. PlaceInv'
  <2>1. (reader.offset <= Size(reader.fd))'
    BY <1>1, <1>3 DEF Size
  <2> QED
    BY <1>1, <1>3, <2>1 DEF PlaceInv, Unread
<1>12. KeptInv'
  <2>1. CASE reader'.kept = rest
    <3>1. KeptFrom' = Len(t) - Len(rest)
      BY <1>1, <2>1 DEF KeptFrom
    <3>2. KeptFrom' = F + r
      <4>1. F \in Nat /\ Len(t) \in Nat /\ Len(rest) = (Len(t) - F) - r
        BY <1>2, <1>3, <1>7
      <4> HIDE DEF F, t
      <4> QED
        BY <1>r, <3>1, <4>1
    <3>3. KeptFrom' >= 0
      BY <1>2, <1>3, <1>7, <3>2
    <3>4. ASSUME NEW k \in DOMAIN rest PROVE rest[k] = t[(F + r) + k] /\ rest[k][2] = 1
      <4>1. r + k \in DOMAIN Taken /\ rest[k] = Taken[r + k] /\ k \in Nat /\ k >= 1 /\ r + k > r
        BY <1>7
      <4>2. F + (r + k) = (F + r) + k
        BY <1>2, <1>3, <1>7, <4>1
      <4>3. Taken[r + k] = t[F + (r + k)] /\ Taken[r + k][2] = 1
        BY <1>2, <1>6, <4>1
      <4> QED
        BY <4>1, <4>2, <4>3
    <3>5. F + r > 0 => t[F + r][2] = 2 \/ t[F + r][1] \in torn
      <4>1. CASE r = 0
        <5>1. F + r = F
          BY <1>2, <1>3, <4>1
        <5> QED
          BY <1>10, <5>1
      <4>2. CASE r # 0
        <5>1. r \in DOMAIN Taken /\ Taken[r][2] = 2
          BY <1>3, <1>6, <1>r, <4>2
        <5> QED
          BY <1>2, <5>1
      <4> QED
        BY <4>1, <4>2
    <3> HIDE DEF F, t
    <3>6. t = text'[reader'.fd]
      BY <1>1 DEF t
    <3> QED
      BY <1>9, <2>1, <3>2, <3>3, <3>4, <3>5, <3>6 DEF KeptInv
  <2>2. CASE reader'.kept = <<>> /\ torn' = torn \cup Seen(rest)
    <3>1. KeptFrom' = Len(t)
      <4>1. Len(reader'.kept) = 0
        BY <2>2
      <4>2. KeptFrom' = Len(t) - 0
        BY <1>1, <4>1 DEF KeptFrom
      <4> QED
        BY <1>3, <4>2
    <3>2. Len(t) > 0 => t[Len(t)][2] = 2 \/ t[Len(t)][1] \in torn'
      <4> SUFFICES ASSUME Len(t) > 0 PROVE t[Len(t)][2] = 2 \/ t[Len(t)][1] \in torn'
        OBVIOUS
      <4>1. CASE Len(Taken) = 0
        <5>1. F = Len(t)
          BY <1>2, <1>3, <4>1
        <5> QED
          BY <1>9, <1>10, <5>1
      <4>2. CASE r = Len(Taken) /\ r # 0
        <5>1. r \in DOMAIN Taken /\ Taken[r][2] = 2 /\ F + r = Len(t)
          BY <1>2, <1>3, <1>6, <1>7, <4>2
        <5>2. t[F + r] = Taken[r]
          BY <1>2, <5>1
        <5> QED
          BY <5>1, <5>2
      <4>3. CASE r < Len(Taken)
        <5>1. Len(rest) \in DOMAIN rest /\ r + Len(rest) = Len(Taken)
          BY <1>3, <1>7, <4>3
        <5>2. rest[Len(rest)] = Taken[Len(Taken)] /\ Len(Taken) \in DOMAIN Taken /\ F + Len(Taken) = Len(t)
          BY <1>2, <1>3, <1>7, <5>1
        <5>3. rest[Len(rest)] = t[Len(t)]
          BY <1>2, <5>2
        <5>4. rest[Len(rest)][1] \in Seen(rest)
          BY <5>1 DEF Seen
        <5> QED
          BY <2>2, <5>3, <5>4
      <4>4. r = Len(Taken) \/ r < Len(Taken)
        BY <1>3, <1>r
      <4> QED
        BY <4>1, <4>2, <4>3, <4>4
    <3> HIDE DEF F, t
    <3>3. t = text'[reader'.fd]
      BY <1>1 DEF t
    <3> QED
      BY <1>3, <2>2, <3>1, <3>2, <3>3 DEF KeptInv
  <2> QED
    BY <1>1, <2>1, <2>2
<1>13. ReadIsShown'
  <2>1. ASSUME NEW k \in 1..Len(t)
        PROVE  t[k][1] \in Handed' \cup torn' \cup Seen(reader'.kept)
    <3>1. CASE k > F
      <4>1. k - F \in DOMAIN Taken /\ F + (k - F) = k
        BY <1>2, <1>3, <3>1
      <4>2. t[k] = Taken[k - F]
        BY <1>2, <4>1
      <4> QED
        BY <1>4, <1>8, <1>9, <4>1, <4>2
    <3>2. CASE k <= F
      <4>1. k \in 1..reader.offset
        <5>1. F <= reader.offset /\ F \in Nat
          BY <1>2, <1>3, ReaderIs DEF KeptFrom
        <5> QED
          BY <1>3, <3>2, <5>1
      <4>2. t[k][1] \in Handed \cup torn \cup Seen(reader.kept)
        BY <1>0, <4>1 DEF ReadIsShown
      <4>3. CASE t[k][1] \in Seen(reader.kept)
        <5>1. PICK m \in DOMAIN reader.kept : t[k][1] = reader.kept[m][1]
          BY <4>3 DEF Seen
        <5>2. reader.kept[m] = t[F + m]
          BY <1>0 DEF KeptInv
        <5>3. F + m > F /\ F + m \in DOMAIN t /\ m \in Nat
          <6>1. m \in 1..Len(reader.kept) /\ F = reader.offset - Len(reader.kept)
                /\ Len(reader.kept) \in Nat
            BY ReaderIs DEF KeptFrom
          <6>2. reader.offset \in Nat /\ reader.offset <= Len(t) /\ Len(t) \in Nat
                /\ F \in Nat /\ DOMAIN t = 1..Len(t)
            BY <1>2, <1>3, <1>10
          <6> HIDE DEF F, t
          <6> QED
            BY <6>1, <6>2
        <5>4. (F + m) - F \in DOMAIN Taken /\ (F + m) - F = m
          BY <1>2, <1>3, <5>3
        <5>5. Taken[m] = reader.kept[m]
          BY <1>2, <5>2, <5>4
        <5> QED
          BY <1>4, <1>8, <1>9, <5>1, <5>4, <5>5
      <4> QED
        BY <1>4, <1>9, <4>2, <4>3
    <3> QED
      BY <1>2, <1>3, <3>1, <3>2
  <2> QED
    BY <1>1, <2>1 DEF ReadIsShown, Seen
<1>14. FollowInv'
  BY <1>0, <1>1 DEF FollowInv
<1>15. PastInv'
  <2>0. /\ text' = text /\ crossed' = crossed /\ reader'.fd = reader.fd /\ reader'.offset = Len(t)
        /\ Handed' = Handed \cup ToSet(Lines(Taken))
    BY <1>1, <1>4
  <2> SUFFICES ASSUME ~crossed', NEW e \in Handed'
               PROVE  \E i \in 1..reader'.fd : \E k \in DOMAIN text'[i] :
                        text'[i][k] = <<e, 2>> /\ (i = reader'.fd => k <= reader'.offset)
    BY DEF PastInv
  <2>s. SUFFICES \E i \in 1..reader.fd : \E k \in DOMAIN text[i] :
                   text[i][k] = <<e, 2>> /\ (i = reader.fd => k <= Len(t))
    <3> HIDE DEF t
    <3> QED
      BY <2>0
  <2>c. ~crossed
    BY <2>0
  <2>1. CASE e \in Handed
    <3>1. PICK i \in 1..reader.fd : \E k \in DOMAIN text[i] :
            text[i][k] = <<e, 2>> /\ (i = reader.fd => k <= reader.offset)
      BY <1>0, <2>1, <2>c DEF PastInv
    <3>2. PICK k \in DOMAIN text[i] : text[i][k] = <<e, 2>> /\ (i = reader.fd => k <= reader.offset)
      BY <3>1
    <3>3. i = reader.fd => k <= Len(t)
      BY <1>3, <3>2
    <3> QED
      BY <3>2, <3>3
  <2>2. CASE e \in ToSet(Lines(Taken))
    <3>1. PICK k \in DOMAIN t : t[k] = <<e, 2>>
      BY <1>5, <2>2
    <3>2. reader.fd \in 1..reader.fd /\ k <= Len(t)
      BY <1>3
    <3> QED
      BY <3>1, <3>2
  <2> QED
    BY <2>0, <2>1, <2>2
<1>16. ShownOnce'
  <2> SUFFICES ASSUME ~crossed PROVE Once(shown' \o queue' \o refused')
    BY <1>1 DEF ShownOnce, Once
  <2>1. Once(shown \o queue \o refused)
    BY <1>0 DEF ShownOnce, Once
  <2> QED
    BY <1>4, <1>5, <2>1
<1> QED
  BY <1>11, <1>12, <1>13, <1>14, <1>15, <1>16 DEF FollowerInv

-----------------------------------------------------------------------------
\* Every step of the log keeps the invariant.
LEMMA NextLog == LogInv /\ [LogNext]_eventVars => LogInv'
<1> SUFFICES ASSUME LogInv, [LogNext]_eventVars PROVE LogInv'
  OBVIOUS
<1>1. LogTypeOK /\ LineInv /\ FileInv /\ FollowerInv
  BY DEF LogInv, LineInv, FollowerInv
<1>2. ASSUME NEW w \in Logger, OpenLog(w) \/ WriteLine(w) \/ WriteRest(w) \/ Moves(w)
      PROVE  (LogTypeOK /\ LineInv /\ FileInv /\ FollowerInv)'
  <2>1. LogTypeOK'
    BY <1>1, <1>2, OpenTypes, WriteTypes, MoveTypes
  <2>2. LineInv'
    BY <1>1, <1>2, OpenLines, WriteLineLines, WriteRestLines, MoveLines
  <2>3. FileInv' /\ FollowerInv'
    BY <1>1, <1>2, FileSteps, WriterKeepsFollower
  <2> QED
    BY <2>1, <2>2, <2>3
<1>3. ASSUME UNCHANGED <<file, text, writer, logged>>, torn \subseteq torn'
      PROVE  LineInv' /\ FileInv'
  BY <1>1, <1>3, LinesUnread DEF FileInv, RotatedFull, Size
<1>4. CASE LoadExisting \/ ReadNew
  <2>0. UNCHANGED <<file, text, writer, logged>> /\ torn \subseteq torn'
    BY <1>1, <1>4, ReadEffect DEF FollowerInv
  <2>1. LogTypeOK' /\ FollowerInv'
    BY <1>1, <1>4, ReadTypes, ReadKeepsFollower DEF FollowerInv
  <2> QED
    BY <1>3, <2>0, <2>1 DEF LogInv, LineInv, FollowerInv
<1>5. CASE Asks
  <2>0. UNCHANGED <<file, text, writer, logged>> /\ torn \subseteq torn'
    BY <1>1, <1>5, AskEffect
  <2>1. LogTypeOK' /\ FollowerInv'
    BY <1>1, <1>5, AskTypes, AskKeepsFollower
  <2> QED
    BY <1>3, <2>0, <2>1 DEF LogInv, LineInv, FollowerInv
<1>6. CASE TakeEvent
  <2>0. UNCHANGED <<file, text, writer, logged>> /\ torn \subseteq torn'
    BY <1>6 DEF TakeEvent
  <2>1. LogTypeOK' /\ FollowerInv'
    BY <1>1, <1>6, TakeTypes, TakeKeepsFollower
  <2> QED
    BY <1>3, <2>0, <2>1 DEF LogInv, LineInv, FollowerInv
<1>7. CASE UNCHANGED eventVars
  <2>1. UNCHANGED <<file, text, writer, rotator, logged, reader, queue, shown, refused, torn, crossed>>
    BY <1>7 DEF eventVars
  <2>2. LogTypeOK'
    BY <1>1, <2>1 DEF LogTypeOK
  <2>3. LineInv' /\ FileInv'
    BY <1>3, <2>1
  <2>4. FollowerInv'
    <3>1. \A i \in DOMAIN text :
           /\ i \in DOMAIN text' /\ Len(text[i]) <= Len(text'[i]) /\ Len(text'[i]) \in Nat
           /\ \A k \in DOMAIN text[i] : k \in DOMAIN text'[i] /\ text'[i][k] = text[i][k]
      BY <1>1, <2>1, FileIs
    <3> QED
      BY <1>1, <2>1, <3>1, FollowerStays
  <2> QED
    BY <2>2, <2>3, <2>4 DEF LogInv, LineInv, FollowerInv
<1>8. CASE \E w \in Logger : OpenLog(w) \/ WriteLine(w) \/ WriteRest(w) \/ Moves(w)
  BY <1>2, <1>8 DEF LogInv, LineInv, FollowerInv
<1> QED
  BY <1>4, <1>5, <1>6, <1>7, <1>8 DEF LogNext, Moves, Asks

\* The invariant holds of every log, for any writers, sizes and kills, and any follower.
THEOREM LogInvariance == LogSpec => []LogInv
<1>1. LogInit => LogInv
  BY InitLog, LogAssumption
<1> QED
  BY <1>1, NextLog, PTL DEF LogSpec

\* Types of the event log and its follower.
THEOREM LogTypes == LogSpec => []LogTypeOK
<1>1. LogInv => LogTypeOK
  BY DEF LogInv
<1> QED
  BY <1>1, LogInvariance, PTL

\* events.rs and the followers of the log: only a full log is rotated, what was read
\* was shown, and a follower shows every event once unless a rotation crossed its poll.
THEOREM LogIsSafe == LogSpec => []LogSafe
<1>1. LogInv => LogSafe
  BY DEF LogInv, LogSafe, FileInv
<1> QED
  BY <1>1, LogInvariance, PTL
=============================================================================
