----------------------------- MODULE IndexDaemon ----------------------------
(***************************************************************************)
(* The search index of a project (daemon.rs, db.rs): one database, filled  *)
(* by the daemon, which indexes everything when it starts and then follows *)
(* changes on disk, and by every capture, whose structural maintenance     *)
(* indexes the wiki once more under paths of its own.  IndexLock is to     *)
(* keep two of them apart; a daemon that follows changes does not hold it. *)
(***************************************************************************)
EXTENDS Integers, FiniteSets

CONSTANTS
  Doc, Guide,              \* Markdown files of the repository and of its wiki
  Capture,                 \* captures that come to their maintenance, each once
  MaxChanges, MaxFailures  \* bounds

Daemon == "daemon"
NoIndexer == "nobody"
Indexer == Capture \cup {Daemon}
Document == Doc \cup Guide

\* A path in the database: a guide has one from the daemon (under phase-memory/)
\* and one from the captures (bare).
RowKey == [file : Document, by : {Daemon}] \cup [file : Guide, by : {"maintenance"}]
KeyOf(i, f) == [file |-> f, by |-> IF i = Daemon THEN Daemon ELSE "maintenance"]
Followed(fs) == {KeyOf(Daemon, f) : f \in fs}

\* What a file holds, and what the rows of a path are made from: Blank is a
\* file without text and a path without rows.
Absent == -1
Blank == 0
Content == {Absent, Blank} \cup 1..(MaxChanges + 1)

ASSUME IndexAssumption ==
  /\ "daemon" \notin Capture
  /\ "nobody" \notin Capture
  /\ MaxChanges \in Nat /\ MaxFailures \in Nat

VARIABLES
  disk, rows,
  phase,          \* of each indexer: "off", "look", "tmp", "rename", "list", "index",
               \* "done", and of the daemon "drop", "watch", "update", "relist", "resync"
  todo,        \* of each: the files its pass has still to index
  held,        \* of each: the path and content it is embedding, or nothing
  attached,    \* does the daemon's watcher see the wiki?
  events,      \* paths changed, not yet received
  pending,     \* paths received, to be indexed when it is quiet
  missed,      \* paths that changed without an event since they were read, or
               \* whose embedding failed
  lock, tmp,   \* the pid in the lock file and in its temporary file
  behind,      \* indexers that looked at the lock file before its last change
  raced, changes, failures

lockVars == <<lock, tmp, behind, raced>>
limitVars == <<changes, failures>>
watchVars == <<attached, events, pending>>
indexVars == <<disk, rows, phase, todo, held, watchVars, missed, lockVars, limitVars>>

Enter(i, place) == phase' = [phase EXCEPT ![i] = place]
Alive(i) == i /= NoIndexer /\ phase[i] \notin {"off", "done"}
Given(i) == IF i = Daemon THEN "off" ELSE "done"

-----------------------------------------------------------------------------
(* IndexLock.                                                              *)

Locking == UNCHANGED <<disk, rows, todo, held, watchVars, missed, limitVars>>

Start(i) ==
  /\ phase[i] = "off" /\ Enter(i, "look") /\ behind' = behind \ {i}
  /\ Locking /\ UNCHANGED <<lock, tmp, raced>>

\* The file of a dead indexer is removed.  A daemon that finds a live one ends;
\* a capture goes on without its indexing.
Look(i) ==
  /\ phase[i] = "look"
  /\ IF lock /= i /\ Alive(lock)
     THEN Enter(i, Given(i)) /\ UNCHANGED <<lock, behind>>
     ELSE /\ Enter(i, "tmp") /\ lock' = NoIndexer
          /\ behind' = (IF lock = NoIndexer THEN behind ELSE Indexer) \ {i}
  /\ Locking /\ UNCHANGED <<tmp, raced>>

WriteTmp(i) ==
  /\ phase[i] = "tmp" /\ Enter(i, "rename") /\ tmp' = i
  /\ Locking /\ UNCHANGED <<lock, behind, raced>>

\* The temporary file has one name for all, so it may be another's, or gone.
Rename(i) ==
  /\ phase[i] = "rename"
  /\ IF tmp = NoIndexer
     THEN Enter(i, Given(i)) /\ UNCHANGED <<lock, raced, behind>>
     ELSE /\ Enter(i, "list") /\ lock' = tmp
          /\ raced' = (raced \/ i \in behind \/ tmp /= i) /\ behind' = Indexer \ {i}
  /\ tmp' = NoIndexer /\ Locking

-----------------------------------------------------------------------------
(* A pass over all files.                                                  *)

\* The files are listed, and the daemon sweeps the rows of every path without a
\* file: a capture's paths are none of the repository's.
List(i) ==
  /\ phase[i] \in {"list", "relist"}
  /\ Enter(i, IF phase[i] = "list" THEN "index" ELSE "resync")
  /\ todo' = [todo EXCEPT ![i] = {f \in IF i = Daemon THEN Document ELSE Guide : disk[f] /= Absent}]
  /\ LET gone == IF i /= Daemon THEN {}
                 ELSE {k \in RowKey : k.by /= Daemon \/ disk[k.file] = Absent}
     IN rows' = [k \in RowKey |-> IF k \in gone THEN Blank ELSE rows[k]] /\ missed' = missed \ gone
  /\ UNCHANGED <<disk, held, watchVars, lockVars, limitVars>>

\* Mutant: a file left without text keeps its rows.
ReadKeeping(i, f) ==
  LET k == KeyOf(i, f) IN
  /\ missed' = missed \ {k}
  /\ UNCHANGED rows
  /\ held' = IF disk[f] \in {Absent, Blank, rows[k]} THEN held
             ELSE [held EXCEPT ![i] = {[key |-> k, content |-> disk[f]]}]

\* index_single_file up to the embedding: an unreadable file is passed over,
\* one without text loses its rows, an unchanged one is done.  A changed path
\* whose file is gone loses its rows.
Read(i, f) ==
  LET k == KeyOf(i, f) IN
  /\ missed' = IF disk[f] = Absent /\ phase[i] /= "update" THEN missed ELSE missed \ {k}
  /\ rows' = IF disk[f] = Blank \/ (disk[f] = Absent /\ phase[i] = "update")
             THEN [rows EXCEPT ![k] = Blank] ELSE rows
  /\ held' = IF disk[f] \in {Absent, Blank, rows[k]} THEN held
             ELSE [held EXCEPT ![i] = {[key |-> k, content |-> disk[f]]}]

IndexFile(i) ==
  /\ phase[i] \in {"index", "resync", "update"} /\ held[i] = {}
  /\ \E f \in todo[i] : Read(i, f) /\ todo' = [todo EXCEPT ![i] = @ \ {f}]
  /\ UNCHANGED <<disk, phase, watchVars, lockVars, limitVars>>

\* replace_chunks_for_path, one transaction.
Replace(i) ==
  /\ \E h \in held[i] : rows' = [rows EXCEPT ![h.key] = h.content]
  /\ held' = [held EXCEPT ![i] = {}]
  /\ UNCHANGED <<disk, phase, todo, watchVars, missed, lockVars, limitVars>>

\* A failed embedding or transaction leaves the old rows.
EmbedFails(i) ==
  /\ failures < MaxFailures /\ failures' = failures + 1
  /\ \E h \in held[i] : missed' = missed \cup {h.key}
  /\ held' = [held EXCEPT ![i] = {}]
  /\ UNCHANGED <<disk, rows, phase, todo, watchVars, lockVars, changes>>

\* Whatever the lock file holds is removed with the guard.
EndPass(i) ==
  /\ phase[i] = "index" /\ todo[i] = {} /\ held[i] = {}
  /\ Enter(i, IF i = Daemon THEN "drop" ELSE "done")
  /\ lock' = NoIndexer /\ behind' = Indexer \ {i}
  /\ Locking /\ UNCHANGED <<tmp, raced>>

-----------------------------------------------------------------------------
(* The daemon follows changes.                                             *)

Watch ==
  /\ phase[Daemon] = "drop" /\ Enter(Daemon, "watch")
  /\ attached' = TRUE
  /\ UNCHANGED <<disk, rows, todo, held, events, pending, missed, lockVars, limitVars>>

Watching == phase[Daemon] \in {"watch", "update", "relist", "resync"}

Receive ==
  /\ phase[Daemon] = "watch" /\ events /= {}
  /\ pending' = pending \cup events /\ events' = {}
  /\ UNCHANGED <<disk, rows, phase, todo, held, attached, missed, lockVars, limitVars>>

\* 300 ms without an event.
Quiet ==
  /\ phase[Daemon] = "watch" /\ events = {} /\ pending /= {}
  /\ Enter(Daemon, "update")
  /\ todo' = [todo EXCEPT ![Daemon] = {k.file : k \in pending}] /\ pending' = {}
  /\ UNCHANGED <<disk, rows, held, attached, events, missed, lockVars, limitVars>>

EndUpdate ==
  /\ phase[Daemon] \in {"update", "resync"} /\ todo[Daemon] = {} /\ held[Daemon] = {}
  /\ Enter(Daemon, "watch")
  /\ UNCHANGED <<disk, rows, todo, held, watchVars, missed, lockVars, limitVars>>

\* Files change, appear, lose their text and disappear; what the watcher sees
\* becomes an event.
Change(f) ==
  /\ changes < MaxChanges /\ changes' = changes + 1
  /\ \E c \in {Absent, Blank, changes + 2} : c /= disk[f] /\ disk' = [disk EXCEPT ![f] = c]
  /\ LET k == KeyOf(Daemon, f) IN
     IF Watching /\ (f \in Doc \/ attached)
     THEN events' = events \cup {k} /\ UNCHANGED missed
     ELSE missed' = missed \cup {k} /\ UNCHANGED events
  /\ UNCHANGED <<rows, phase, todo, held, attached, pending, lockVars, failures>>

\* A synchronization replaces the directory of the wiki, which a watcher may
\* lose sight of.  The daemon's own is followed by a pass over all files, which
\* the daemon makes without the lock.
Swap(own) ==
  /\ changes < MaxChanges /\ changes' = changes + 1
  /\ own => phase[Daemon] = "watch"
  /\ disk' = [f \in Document |-> IF f \in Guide THEN changes + 2 ELSE disk[f]]
  /\ IF own THEN Enter(Daemon, "relist") ELSE UNCHANGED phase
  /\ missed' = missed \cup Followed(Guide)
  /\ attached' \in {FALSE, attached}
  /\ UNCHANGED <<rows, todo, held, events, pending, lockVars, failures>>

\* Six quiet hours end the daemon.
Retire ==
  /\ phase[Daemon] = "watch" /\ events = {} /\ pending = {}
  /\ Enter(Daemon, "off") /\ attached' = FALSE
  /\ UNCHANGED <<disk, rows, todo, held, events, pending, missed, lockVars, limitVars>>

\* What it had not indexed is as good as unseen.
KillIndexer(i) ==
  /\ Alive(i) /\ failures < MaxFailures /\ failures' = failures + 1
  /\ Enter(i, Given(i))
  /\ todo' = [todo EXCEPT ![i] = {}] /\ held' = [held EXCEPT ![i] = {}]
  /\ IF i = Daemon
     THEN /\ attached' = FALSE /\ events' = {} /\ pending' = {}
          /\ missed' = missed \cup events \cup pending \cup Followed(todo[i])
                         \cup {h.key : h \in held[i]}
     ELSE UNCHANGED <<watchVars, missed>>
  /\ UNCHANGED <<disk, rows, lockVars, changes>>

-----------------------------------------------------------------------------
\* The daemon has never run: nothing is indexed.
IndexInit ==
  /\ disk = [f \in Document |-> 1] /\ rows = [k \in RowKey |-> Blank]
  /\ phase = [i \in Indexer |-> "off"]
  /\ todo = [i \in Indexer |-> {}] /\ held = [i \in Indexer |-> {}]
  /\ attached = FALSE /\ events = {} /\ pending = {} /\ missed = Followed(Document)
  /\ lock = NoIndexer /\ tmp = NoIndexer /\ behind = {} /\ raced = FALSE
  /\ changes = 0 /\ failures = 0

IndexNext ==
  \/ \E i \in Indexer : \/ Start(i) \/ Look(i) \/ WriteTmp(i) \/ Rename(i) \/ List(i)
                        \/ IndexFile(i) \/ Replace(i) \/ EmbedFails(i) \/ EndPass(i)
                        \/ KillIndexer(i)
  \/ Watch \/ Receive \/ Quiet \/ EndUpdate \/ Retire
  \/ \E f \in Document : Change(f)
  \/ \E own \in BOOLEAN : Swap(own)

IndexSpec == IndexInit /\ [][IndexNext]_indexVars

-----------------------------------------------------------------------------
(* Properties.                                                             *)

Phase == {"off", "look", "tmp", "rename", "list", "index", "done", "drop", "watch",
          "update", "relist", "resync"}

IndexTypeOK ==
  /\ disk \in [Document -> Content]
  /\ rows \in [RowKey -> Content \ {Absent}]
  /\ phase \in [Indexer -> Phase]
  /\ todo \in [Indexer -> SUBSET Document]
  /\ held \in [Indexer -> SUBSET [key : RowKey, content : Content \ {Absent, Blank}]]
  /\ \A i \in Indexer : \A g, h \in held[i] : g = h
  /\ attached \in BOOLEAN
  /\ events \subseteq Followed(Document) /\ pending \subseteq Followed(Document)
  /\ missed \subseteq RowKey
  /\ lock \in Indexer \cup {NoIndexer} /\ tmp \in Indexer \cup {NoIndexer}
  /\ behind \subseteq Indexer /\ raced \in BOOLEAN
  /\ changes \in 0..MaxChanges /\ failures \in 0..MaxFailures

\* When the daemon is quiet the index holds every file as it is on disk, but for
\* the paths it has had no chance to see: changed before its watcher was set
\* up, under a replaced directory, or not embedded (run_daemon,
\* index_single_file, full_index's sweep).
QuietIsCurrent ==
  phase[Daemon] = "watch" /\ events = {} /\ pending = {} =>
    \A f \in Document : \/ KeyOf(Daemon, f) \in missed
                    \/ rows[KeyOf(Daemon, f)] = IF disk[f] = Absent THEN Blank ELSE disk[f]

\* Two passes of a database overlap only if one took the lock between another's
\* look at it and its rename (IndexLock::acquire).
OneIndexerUnlessRaced ==
  raced \/ \A i, j \in Indexer :
             phase[i] \in {"list", "index"} /\ phase[j] \in {"list", "index"} => i = j

\* daemon.rs: a quiet index is what the disk holds, and two processes index at
\* once only if their looks at the lock file crossed.
IndexSafe == QuietIsCurrent /\ OneIndexerUnlessRaced
=============================================================================
