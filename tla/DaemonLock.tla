------------------------------ MODULE DaemonLock ------------------------------
(***************************************************************************)
(* The pid file that keeps a project to one daemon.  A hook that sees no   *)
(* live daemon in it spawns one; the new process does its slow start (the  *)
(* store, the rebuilding of the wiki, the embedder), then reads the file   *)
(* again in try_acquire_lock and writes itself into it.                    *)
(*                                                                         *)
(* The file is two lines, a pid and the root directory.  daemonize parses  *)
(* its first line; try_acquire_lock parses the whole text as one number.   *)
(***************************************************************************)
EXTENDS Sequences

CONSTANTS
  Hook,                   \* processes that want a daemon, each once
  Process,                \* daemon processes by their pid, each started once
  Root,                   \* the project directory, as it stands in the file
  None,                   \* no pid, and no process
  Overlap                 \* may one process read the file between another's
                          \* reading and writing it?

VARIABLES
  pidFile,                \* its lines, <<>> when there is no file
  hookPc,                 \* of each hook: "ready", "spawn", "done"
  pc                      \* of each process: "unborn", "starting", "write",
                          \* "serving", "dead"

vars == <<pidFile, hookPc, pc>>

Init ==
  /\ pidFile = <<>>
  /\ hookPc = [h \in Hook |-> "ready"]
  /\ pc = [p \in Process |-> "unborn"]

Alive(p) == p \in Process /\ pc[p] \notin {"unborn", "dead"}

\* content.lines().next().parse()
FirstLinePid == IF pidFile = <<>> THEN None ELSE Head(pidFile)

\* content.trim().parse(): a number only if nothing follows its line.
WholePid == IF Len(pidFile) = 1 THEN Head(pidFile) ELSE None

\* daemonize: a live daemon is left alone.
Check(h) ==
  /\ hookPc[h] = "ready"
  /\ hookPc' = [hookPc EXCEPT ![h] = IF Alive(FirstLinePid) THEN "done" ELSE "spawn"]
  /\ UNCHANGED <<pidFile, pc>>

Spawn(h, p) ==
  /\ hookPc[h] = "spawn"
  /\ pc[p] = "unborn"
  /\ hookPc' = [hookPc EXCEPT ![h] = "done"]
  /\ pc' = [pc EXCEPT ![p] = "starting"]
  /\ UNCHANGED pidFile

\* try_acquire_lock, first half: a live owner ends this process, the file of a
\* dead one is removed, and a text that does not parse is passed over.
ReadPid(p) ==
  /\ pc[p] = "starting"
  /\ Overlap \/ \A q \in Process : pc[q] /= "write"
  /\ pc' = [pc EXCEPT ![p] = IF Alive(WholePid) THEN "dead" ELSE "write"]
  /\ pidFile' = IF WholePid /= None /\ ~Alive(WholePid) THEN <<>> ELSE pidFile
  /\ UNCHANGED hookPc

\* Second half: the new content is renamed over the old.
WritePid(p) ==
  /\ pc[p] = "write"
  /\ pidFile' = <<p, Root>>
  /\ pc' = [pc EXCEPT ![p] = "serving"]
  /\ UNCHANGED hookPc

\* release_lock, at the idle exit or on a signal: whoever the file names.
Release(p) ==
  /\ pc[p] = "serving"
  /\ pidFile' = <<>>
  /\ pc' = [pc EXCEPT ![p] = "dead"]
  /\ UNCHANGED hookPc

\* stop_daemon: the process in the file is killed, the file is removed.
StopDaemon ==
  /\ pidFile /= <<>>
  /\ pidFile' = <<>>
  /\ pc' = IF Alive(FirstLinePid) THEN [pc EXCEPT ![FirstLinePid] = "dead"] ELSE pc
  /\ UNCHANGED hookPc

\* Killed, or ended by an error of its start.
Kill(p) ==
  /\ Alive(p)
  /\ pc' = [pc EXCEPT ![p] = "dead"]
  /\ UNCHANGED <<pidFile, hookPc>>

Next ==
  \/ \E h \in Hook : Check(h) \/ \E p \in Process : Spawn(h, p)
  \/ \E p \in Process : ReadPid(p) \/ WritePid(p) \/ Release(p) \/ Kill(p)
  \/ StopDaemon

Spec == Init /\ [][Next]_vars

\* Two daemons of a project never watch, index and lease at the same time: the
\* comment in run_daemon on taking the lock before the database is opened.
AtMostOneDaemon ==
  \A p, q \in Process : pc[p] = "serving" /\ pc[q] = "serving" => p = q
=============================================================================
