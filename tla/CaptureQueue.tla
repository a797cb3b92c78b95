----------------------------- MODULE CaptureQueue -----------------------------
(***************************************************************************)
(* The durable capture inbox and the processes around it: hook processes   *)
(* that enqueue a transcript and spawn a deferred worker, the project's    *)
(* daemons that lease due entries and spawn workers for them, and the      *)
(* workers that turn an entry into one commit of the project store.  All   *)
(* of them are separate processes sharing the file system and one flock.   *)
(* There may be several daemons: see DaemonLock.                           *)
(*                                                                         *)
(* Time is abstracted: a schedule's not_before deadline is either still in *)
(* the "future" or "due", and DeadlineElapses moves it on at any moment.   *)
(* What a commit writes is the subject of SnapshotStore; here it appends   *)
(* the capture id to the history.  The schedule's attempts and last_error  *)
(* are diagnostics no step reads, and are left out.                        *)
(***************************************************************************)
EXTENDS SequencesExt

CONSTANTS
  Capture,                \* capture ids: hashes of project, session, transcript
  Worker,                 \* slots for live `hook capture --deferred` processes
  Hook,                   \* hook invocations (Stop, SessionEnd), each runs once
  None,                   \* no capture, or nobody holding the lock
  Daemon,                 \* slots for live daemons of the project
  MaxToggles,             \* bound: times the user flips capture_enabled
  MaxFailures,            \* bound: failed stages, commits, spawns, starts
  MaxCrashes              \* bound: processes killed

ASSUME QueueAssumption ==
  /\ None \notin Capture \cup Worker
  /\ None \notin Daemon
  /\ Daemon \cap Worker = {}
  /\ MaxToggles \in Nat
  /\ MaxFailures \in Nat
  /\ MaxCrashes \in Nat

VARIABLES
  entry,                  \* inbox/<id>: "absent", "full", or a "husk" without
                          \* request and transcript
  schedule,               \* its schedule.json: "missing", "future" or "due"
  history,                \* capture commits reachable from HEAD, oldest first
  storeLock,              \* who holds locks/project-store.lock
  pc, job,                \* of each worker: its place in the code, its capture
  hookPc, hookJob,        \* of each hook invocation
  daemonPc,               \* of each daemon: its place in a maintenance round
  dueList, leased,        \* ids its round has to lease; the one just leased
  enabled,                \* config.capture_enabled
  accepted, discarded,    \* auxiliary: captures ever enqueued; those dropped
  toggles, failures, crashes   \* how much of the three bounds is used

inboxVars  == <<entry, schedule>>
workerVars == <<pc, job>>
hookVars   == <<hookPc, hookJob>>
daemonVars == <<daemonPc, dueList, leased>>
configVars == <<enabled, toggles>>
auxVars    == <<accepted, discarded>>
vars == <<inboxVars, history, storeLock, workerVars, hookVars, daemonVars,
          configVars, auxVars, failures, crashes>>

\* The places of a worker that holds the store lock.
Critical == {"check", "semantic", "commit", "unlink", "rmdir", "sync"}
WorkerPc == {"idle", "load", "claimed", "debounce", "start", "drop", "dropDir",
             "lock", "syncWait"} \cup Critical
DaemonPc == {"down", "start", "poll", "lease", "spawn", "syncWait", "sync"}

TypeOK ==
  /\ entry \in [Capture -> {"absent", "full", "husk"}]
  /\ schedule \in [Capture -> {"missing", "future", "due"}]
  /\ history \in Seq(Capture)
  /\ storeLock \in Worker \cup Daemon \cup {None}
  /\ pc \in [Worker -> WorkerPc]
  /\ job \in [Worker -> Capture \cup {None}]
  /\ \A w \in Worker : pc[w] = "idle" <=> job[w] = None
  /\ hookPc \in [Hook -> {"ready", "placed", "scheduled", "done"}]
  /\ hookJob \in [Hook -> Capture \cup {None}]
  /\ daemonPc \in [Daemon -> DaemonPc]
  /\ dueList \in [Daemon -> SUBSET Capture]
  /\ leased \in [Daemon -> Capture \cup {None}]
  /\ enabled \in BOOLEAN
  /\ accepted \in SUBSET Capture
  /\ discarded \in SUBSET Capture
  /\ toggles \in 0..MaxToggles
  /\ failures \in 0..MaxFailures
  /\ crashes \in 0..MaxCrashes

Init ==
  /\ entry = [c \in Capture |-> "absent"]
  /\ schedule = [c \in Capture |-> "missing"]
  /\ history = <<>>
  /\ storeLock = None
  /\ pc = [w \in Worker |-> "idle"]
  /\ job = [w \in Worker |-> None]
  /\ hookPc = [h \in Hook |-> "ready"]
  /\ hookJob = [h \in Hook |-> None]
  /\ daemonPc = [d \in Daemon |-> "down"]
  /\ dueList = [d \in Daemon |-> {}]
  /\ leased = [d \in Daemon |-> None]
  /\ enabled = TRUE
  /\ accepted = {}
  /\ discarded = {}
  /\ toggles = 0
  /\ failures = 0
  /\ crashes = 0

\* Mutant: git log -1 without the path of the manifest.
CommittedLast(c) == history /= <<>> /\ Last(history) = c

Committed(c) == c \in ToSet(history)

\* One more use of the failure bound.
Failure ==
  /\ failures < MaxFailures
  /\ failures' = failures + 1

-----------------------------------------------------------------------------
(* The inbox: create, schedule, remove.                                    *)

\* schedule.json is written with atomic_write, which recreates a missing
\* entry directory: writing the schedule of a removed entry leaves a husk.
WriteSchedule(c, when) ==
  /\ entry' = [entry EXCEPT ![c] = IF @ = "absent" THEN "husk" ELSE @]
  /\ schedule' = [schedule EXCEPT ![c] = when]

\* remove_dir_all, first half: every file of the entry is unlinked.
UnlinkFiles(c) ==
  /\ entry' = [entry EXCEPT ![c] = IF @ = "full" THEN "husk" ELSE @]
  /\ schedule' = [schedule EXCEPT ![c] = "missing"]

\* remove_dir_all, second half: rmdir, which fails when a schedule was
\* written meanwhile.
RemoveDir(c) ==
  /\ entry' = [entry EXCEPT ![c] = IF @ = "husk" /\ schedule[c] = "missing"
                                   THEN "absent" ELSE @]
  /\ UNCHANGED schedule

\* load_inbox_capture: the request and the transcript are there and agree.
Loads(c) == entry[c] = "full"

\* The deadline of an entry passes (debounce, lease or retry delay).
DeadlineElapses(c) ==
  /\ schedule[c] = "future"
  /\ schedule' = [schedule EXCEPT ![c] = "due"]
  /\ UNCHANGED <<entry, history, storeLock, workerVars, hookVars, daemonVars,
                 configVars, auxVars, failures, crashes>>

-----------------------------------------------------------------------------
(* Starting a deferred worker in a free slot.                              *)

\* A hook's worker starts at "load"; the daemon's, whose entry is claimed by a
\* lease (PC_CAPTURE_CLAIMED), at "claimed".
StartWorker(w, c, place) ==
  /\ pc[w] = "idle"
  /\ pc' = [pc EXCEPT ![w] = place]
  /\ job' = [job EXCEPT ![w] = c]

\* Mutant: the slot is freed, its capture is not.
ExitKeepingJob(w) ==
  /\ pc' = [pc EXCEPT ![w] = "idle"]
  /\ UNCHANGED job

Exit(w) ==
  /\ pc' = [pc EXCEPT ![w] = "idle"]
  /\ job' = [job EXCEPT ![w] = None]

Goto(w, place) ==
  /\ pc' = [pc EXCEPT ![w] = place]
  /\ UNCHANGED job

-----------------------------------------------------------------------------
(* A hook invocation: run_capture_scheduled.                               *)

\* enqueue_capture, up to the rename of the complete entry into place.  An
\* entry that is there already has the same content, for its name is the
\* hash of it; a husk has no request to compare and the hook gives up.
HookPlace(h, c) ==
  /\ hookPc[h] = "ready"
  /\ enabled
  /\ IF entry[c] = "husk"
     THEN /\ hookPc' = [hookPc EXCEPT ![h] = "done"]
          /\ UNCHANGED <<entry, hookJob, auxVars>>
     ELSE /\ entry' = [entry EXCEPT ![c] = "full"]
          /\ hookPc' = [hookPc EXCEPT ![h] = "placed"]
          /\ hookJob' = [hookJob EXCEPT ![h] = c]
          /\ accepted' = accepted \cup {c}
          /\ discarded' = discarded \ {c}
  /\ UNCHANGED <<schedule, history, storeLock, workerVars, daemonVars,
                 configVars, failures, crashes>>

\* enqueue_capture's last step: the debounce delay, zero for SessionEnd.
HookSchedule(h) ==
  /\ hookPc[h] = "placed"
  /\ \E when \in {"future", "due"} : WriteSchedule(hookJob[h], when)
  /\ hookPc' = [hookPc EXCEPT ![h] = "scheduled"]
  /\ UNCHANGED <<history, storeLock, workerVars, hookJob, daemonVars, configVars,
                 auxVars, failures, crashes>>

\* A daemon that is down is started; the pid file does not prevent a second one.
StartDaemon(d) ==
  /\ daemonPc[d] = "down"
  /\ daemonPc' = [daemonPc EXCEPT ![d] = "start"]

\* The store is ensured and, when that works and no daemon is seen alive, one
\* is started.
EnsureDaemon == UNCHANGED daemonPc \/ \E d \in Daemon : StartDaemon(d)

\* Then the deferred worker is spawned.
HookSpawn(h, w) ==
  /\ hookPc[h] = "scheduled"
  /\ StartWorker(w, hookJob[h], "load")
  /\ hookPc' = [hookPc EXCEPT ![h] = "done"]
  /\ EnsureDaemon
  /\ UNCHANGED <<inboxVars, history, storeLock, hookJob, dueList, leased,
                 configVars, auxVars, failures, crashes>>

\* spawn failed: mark_attempt_failure, 15 s.
HookSpawnFails(h) ==
  /\ hookPc[h] = "scheduled"
  /\ Failure
  /\ EnsureDaemon
  /\ WriteSchedule(hookJob[h], "future")
  /\ hookPc' = [hookPc EXCEPT ![h] = "done"]
  /\ UNCHANGED <<history, storeLock, workerVars, hookJob, dueList, leased,
                 configVars, auxVars, crashes>>

-----------------------------------------------------------------------------
(* The daemon's maintenance round: spawn_due_inbox_captures, then          *)
(* synchronize_if_due.                                                     *)

\* Any hook or prompt of the user starts a daemon when none is seen alive; it
\* first rebuilds the wiki under the store lock, as a synchronization does.
DaemonStart(d) ==
  /\ StartDaemon(d)
  /\ UNCHANGED <<inboxVars, history, storeLock, workerVars, hookVars, dueList,
                 leased, configVars, auxVars, failures, crashes>>

\* Mutant: an entry whose schedule was never written is not due.
ScheduledDueCaptures ==
  {c \in Capture : entry[c] /= "absent" /\ schedule[c] = "due"}

\* due_capture_ids: one directory listing.  A missing schedule counts as due,
\* and a husk is listed like any other directory.
DueCaptures == {c \in Capture : entry[c] /= "absent" /\ schedule[c] /= "future"}

DaemonGoto(d, place) == daemonPc' = [daemonPc EXCEPT ![d] = place]

DaemonScan(d) ==
  /\ daemonPc[d] = "poll"
  /\ dueList' = [dueList EXCEPT ![d] = DueCaptures]
  /\ DaemonGoto(d, IF DueCaptures = {} THEN "syncWait" ELSE "lease")
  /\ UNCHANGED <<inboxVars, history, storeLock, workerVars, hookVars, leased,
                 configVars, auxVars, failures, crashes>>

\* defer_capture: a five-minute lease on the next id of the listing, which
\* may have been removed since, or leased by another daemon.
DaemonLease(d, c) ==
  /\ daemonPc[d] = "lease"
  /\ c \in dueList[d]
  /\ WriteSchedule(c, "future")
  /\ leased' = [leased EXCEPT ![d] = c]
  /\ dueList' = [dueList EXCEPT ![d] = @ \ {c}]
  /\ DaemonGoto(d, "spawn")
  /\ UNCHANGED <<history, storeLock, workerVars, hookVars, configVars, auxVars,
                 failures, crashes>>

\* An error of defer_capture ends the listing; the round goes on.
DaemonLeaseFails(d) ==
  /\ daemonPc[d] = "lease"
  /\ Failure
  /\ dueList' = [dueList EXCEPT ![d] = {}]
  /\ DaemonGoto(d, "syncWait")
  /\ UNCHANGED <<inboxVars, history, storeLock, workerVars, hookVars, leased,
                 configVars, auxVars, crashes>>

AfterSpawn(d) ==
  /\ DaemonGoto(d, IF dueList[d] = {} THEN "syncWait" ELSE "lease")
  /\ leased' = [leased EXCEPT ![d] = None]
  /\ UNCHANGED dueList

DaemonSpawn(d, w) ==
  /\ daemonPc[d] = "spawn"
  /\ StartWorker(w, leased[d], "claimed")
  /\ AfterSpawn(d)
  /\ UNCHANGED <<inboxVars, history, storeLock, hookVars, configVars, auxVars,
                 failures, crashes>>

\* spawn failed: an entry that still loads gets a failed attempt.
DaemonSpawnFails(d) ==
  /\ daemonPc[d] = "spawn"
  /\ Failure
  /\ IF Loads(leased[d])
     THEN WriteSchedule(leased[d], "future")
     ELSE UNCHANGED inboxVars
  /\ AfterSpawn(d)
  /\ UNCHANGED <<history, storeLock, workerVars, hookVars, configVars,
                 auxVars, crashes>>

\* Not due by the sync record: the round ends here.
DaemonSkipSync(d) ==
  /\ daemonPc[d] = "syncWait"
  /\ DaemonGoto(d, "poll")
  /\ UNCHANGED <<inboxVars, history, storeLock, workerVars, hookVars, dueList,
                 leased, configVars, auxVars, failures, crashes>>

\* synchronize, or the rebuilding of the wiki at the start, waits for the store
\* lock and holds it throughout.
DaemonSync(d) ==
  /\ daemonPc[d] \in {"start", "syncWait"}
  /\ storeLock = None
  /\ storeLock' = d
  /\ DaemonGoto(d, "sync")
  /\ UNCHANGED <<inboxVars, history, workerVars, hookVars, dueList, leased,
                 configVars, auxVars, failures, crashes>>

DaemonSynced(d) ==
  /\ daemonPc[d] = "sync"
  /\ storeLock' = None
  /\ DaemonGoto(d, "poll")
  /\ UNCHANGED <<inboxVars, history, workerVars, hookVars, dueList, leased,
                 configVars, auxVars, failures, crashes>>

-----------------------------------------------------------------------------
(* A deferred worker: run_deferred_capture, then run_capture_from_input.   *)

\* The entry loads, or the worker leaves.  Unless a daemon claimed the entry,
\* an undue schedule is slept off.
WorkerLoad(w) ==
  /\ pc[w] \in {"load", "claimed"}
  /\ IF ~Loads(job[w]) THEN Exit(w)
     ELSE Goto(w, IF pc[w] = "load" /\ schedule[job[w]] = "future"
                  THEN "debounce" ELSE "start")
  /\ UNCHANGED <<inboxVars, history, storeLock, hookVars, daemonVars, configVars,
                 auxVars, failures, crashes>>

\* The sleep ends: it was computed once, whatever became of the schedule.
WorkerWake(w) ==
  /\ pc[w] = "debounce"
  /\ Goto(w, "start")
  /\ UNCHANGED <<inboxVars, history, storeLock, hookVars, daemonVars, configVars,
                 auxVars, failures, crashes>>

\* The prologue of run_capture_from_input: configuration, transcript, store.
\* With capturing switched off the entry is dropped; a transcript that is gone
\* ends the worker; otherwise it goes on to the store lock.
WorkerStart(w) ==
  /\ pc[w] = "start"
  /\ IF ~enabled THEN Goto(w, "drop")
     ELSE IF entry[job[w]] /= "full" THEN Exit(w)
     ELSE Goto(w, "lock")
  /\ UNCHANGED <<inboxVars, history, storeLock, hookVars, daemonVars, configVars,
                 auxVars, failures, crashes>>

\* The same prologue's error paths: a config, key or parse problem leaves the
\* entry on its lease, an unavailable store records a failed attempt (60 s).
WorkerStartFails(w) ==
  /\ pc[w] = "start"
  /\ Failure
  /\ \/ UNCHANGED inboxVars
     \/ enabled /\ WriteSchedule(job[w], "future")
  /\ Exit(w)
  /\ UNCHANGED <<history, storeLock, hookVars, daemonVars, configVars,
                 auxVars, crashes>>

\* remove_completed of an opted-out capture, under no lock.
WorkerDrop(w) ==
  /\ pc[w] = "drop"
  /\ UnlinkFiles(job[w])
  /\ discarded' = IF Committed(job[w]) THEN discarded
                  ELSE discarded \cup {job[w]}
  /\ Goto(w, "dropDir")
  /\ UNCHANGED <<history, storeLock, hookVars, daemonVars, configVars, accepted,
                 failures, crashes>>

WorkerDropDir(w) ==
  /\ pc[w] = "dropDir"
  /\ RemoveDir(job[w])
  /\ Exit(w)
  /\ UNCHANGED <<history, storeLock, hookVars, daemonVars, configVars, auxVars,
                 failures, crashes>>

\* Mutant: one lock per worktree, not one per store.
WorkerLockNothing(w) ==
  /\ pc[w] = "lock"
  /\ Goto(w, "check")
  /\ UNCHANGED <<inboxVars, history, storeLock, hookVars, daemonVars,
                 configVars, auxVars, failures, crashes>>

\* flock on the project-store lock.
WorkerLock(w) ==
  /\ pc[w] = "lock"
  /\ storeLock = None
  /\ storeLock' = w
  /\ Goto(w, "check")
  /\ UNCHANGED <<inboxVars, history, hookVars, daemonVars, configVars, auxVars,
                 failures, crashes>>

\* Mutant: the local marker, not the history, is asked, and it was lost.
WorkerCheckNothing(w) ==
  /\ pc[w] = "check"
  /\ Goto(w, "semantic")
  /\ UNCHANGED <<inboxVars, history, storeLock, hookVars, daemonVars,
                 configVars, auxVars, failures, crashes>>

\* Canonical history decides whether there is work left: a capture another
\* worker committed, or one this worker's predecessor committed before it
\* died, only has its entry removed.  (The code takes a git log that fails for
\* "no commit"; as verify_immutable_objects bails on the same failure before
\* anything is committed, that case is part of WorkerFails.)
WorkerCheck(w) ==
  /\ pc[w] = "check"
  /\ Goto(w, IF Committed(job[w]) THEN "unlink" ELSE "semantic")
  /\ UNCHANGED <<inboxVars, history, storeLock, hookVars, daemonVars, configVars,
                 auxVars, failures, crashes>>

\* Mutant: a transcript triage finds nothing in is removed without a commit.
WorkerTriageSkips(w) ==
  /\ pc[w] = "semantic"
  /\ Goto(w, "unlink") \/ Goto(w, "commit")
  /\ UNCHANGED <<inboxVars, history, storeLock, hookVars, daemonVars,
                 configVars, auxVars, failures, crashes>>

\* Triage and the staged capture pipeline finish, or find nothing to do.
WorkerSemanticDone(w) ==
  /\ pc[w] = "semantic"
  /\ Goto(w, "commit")
  /\ UNCHANGED <<inboxVars, history, storeLock, hookVars, daemonVars, configVars,
                 auxVars, failures, crashes>>

\* The pipeline fails or times out (60 s); a commit fails (15 s); or an early
\* return - an error, or the session lock of a worker that still synchronizes -
\* leaves the entry as it is.  The lock goes with the process.
WorkerFails(w) ==
  /\ pc[w] \in {"check", "semantic", "commit"}
  /\ Failure
  /\ \/ pc[w] \in {"semantic", "commit"} /\ WriteSchedule(job[w], "future")
     \/ UNCHANGED inboxVars
  /\ storeLock' = None
  /\ Exit(w)
  /\ UNCHANGED <<history, hookVars, daemonVars, configVars, auxVars, crashes>>

\* commit_workspace_capture_locked: one commit on the store's branch.
WorkerCommit(w) ==
  /\ pc[w] = "commit"
  /\ history' = Append(history, job[w])
  /\ Goto(w, "unlink")
  /\ UNCHANGED <<inboxVars, storeLock, hookVars, daemonVars, configVars, auxVars,
                 failures, crashes>>

\* The marker cannot be written, or the removal fails at once: the worker goes
\* on, or ends, with the entry in place.
WorkerMarkFails(w) ==
  /\ pc[w] = "unlink"
  /\ Failure
  /\ storeLock' = None
  /\ Exit(w) \/ Goto(w, "syncWait")
  /\ UNCHANGED <<inboxVars, history, hookVars, daemonVars, configVars,
                 auxVars, crashes>>

\* remove_completed, after the commit.
WorkerUnlink(w) ==
  /\ pc[w] = "unlink"
  /\ UnlinkFiles(job[w])
  /\ Goto(w, "rmdir")
  /\ UNCHANGED <<history, storeLock, hookVars, daemonVars, configVars, auxVars,
                 failures, crashes>>

\* The lock is released; a worker that made a commit takes it once more to
\* synchronize, one that found its commit done does not.
WorkerRmdir(w) ==
  /\ pc[w] = "rmdir"
  /\ RemoveDir(job[w])
  /\ storeLock' = None
  /\ Exit(w) \/ Goto(w, "syncWait")
  /\ UNCHANGED <<history, hookVars, daemonVars, configVars, auxVars,
                 failures, crashes>>

WorkerSync(w) ==
  /\ pc[w] = "syncWait"
  /\ storeLock = None
  /\ storeLock' = w
  /\ Goto(w, "sync")
  /\ UNCHANGED <<inboxVars, history, hookVars, daemonVars, configVars, auxVars,
                 failures, crashes>>

WorkerSynced(w) ==
  /\ pc[w] = "sync"
  /\ storeLock' = None
  /\ Exit(w)
  /\ UNCHANGED <<inboxVars, history, hookVars, daemonVars, configVars, auxVars,
                 failures, crashes>>

-----------------------------------------------------------------------------
(* The environment: killed processes and a user who edits the config.      *)

Crash ==
  /\ crashes < MaxCrashes
  /\ crashes' = crashes + 1

\* The kernel drops the flock of a process that dies.
WorkerCrash(w) ==
  /\ pc[w] /= "idle"
  /\ Crash
  /\ storeLock' = IF storeLock = w THEN None ELSE storeLock
  /\ Exit(w)
  /\ UNCHANGED <<inboxVars, history, hookVars, daemonVars, configVars,
                 auxVars, failures>>

HookCrash(h) ==
  /\ hookPc[h] \in {"placed", "scheduled"}
  /\ Crash
  /\ hookPc' = [hookPc EXCEPT ![h] = "done"]
  /\ UNCHANGED <<inboxVars, history, storeLock, workerVars, hookJob, daemonVars,
                 configVars, auxVars, failures>>

\* Killed, stopped, or retired after six idle hours, inbox or no inbox.
DaemonCrash(d) ==
  /\ daemonPc[d] /= "down"
  /\ Crash
  /\ DaemonGoto(d, "down")
  /\ dueList' = [dueList EXCEPT ![d] = {}]
  /\ leased' = [leased EXCEPT ![d] = None]
  /\ storeLock' = IF storeLock = d THEN None ELSE storeLock
  /\ UNCHANGED <<inboxVars, history, workerVars, hookVars, configVars,
                 auxVars, failures>>

ToggleConfig ==
  /\ toggles < MaxToggles
  /\ toggles' = toggles + 1
  /\ enabled' = ~enabled
  /\ UNCHANGED <<inboxVars, history, storeLock, workerVars, hookVars, daemonVars,
                 auxVars, failures, crashes>>

-----------------------------------------------------------------------------
HookNext(h) ==
  \/ \E c \in Capture : HookPlace(h, c)
  \/ HookSchedule(h)
  \/ \E w \in Worker : HookSpawn(h, w)
  \/ HookSpawnFails(h)
  \/ HookCrash(h)

\* What a daemon does by itself, spawning aside.
DaemonStep(d) ==
  \/ DaemonStart(d) \/ DaemonScan(d)
  \/ \E c \in Capture : DaemonLease(d, c)
  \/ DaemonSkipSync(d) \/ DaemonSync(d) \/ DaemonSynced(d)

DaemonNext(d) ==
  \/ DaemonStep(d)
  \/ \E w \in Worker : DaemonSpawn(d, w)
  \/ DaemonLeaseFails(d) \/ DaemonSpawnFails(d)
  \/ DaemonCrash(d)

\* What a worker does by itself, failures and kills aside.
WorkerStep(w) ==
  \/ WorkerLoad(w) \/ WorkerWake(w) \/ WorkerStart(w)
  \/ WorkerDrop(w) \/ WorkerDropDir(w)
  \/ WorkerCheck(w) \/ WorkerSemanticDone(w) \/ WorkerCommit(w)
  \/ WorkerUnlink(w) \/ WorkerRmdir(w) \/ WorkerSynced(w)

WorkerNext(w) ==
  \/ WorkerStep(w) \/ WorkerLock(w) \/ WorkerSync(w)
  \/ WorkerStartFails(w) \/ WorkerFails(w) \/ WorkerMarkFails(w)
  \/ WorkerCrash(w)

Next ==
  \/ \E h \in Hook : HookNext(h)
  \/ \E d \in Daemon : DaemonNext(d)
  \/ \E w \in Worker : WorkerNext(w)
  \/ \E c \in Capture : DeadlineElapses(c)
  \/ ToggleConfig

Spec == Init /\ [][Next]_vars

\* Processes that can run do run, clocks move, a waiter is not passed over
\* forever by flock, and some prompt restarts a dead daemon.  Nothing obliges
\* a hook to fire, a user to edit the configuration, or anything to fail.
Fairness ==
  /\ \A w \in Worker :
       /\ WF_vars(WorkerStep(w))
       /\ SF_vars(WorkerLock(w) \/ WorkerSync(w))
  /\ \A d \in Daemon :
       /\ WF_vars(DaemonStep(d))
       /\ SF_vars(\E w \in Worker : DaemonSpawn(d, w))
  /\ \A c \in Capture : WF_vars(DeadlineElapses(c))

FairSpec == Spec /\ Fairness

-----------------------------------------------------------------------------
(* Properties.                                                             *)

\* However many workers are spawned for one capture - by two hooks, by the
\* daemon's expired lease, after a crash - the store gets one commit of it.
CommittedOnce == IsInjective(history)

\* From the hook's rename to the end, an accepted capture is in the inbox with
\* its transcript, in the history, or was dropped by the user's opt-out: no
\* crash, failed attempt or racing removal loses it.
NoCaptureLost ==
  \A c \in accepted : entry[c] = "full" \/ Committed(c) \/ c \in discarded

\* The semantic pipeline, which rewrites the wiki and pays for model calls,
\* never runs for a capture that has its commit.
NoWorkAfterCommit ==
  \A w \in Worker : pc[w] \in {"semantic", "commit"} => ~Committed(job[w])

\* Every accepted capture is eventually committed, or dropped by opt-out.
EventuallySettled ==
  \A c \in Capture : c \in accepted ~> (Committed(c) \/ c \in discarded)

\* Seen through accepted, history and discarded, every step of the queue is a
\* step of DurableCapture or changes nothing.
Abstract == INSTANCE DurableCapture
ImplementsDurableCapture == Abstract!Spec
=============================================================================
