------------------------- MODULE CaptureQueue_proofs -------------------------
(***************************************************************************)
(* Proofs about CaptureQueue, for any number of captures, workers, hook    *)
(* invocations, failures and crashes.  The argument is one inductive       *)
(* invariant: a worker past the lock holds it (LockInv), everything a      *)
(* process works on was accepted (AcceptedInv), and what a worker knows    *)
(* about the history when it enters a stage stays true in it, because only *)
(* the lock holder appends to the history (CommitInv).                     *)
(***************************************************************************)
EXTENDS CaptureQueue, SequenceTheorems, TLAPS

\* The flock and the places of its holders agree, so there is one holder.
LockInv ==
  /\ \A w \in Worker : pc[w] \in Critical <=> storeLock = w
  /\ \A d \in Daemon : daemonPc[d] = "sync" <=> storeLock = d

\* No process works on a capture that no hook accepted.
AcceptedInv ==
  /\ \A c \in Capture : entry[c] /= "absent" => c \in accepted
  /\ \A w \in Worker : pc[w] /= "idle" => job[w] \in accepted
  /\ \A h \in Hook :
       hookPc[h] \in {"placed", "scheduled"} => hookJob[h] \in accepted
  /\ \A d \in Daemon :
       /\ dueList[d] \subseteq accepted
       /\ daemonPc[d] = "spawn" => leased[d] \in accepted
  /\ discarded \subseteq accepted
  /\ ToSet(history) \subseteq accepted

\* What a worker found out about the history before a stage holds during it.
CommitInv ==
  /\ NoWorkAfterCommit
  /\ \A w \in Worker : pc[w] \in {"unlink", "rmdir"} => Committed(job[w])

IInv ==
  /\ TypeOK
  /\ LockInv
  /\ AcceptedInv
  /\ CommitInv
  /\ CommittedOnce
  /\ NoCaptureLost

-----------------------------------------------------------------------------
(* The invariant holds initially and is preserved by every action.         *)

\* The initial state satisfies the invariant.
LEMMA InitInv == Init => IInv
<1> SUFFICES ASSUME Init PROVE IInv
  OBVIOUS
<1> USE QueueAssumption DEF Init
<1>1. TypeOK
  BY EmptySeq DEF TypeOK, WorkerPc, DaemonPc
<1>2. LockInv
  BY DEF LockInv, Critical
<1>3. ToSet(history) = {}
  BY DEF ToSet
<1>4. AcceptedInv /\ CommitInv /\ NoCaptureLost
  BY <1>3 DEF AcceptedInv, CommitInv, NoWorkAfterCommit, NoCaptureLost
<1>5. CommittedOnce
  BY DEF CommittedOnce, IsInjective
<1>6. QED
  BY <1>1, <1>2, <1>4, <1>5 DEF IInv

\* A hook invocation preserves the invariant.
LEMMA HookStep ==
  ASSUME IInv, NEW h \in Hook, HookNext(h)
  PROVE  IInv'
<1> USE QueueAssumption DEF IInv, TypeOK, WorkerPc, DaemonPc, Critical, LockInv,
        AcceptedInv, CommitInv, NoWorkAfterCommit, CommittedOnce, NoCaptureLost,
        Committed, vars, inboxVars, workerVars, hookVars, daemonVars, configVars,
        auxVars
<1>1. ASSUME NEW c \in Capture, HookPlace(h, c) PROVE IInv'
  BY <1>1 DEF HookPlace
<1>2. ASSUME HookSchedule(h) PROVE IInv'
  BY <1>2 DEF HookSchedule, WriteSchedule
<1>3. ASSUME NEW w \in Worker, HookSpawn(h, w) PROVE IInv'
  BY <1>3 DEF HookSpawn, StartWorker, EnsureDaemon, StartDaemon
<1>4. ASSUME HookSpawnFails(h) PROVE IInv'
  BY <1>4 DEF HookSpawnFails, Failure, WriteSchedule, EnsureDaemon, StartDaemon
<1>5. ASSUME HookCrash(h) PROVE IInv'
  BY <1>5 DEF HookCrash, Crash
<1>6. QED
  BY <1>1, <1>2, <1>3, <1>4, <1>5 DEF HookNext

\* A daemon preserves it.
LEMMA DaemonKeepsInv ==
  ASSUME IInv, NEW d \in Daemon, DaemonNext(d)
  PROVE  IInv'
<1> USE QueueAssumption DEF IInv, TypeOK, WorkerPc, DaemonPc, Critical, LockInv,
        AcceptedInv, CommitInv, NoWorkAfterCommit, CommittedOnce, NoCaptureLost,
        Committed, vars, inboxVars, workerVars, hookVars, daemonVars, configVars,
        auxVars
<1>1. ASSUME DaemonStart(d) PROVE IInv'
  BY <1>1 DEF DaemonStart, StartDaemon
<1>2. ASSUME DaemonScan(d) PROVE IInv'
  BY <1>2 DEF DaemonScan, DaemonGoto, DueCaptures
<1>3. ASSUME NEW c \in Capture, DaemonLease(d, c) PROVE IInv'
  BY <1>3 DEF DaemonLease, DaemonGoto, WriteSchedule
<1>4. ASSUME NEW w \in Worker, DaemonSpawn(d, w) PROVE IInv'
  BY <1>4 DEF DaemonSpawn, DaemonGoto, StartWorker, AfterSpawn
<1>5. ASSUME DaemonSpawnFails(d) PROVE IInv'
  BY <1>5 DEF DaemonSpawnFails, DaemonGoto, Failure, WriteSchedule, AfterSpawn
<1>6. ASSUME DaemonSkipSync(d) PROVE IInv'
  BY <1>6 DEF DaemonSkipSync, DaemonGoto
<1>7. ASSUME DaemonSync(d) PROVE IInv'
  BY <1>7 DEF DaemonSync, DaemonGoto
<1>8. ASSUME DaemonSynced(d) PROVE IInv'
  BY <1>8 DEF DaemonSynced, DaemonGoto
<1>9. ASSUME DaemonCrash(d) PROVE IInv'
  BY <1>9 DEF DaemonCrash, DaemonGoto, Crash
<1>10. ASSUME DaemonLeaseFails(d) PROVE IInv'
  BY <1>10 DEF DaemonLeaseFails, DaemonGoto, Failure
<1>11. QED
  BY <1>1, <1>2, <1>3, <1>4, <1>5, <1>6, <1>7, <1>8, <1>9, <1>10
     DEF DaemonNext, DaemonStep

\* The commit is the step that needs the lock: no other worker has been told
\* that the capture is uncommitted.
LEMMA CommitStep ==
  ASSUME IInv, NEW w \in Worker, WorkerCommit(w)
  PROVE  IInv'
<1>1. PICK c \in Capture : c = job[w]
  BY DEF WorkerCommit, IInv, TypeOK
<1>2. history' = Append(history, c) /\ history \in Seq(Capture)
  BY <1>1 DEF WorkerCommit, IInv, TypeOK
<1>3. ToSet(history') = ToSet(history) \cup {c} /\ history' \in Seq(Capture)
  <2>1. /\ Len(history) \in Nat /\ DOMAIN history = 1..Len(history)
        /\ history' \in Seq(Capture) /\ DOMAIN history' = 1..(Len(history) + 1)
        /\ history'[Len(history) + 1] = c
        /\ \A i \in 1..Len(history) : history'[i] = history[i]
    BY <1>2, LenProperties, AppendProperties
  <2>2. 1..(Len(history) + 1) = (1..Len(history)) \cup {Len(history) + 1}
    BY <2>1
  <2>3. QED
    BY <2>1, <2>2 DEF ToSet
<1>4. c \notin ToSet(history) /\ c \in accepted
  BY <1>1 DEF WorkerCommit, IInv, CommitInv, NoWorkAfterCommit, Committed,
              AcceptedInv
<1>5. TypeOK'
  BY <1>3, QueueAssumption
     DEF WorkerCommit, Goto, IInv, TypeOK, WorkerPc, DaemonPc, Critical, inboxVars,
         hookVars, daemonVars, configVars, auxVars
<1>6. LockInv'
  BY DEF WorkerCommit, Goto, IInv, TypeOK, LockInv, Critical, daemonVars
<1>7. AcceptedInv'
  BY <1>3, <1>4
     DEF WorkerCommit, Goto, IInv, TypeOK, AcceptedInv, inboxVars, hookVars,
         daemonVars, auxVars
<1>8. CommitInv'
  <2>1. \A v \in Worker : v /= w => pc'[v] \notin Critical
    BY DEF WorkerCommit, Goto, IInv, TypeOK, LockInv, Critical
  <2>2. pc'[w] = "unlink" /\ job' = job
    BY DEF WorkerCommit, Goto, IInv, TypeOK
  <2>3. QED
    BY <1>1, <1>3, <2>1, <2>2
       DEF CommitInv, NoWorkAfterCommit, Committed, Critical
<1>9. CommittedOnce'
  <2>1. /\ Len(history) \in Nat /\ DOMAIN history = 1..Len(history)
        /\ DOMAIN history' = 1..(Len(history) + 1)
        /\ history'[Len(history) + 1] = c
        /\ \A i \in 1..Len(history) : history'[i] = history[i] /\ history[i] /= c
    BY <1>2, <1>4, LenProperties, AppendProperties DEF ToSet
  <2>2. QED
    BY <2>1 DEF IInv, CommittedOnce, IsInjective
<1>10. NoCaptureLost'
  BY <1>3 DEF WorkerCommit, IInv, NoCaptureLost, Committed, inboxVars, auxVars
<1>11. QED
  BY <1>5, <1>6, <1>7, <1>8, <1>9, <1>10 DEF IInv

\* A worker preserves it.
LEMMA WorkerKeepsInv ==
  ASSUME IInv, NEW w \in Worker, WorkerNext(w)
  PROVE  IInv'
<1> USE QueueAssumption DEF IInv, TypeOK, WorkerPc, DaemonPc, Critical, LockInv,
        AcceptedInv, CommitInv, NoWorkAfterCommit, CommittedOnce, NoCaptureLost,
        Committed, vars, inboxVars, workerVars, hookVars, daemonVars, configVars,
        auxVars
<1>1. ASSUME WorkerLoad(w) PROVE IInv'
  <2>1. CASE Exit(w)
    BY <1>1, <2>1 DEF WorkerLoad, Exit
  <2>2. CASE \E place \in {"debounce", "start"} : Goto(w, place)
    BY <1>1, <2>2 DEF WorkerLoad, Goto
  <2>3. QED
    BY <1>1, <2>1, <2>2 DEF WorkerLoad
<1>2. ASSUME WorkerWake(w) PROVE IInv'
  BY <1>2 DEF WorkerWake, Goto
<1>3. ASSUME WorkerStart(w) PROVE IInv'
  BY <1>3 DEF WorkerStart, Goto, Exit
<1>4. ASSUME WorkerStartFails(w) PROVE IInv'
  BY <1>4 DEF WorkerStartFails, Failure, WriteSchedule, Exit
<1>5. ASSUME WorkerDrop(w) PROVE IInv'
  BY <1>5 DEF WorkerDrop, UnlinkFiles, Goto
<1>6. ASSUME WorkerDropDir(w) PROVE IInv'
  BY <1>6 DEF WorkerDropDir, RemoveDir, Exit
<1>7. ASSUME WorkerLock(w) PROVE IInv'
  BY <1>7 DEF WorkerLock, Goto
<1>8. ASSUME WorkerCheck(w) PROVE IInv'
  BY <1>8 DEF WorkerCheck, Goto
<1>9. ASSUME WorkerSemanticDone(w) PROVE IInv'
  BY <1>9 DEF WorkerSemanticDone, Goto
<1>10. ASSUME WorkerFails(w) PROVE IInv'
  BY <1>10 DEF WorkerFails, Failure, WriteSchedule, Exit
<1>11. ASSUME WorkerCommit(w) PROVE IInv'
  BY <1>11, CommitStep
<1>12. ASSUME WorkerMarkFails(w) PROVE IInv'
  BY <1>12 DEF WorkerMarkFails, Failure, Exit, Goto
<1>13. ASSUME WorkerUnlink(w) PROVE IInv'
  BY <1>13 DEF WorkerUnlink, UnlinkFiles, Goto
<1>14. ASSUME WorkerRmdir(w) PROVE IInv'
  BY <1>14 DEF WorkerRmdir, RemoveDir, Exit, Goto
<1>15. ASSUME WorkerSync(w) PROVE IInv'
  BY <1>15 DEF WorkerSync, Goto
<1>16. ASSUME WorkerSynced(w) PROVE IInv'
  BY <1>16 DEF WorkerSynced, Exit
<1>17. ASSUME WorkerCrash(w) PROVE IInv'
  BY <1>17 DEF WorkerCrash, Crash, Exit
<1>18. QED
  BY <1>1, <1>2, <1>3, <1>4, <1>5, <1>6, <1>7, <1>8, <1>9, <1>10, <1>11,
     <1>12, <1>13, <1>14, <1>15, <1>16, <1>17 DEF WorkerNext, WorkerStep

\* So do the clock and the user.
LEMMA EnvironmentStep ==
  ASSUME IInv, ToggleConfig \/ \E c \in Capture : DeadlineElapses(c)
  PROVE  IInv'
<1> USE QueueAssumption DEF IInv, TypeOK, WorkerPc, DaemonPc, Critical, LockInv,
        AcceptedInv, CommitInv, NoWorkAfterCommit, CommittedOnce, NoCaptureLost,
        Committed, vars, inboxVars, workerVars, hookVars, daemonVars, configVars,
        auxVars
<1>1. ASSUME ToggleConfig PROVE IInv'
  BY <1>1 DEF ToggleConfig
<1>2. ASSUME NEW c \in Capture, DeadlineElapses(c) PROVE IInv'
  BY <1>2 DEF DeadlineElapses
<1>3. QED
  BY <1>1, <1>2

\* And a step that changes nothing.
LEMMA StutterStep ==
  ASSUME IInv, UNCHANGED vars
  PROVE  IInv'
<1> USE QueueAssumption DEF IInv, TypeOK, WorkerPc, DaemonPc, Critical, LockInv,
        AcceptedInv, CommitInv, NoWorkAfterCommit, CommittedOnce, NoCaptureLost,
        Committed, vars, inboxVars, workerVars, hookVars, daemonVars, configVars,
        auxVars
<1>1. QED
  OBVIOUS

\* IInv is an invariant of the specification.
THEOREM Invariance == Spec => []IInv
<1>1. IInv /\ [Next]_vars => IInv'
  BY HookStep, DaemonKeepsInv, WorkerKeepsInv, EnvironmentStep, StutterStep DEF Next
<1>2. QED
  BY InitInv, <1>1, PTL DEF Spec

-----------------------------------------------------------------------------
(* The results.                                                            *)

\* Every variable keeps its type, and a worker has a capture exactly while it
\* is not idle.
THEOREM TypeCorrect == Spec => []TypeOK
<1>1. IInv => TypeOK
  BY DEF IInv
<1>2. QED
  BY Invariance, <1>1, PTL

\* However many workers, hooks and daemon leases race for a capture, the
\* project store gets at most one commit of it.
THEOREM AtMostOneCommit == Spec => []CommittedOnce
<1>1. IInv => CommittedOnce
  BY DEF IInv
<1>2. QED
  BY Invariance, <1>1, PTL

\* An accepted capture stays in the inbox until it is committed or the user
\* opts out, whatever fails or is killed.
THEOREM NothingLost == Spec => []NoCaptureLost
<1>1. IInv => NoCaptureLost
  BY DEF IInv
<1>2. QED
  BY Invariance, <1>1, PTL

\* No worker runs the semantic pipeline for a capture that is committed.
THEOREM NoRework == Spec => []NoWorkAfterCommit
<1>1. IInv => NoWorkAfterCommit
  BY DEF IInv, CommitInv
<1>2. QED
  BY Invariance, <1>1, PTL

-----------------------------------------------------------------------------
(* The queue implements DurableCapture.                                    *)

\* The initial state is one of DurableCapture.
LEMMA AbstractInit == Init => Abstract!Init
BY DEF Init, Abstract!Init

\* Three actions are steps of DurableCapture, the others change nothing of it.
LEMMA AbstractStep ==
  ASSUME IInv, [Next]_vars
  PROVE  [Abstract!Next]_(Abstract!vars)
<1> USE DEF Abstract!vars, auxVars
<1>1. ASSUME NEW h \in Hook, NEW c \in Capture, HookPlace(h, c)
      PROVE  Abstract!Accept(c) \/ UNCHANGED Abstract!vars
  BY <1>1 DEF HookPlace, Abstract!Accept
<1>2. ASSUME NEW w \in Worker, WorkerDrop(w)
      PROVE  [Abstract!Next]_(Abstract!vars)
  <2>1. job[w] \in Capture /\ job[w] \in accepted
    BY <1>2 DEF WorkerDrop, IInv, TypeOK, AcceptedInv
  <2>2. Abstract!Discard(job[w]) \/ UNCHANGED Abstract!vars
    BY <1>2, <2>1
       DEF WorkerDrop, Committed, Abstract!Discard, ToSet, Abstract!ToSet
  <2>3. QED
    BY <2>1, <2>2 DEF Abstract!Next
<1>3. ASSUME NEW w \in Worker, WorkerCommit(w)
      PROVE  [Abstract!Next]_(Abstract!vars)
  <2>1. job[w] \in Capture /\ job[w] \in accepted /\ ~Committed(job[w])
    BY <1>3 DEF WorkerCommit, IInv, TypeOK, AcceptedInv, CommitInv,
                NoWorkAfterCommit
  <2>2. Abstract!Commit(job[w])
    BY <1>3, <2>1
       DEF WorkerCommit, Committed, Abstract!Commit, ToSet, Abstract!ToSet
  <2>3. QED
    BY <2>1, <2>2 DEF Abstract!Next
<1>4. ASSUME NEW h \in Hook, HookNext(h)
      PROVE  [Abstract!Next]_(Abstract!vars)
  BY <1>1, <1>4 DEF HookNext, Abstract!Next, HookSchedule, HookSpawn,
     HookSpawnFails, HookCrash
<1>5. ASSUME NEW d \in Daemon, DaemonNext(d)
      PROVE  UNCHANGED Abstract!vars
  BY <1>5 DEF DaemonNext, DaemonStep, DaemonStart, DaemonScan, DaemonLease, DaemonSpawn,
     DaemonLeaseFails, DaemonSpawnFails, DaemonSkipSync, DaemonSync, DaemonSynced, DaemonCrash
<1>6. ASSUME NEW w \in Worker, WorkerNext(w)
      PROVE  [Abstract!Next]_(Abstract!vars)
  BY <1>2, <1>3, <1>6 DEF WorkerNext, WorkerStep, Abstract!Next, WorkerLoad,
     WorkerWake, WorkerStart, WorkerStartFails, WorkerDropDir, WorkerLock,
     WorkerCheck, WorkerSemanticDone, WorkerFails, WorkerMarkFails,
     WorkerUnlink, WorkerRmdir, WorkerSync, WorkerSynced, WorkerCrash
<1>7. ASSUME \/ ToggleConfig
             \/ \E c \in Capture : DeadlineElapses(c)
             \/ UNCHANGED vars
      PROVE  UNCHANGED Abstract!vars
  BY <1>7 DEF ToggleConfig, DeadlineElapses, vars
<1>8. QED
  BY <1>4, <1>5, <1>6, <1>7 DEF Next

\* Whatever the processes of the queue do, its accepted, committed and dropped
\* captures behave as DurableCapture allows.
THEOREM QueueImplementsDurableCapture == Spec => ImplementsDurableCapture
<1>1. IInv /\ [Next]_vars => [Abstract!Next]_(Abstract!vars)
  BY AbstractStep
<1>2. QED
  BY AbstractInit, Invariance, <1>1, PTL
     DEF Spec, ImplementsDurableCapture, Abstract!Spec
=============================================================================
