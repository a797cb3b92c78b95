------------------------------ MODULE StoreSync ------------------------------
(***************************************************************************)
(* Synchronization of one project store between machines through a git     *)
(* remote: synchronize_locked, step by step, on every machine at once.     *)
(* A branch stands for the captures in the history of its tip; {} is the   *)
(* root commit initialize_store makes, and one tip is an ancestor of       *)
(* another when its captures are among the other's.  Bad is a malformed    *)
(* revision: one that verify_immutable_objects refuses.                    *)
(*                                                                         *)
(* pc is the place of the machine's synchronization, which holds the store *)
(* lock: captures are committed while it is "idle".  The retry deadline    *)
(* is abstracted: a machine polls again at any time.  The reconciliation   *)
(* command is an agent working in the repository and at the remote; it is  *)
(* assumed to refuse a malformed revision and not to push by force.        *)
(***************************************************************************)
EXTENDS Naturals

CONSTANTS
  Machine,
  Capture,                \* captures, each committed on one machine
  Bad,                    \* a malformed revision
  NoRef,                  \* the value of a branch that does not exist
  Founder,                \* the machine where the store is initialized
  StopPoints,             \* where a synchronization may be killed
  MaxFailures             \* bound: git and network failures, kills, agent failures

Revision == Capture \cup {Bad}
Tip == SUBSET Revision
Place == {"idle", "fetch", "compare", "validate", "postcheck"}
Outcome == {"none", "upToDate", "published", "pushed", "fastForwarded",
            "reconciled", "pendingRemote", "pendingDivergence",
            "pendingReconciliation"}

ASSUME SyncAssumption ==
  /\ Bad \notin Capture
  /\ \A tip \in Tip : tip /= NoRef
  /\ NoRef \notin Machine
  /\ Founder \in Machine
  /\ StopPoints \subseteq Place \ {"idle"}
  /\ MaxFailures \in Nat

VARIABLES
  branch,                 \* of each machine: its store branch
  fetched,                \* its remote-tracking branch
  worktree,               \* "clean", "dirty" (untracked or changed files), or
                          \* "busy" with an unfinished rebase or merge
  pc,
  localOid, upstreamOid,  \* the two tips a fast-forward or reconciliation
                          \* started from
  record,                 \* the outcome in its sync.json
  remote,                 \* the branch at the remote
  author,                 \* auxiliary: the machine that made each capture, or
                          \* NoRef
  shared,                 \* auxiliary: the branch the last successful outcome
                          \* was recorded for
  command,                \* the machines with a reconciliation command
  failures                \* how much of the bound is used

storeVars  == <<branch, worktree>>
syncVars   == <<pc, localOid, upstreamOid>>
reportVars == <<record, shared>>
vars == <<storeVars, fetched, syncVars, reportVars, remote, author, command, failures>>

TypeOK ==
  /\ branch \in [Machine -> {NoRef} \cup Tip]
  /\ fetched \in [Machine -> {NoRef} \cup Tip]
  /\ worktree \in [Machine -> {"clean", "dirty", "busy"}]
  /\ pc \in [Machine -> Place]
  /\ localOid \in [Machine -> Tip]
  /\ upstreamOid \in [Machine -> Tip]
  /\ record \in [Machine -> Outcome]
  /\ remote \in {NoRef} \cup Tip
  /\ author \in [Capture -> Machine \cup {NoRef}]
  /\ shared \in [Machine -> Tip]
  /\ command \in SUBSET Machine
  /\ failures \in 0..MaxFailures
  /\ \A m \in Machine : pc[m] /= "idle" => branch[m] /= NoRef

Init ==
  /\ branch = [m \in Machine |-> IF m = Founder THEN {} ELSE NoRef]
  /\ fetched = [m \in Machine |-> NoRef]
  /\ worktree = [m \in Machine |-> "clean"]
  /\ pc = [m \in Machine |-> "idle"]
  /\ localOid = [m \in Machine |-> {}]
  /\ upstreamOid = [m \in Machine |-> {}]
  /\ record = [m \in Machine |-> "none"]
  /\ remote = NoRef
  /\ author = [c \in Capture |-> NoRef]
  /\ shared = [m \in Machine |-> {}]
  /\ command \in SUBSET Machine
  /\ failures = 0

\* tip exists and r is in its history.
Has(tip, r) == tip /= NoRef /\ r \in tip

Failure ==
  /\ failures < MaxFailures
  /\ failures' = failures + 1

\* The synchronization of m ends here; the kernel releases its lock.
End(m) ==
  /\ pc' = [pc EXCEPT ![m] = "idle"]
  /\ localOid' = [localOid EXCEPT ![m] = {}]
  /\ upstreamOid' = [upstreamOid EXCEPT ![m] = {}]

Goto(m, place) ==
  /\ pc' = [pc EXCEPT ![m] = place]
  /\ UNCHANGED <<localOid, upstreamOid>>

\* persist_outcome.
Succeed(m, outcome) ==
  /\ record' = [record EXCEPT ![m] = outcome]
  /\ shared' = [shared EXCEPT ![m] = branch'[m]]

Pend(m, outcome) ==
  /\ record' = [record EXCEPT ![m] = outcome]
  /\ UNCHANGED shared

-----------------------------------------------------------------------------
(* The store of a machine between synchronizations.                        *)

\* pc project attach: a clone of the remote that validates.
Attach(m) ==
  /\ branch[m] = NoRef
  /\ remote /= NoRef
  /\ ~Has(remote, Bad)
  /\ branch' = [branch EXCEPT ![m] = remote]
  /\ fetched' = [fetched EXCEPT ![m] = remote]
  /\ UNCHANGED <<worktree, syncVars, reportVars, remote, author, failures>>

\* A capture is committed (SnapshotStore); it may complete what an earlier
\* attempt left in the worktree.
CaptureCommit(m, c) ==
  /\ pc[m] = "idle"
  /\ branch[m] /= NoRef
  /\ Bad \notin branch[m]
  /\ worktree[m] /= "busy"
  /\ author[c] = NoRef
  /\ author' = [author EXCEPT ![c] = m]
  /\ branch' = [branch EXCEPT ![m] = @ \cup {c}]
  /\ \E w \in {"clean", worktree[m]} : worktree' = [worktree EXCEPT ![m] = w]
  /\ UNCHANGED <<fetched, syncVars, reportVars, remote, failures>>

\* A capture stops before its commit and leaves files behind.
CaptureStops(m) ==
  /\ pc[m] = "idle"
  /\ branch[m] /= NoRef
  /\ worktree[m] = "clean"
  /\ Failure
  /\ worktree' = [worktree EXCEPT ![m] = "dirty"]
  /\ UNCHANGED <<branch, fetched, syncVars, reportVars, remote, author>>

\* A retried capture, or the user, cleans up.
CleanUp(m) ==
  /\ pc[m] = "idle"
  /\ worktree[m] /= "clean"
  /\ worktree' = [worktree EXCEPT ![m] = "clean"]
  /\ UNCHANGED <<branch, fetched, syncVars, reportVars, remote, author, failures>>

\* Someone pushes a revision that does not validate.
PushMalformed ==
  /\ remote /= NoRef
  /\ Bad \notin remote
  /\ remote' = remote \cup {Bad}
  /\ UNCHANGED <<storeVars, fetched, syncVars, reportVars, author, failures>>

-----------------------------------------------------------------------------
(* synchronize_locked, up to the comparison.                               *)

\* How the local branch is related to what was fetched.
Ahead(m) ==
  fetched[m] /= NoRef => fetched[m] \subseteq branch[m] /\ fetched[m] /= branch[m]

Behind(m) ==
  /\ fetched[m] /= NoRef
  /\ branch[m] \subseteq fetched[m]
  /\ branch[m] /= fetched[m]

Diverged(m) ==
  /\ fetched[m] /= NoRef
  /\ ~(fetched[m] \subseteq branch[m])
  /\ ~(branch[m] \subseteq fetched[m])

\* An unfinished git operation or a dirty worktree is left alone.  (A branch or
\* an index that does not validate ends in an error: nothing is recorded.)
PollUnclean(m) ==
  /\ pc[m] = "idle"
  /\ branch[m] /= NoRef
  /\ worktree[m] = "busy" \/ (worktree[m] = "dirty" /\ Bad \notin branch[m])
  /\ Pend(m, "pendingReconciliation")
  /\ UNCHANGED <<storeVars, fetched, syncVars, remote, author, failures>>

\* Mutant: the daemon polls a project that has no store yet.
PollUnbound(m) ==
  /\ pc[m] = "idle"
  /\ worktree[m] = "clean"
  /\ ~Has(branch[m], Bad)
  /\ Goto(m, "fetch")
  /\ UNCHANGED <<storeVars, fetched, reportVars, remote, author, failures>>

Poll(m) ==
  /\ pc[m] = "idle"
  /\ branch[m] /= NoRef
  /\ worktree[m] = "clean"
  /\ Bad \notin branch[m]
  /\ Goto(m, "fetch")
  /\ UNCHANGED <<storeVars, fetched, reportVars, remote, author, failures>>

Fetch(m) ==
  /\ pc[m] = "fetch"
  /\ fetched' = [fetched EXCEPT ![m] = remote]
  /\ Goto(m, "compare")
  /\ UNCHANGED <<storeVars, reportVars, remote, author, failures>>

\* The fetch or the push does not reach the remote.
TransportFails(m) ==
  /\ pc[m] = "fetch" \/ (pc[m] = "compare" /\ Ahead(m))
  /\ Failure
  /\ Pend(m, "pendingRemote")
  /\ End(m)
  /\ UNCHANGED <<storeVars, fetched, remote, author>>

-----------------------------------------------------------------------------
(* The four ways to go on, by how the two tips are related.                *)

\* Mutant: a fetched branch that is not ahead is taken for one that is equal.
UpToDateOrBehind(m) ==
  /\ pc[m] = "compare"
  /\ fetched[m] /= NoRef
  /\ fetched[m] \subseteq branch[m]
  /\ UNCHANGED <<storeVars, fetched, remote, author, failures>>
  /\ Succeed(m, "upToDate")
  /\ End(m)

UpToDate(m) ==
  /\ pc[m] = "compare"
  /\ fetched[m] = branch[m]
  /\ UNCHANGED <<storeVars, fetched, remote, author, failures>>
  /\ Succeed(m, "upToDate")
  /\ End(m)

\* Mutant: git push --force.
PushForced(m) ==
  /\ pc[m] = "compare"
  /\ Ahead(m)
  /\ remote' = branch[m]
  /\ fetched' = [fetched EXCEPT ![m] = branch[m]]
  /\ UNCHANGED <<storeVars, author, failures>>
  /\ Succeed(m, IF fetched[m] = NoRef THEN "published" ELSE "pushed")
  /\ End(m)

\* The local branch is ahead, or the remote has none.  git accepts a push only
\* if the remote's branch, as it is by now, is an ancestor of what is pushed.
Push(m) ==
  /\ pc[m] = "compare"
  /\ Ahead(m)
  /\ UNCHANGED <<storeVars, author, failures>>
  /\ IF remote /= NoRef => remote \subseteq branch[m]
     THEN /\ remote' = branch[m]
          /\ fetched' = [fetched EXCEPT ![m] = branch[m]]
          /\ Succeed(m, IF fetched[m] = NoRef THEN "published" ELSE "pushed")
     ELSE /\ UNCHANGED <<remote, fetched>>
          /\ Pend(m, "pendingDivergence")
  /\ End(m)

\* Mutant: git reset --hard instead of git merge --ff-only, also when diverged.
TakeUpstream(m) ==
  /\ pc[m] = "compare"
  /\ Behind(m) \/ Diverged(m)
  /\ localOid' = [localOid EXCEPT ![m] = branch[m]]
  /\ upstreamOid' = [upstreamOid EXCEPT ![m] = fetched[m]]
  /\ branch' = [branch EXCEPT ![m] = fetched[m]]
  /\ pc' = [pc EXCEPT ![m] = "validate"]
  /\ UNCHANGED <<worktree, fetched, reportVars, remote, author, failures>>

\* The remote is ahead: git merge --ff-only.
FastForward(m) ==
  /\ pc[m] = "compare"
  /\ Behind(m)
  /\ localOid' = [localOid EXCEPT ![m] = branch[m]]
  /\ upstreamOid' = [upstreamOid EXCEPT ![m] = fetched[m]]
  /\ branch' = [branch EXCEPT ![m] = fetched[m]]
  /\ pc' = [pc EXCEPT ![m] = "validate"]
  /\ UNCHANGED <<worktree, fetched, reportVars, remote, author, failures>>

\* Mutant: a fast-forward that does not validate is only reported.
ValidateWithoutRollback(m) ==
  /\ pc[m] = "validate"
  /\ UNCHANGED <<storeVars, fetched, remote, author, failures>>
  /\ IF Bad \notin branch[m]
     THEN Succeed(m, "fastForwarded")
     ELSE Pend(m, "pendingReconciliation")
  /\ End(m)

\* What came over the network is verified, and left again by git reset --hard
\* when it does not validate.
Validate(m) ==
  /\ pc[m] = "validate"
  /\ UNCHANGED <<worktree, fetched, remote, author, failures>>
  /\ IF Bad \notin branch[m]
     THEN /\ UNCHANGED branch
          /\ Succeed(m, "fastForwarded")
     ELSE /\ branch' = [branch EXCEPT ![m] = localOid[m]]
          /\ Pend(m, "pendingReconciliation")
  /\ End(m)

-----------------------------------------------------------------------------
(* Diverged branches: the reconciliation command.                          *)

\* No command is configured.
DivergencePends(m) ==
  /\ pc[m] = "compare"
  /\ Diverged(m)
  /\ m \notin command
  /\ Pend(m, "pendingDivergence")
  /\ End(m)
  /\ UNCHANGED <<storeVars, fetched, remote, author, failures>>

\* run_reconciliation_locked records the two tips and runs the command.
Reconcile(m) ==
  /\ pc[m] = "compare"
  /\ Diverged(m)
  /\ m \in command
  /\ localOid' = [localOid EXCEPT ![m] = branch[m]]
  /\ upstreamOid' = [upstreamOid EXCEPT ![m] = fetched[m]]
  /\ pc' = [pc EXCEPT ![m] = "postcheck"]
  /\ UNCHANGED <<reportVars, author>>

\* The command does as it was asked: the remote, as it is by now, and the local
\* branch become one.
AgentIntegrates(m) ==
  /\ Reconcile(m)
  /\ Bad \notin remote
  /\ branch' = [branch EXCEPT ![m] = @ \cup remote]
  /\ remote' = branch'[m]
  /\ fetched' = [fetched EXCEPT ![m] = branch'[m]]
  /\ UNCHANGED <<worktree, failures>>

\* It sees a malformed revision and leaves everything as it is.
AgentRefuses(m) ==
  /\ Reconcile(m)
  /\ Bad \in remote
  /\ UNCHANGED <<storeVars, remote, fetched, failures>>

\* It integrates what was fetched and does not get to push it.
AgentStopsHalfway(m) ==
  /\ Reconcile(m)
  /\ Bad \notin fetched[m]
  /\ Failure
  /\ branch' = [branch EXCEPT ![m] = @ \cup fetched[m]]
  /\ UNCHANGED <<worktree, remote, fetched>>

\* It gives up, or runs out of time in the middle of a rebase.
AgentLeavesMess(m) ==
  /\ Reconcile(m)
  /\ Failure
  /\ \E w \in {"dirty", "busy"} : worktree' = [worktree EXCEPT ![m] = w]
  /\ UNCHANGED <<branch, remote, fetched>>

\* Mutant: the tips are compared without another fetch, and the local branch
\* with what the agent left of itself.
PostconditionsHoldLocally(m) ==
  /\ worktree[m] = "clean"
  /\ localOid[m] \subseteq branch[m]
  /\ Bad \notin branch[m]

\* The postconditions, after another fetch: a clean worktree, equal tips, every
\* immutable file of the old local branch, and a history that validates.
PostconditionsHold(m) ==
  /\ worktree[m] = "clean"
  /\ branch[m] = remote
  /\ localOid[m] \subseteq branch[m]
  /\ Bad \notin branch[m]

Postconditions(m) ==
  /\ pc[m] = "postcheck"
  /\ fetched' = [fetched EXCEPT ![m] = remote]
  /\ UNCHANGED <<storeVars, remote, author, failures>>
  /\ IF PostconditionsHold(m)
     THEN Succeed(m, "reconciled")
     ELSE Pend(m, "pendingReconciliation")
  /\ End(m)

\* The command exits with an error or is out of time, or the fetch after it fails.
CommandFails(m) ==
  /\ pc[m] = "postcheck"
  /\ Failure
  /\ Pend(m, "pendingReconciliation")
  /\ End(m)
  /\ UNCHANGED <<storeVars, fetched, remote, author>>

\* The process is killed, or git fails in it: nothing is undone or recorded.
Stop(m) ==
  /\ pc[m] \in StopPoints
  /\ Failure
  /\ End(m)
  /\ UNCHANGED <<storeVars, fetched, reportVars, remote, author>>

-----------------------------------------------------------------------------
\* What a synchronization does, by itself or with a command that works.
SyncStep(m) ==
  \/ Fetch(m)
  \/ UpToDate(m) \/ Push(m)
  \/ FastForward(m) \/ Validate(m)
  \/ DivergencePends(m) \/ AgentIntegrates(m) \/ AgentRefuses(m)
  \/ Postconditions(m)

SyncFails(m) ==
  \/ TransportFails(m)
  \/ AgentStopsHalfway(m) \/ AgentLeavesMess(m) \/ CommandFails(m)
  \/ Stop(m)

StoreStep(m) ==
  \/ Attach(m)
  \/ \E c \in Capture : CaptureCommit(m, c)
  \/ CaptureStops(m)
  \/ CleanUp(m)

Next ==
  /\ \/ \E m \in Machine :
          StoreStep(m) \/ Poll(m) \/ PollUnclean(m) \/ SyncStep(m) \/ SyncFails(m)
     \/ PushMalformed
  /\ UNCHANGED command

Spec == Init /\ [][Next]_vars

\* The daemon of every machine polls, and a synchronization goes on.
Fairness ==
  \A m \in Machine : WF_vars((Poll(m) \/ SyncStep(m)) /\ UNCHANGED command)

FairSpec == Spec /\ Fairness

-----------------------------------------------------------------------------
(* Properties.                                                             *)

\* What has reached the remote stays there, however the fetches and pushes of
\* the machines interleave.
RemoteGrows ==
  [][remote /= NoRef => remote' /= NoRef /\ remote \subseteq remote']_vars

\* A capture stays on the branch of the machine that made it, through every
\* fast-forward, rollback and reconciliation.
OwnCapturesKept ==
  \A c \in Capture : author[c] /= NoRef => Has(branch[author[c]], c)

\* What an outcome reported as shared is at the remote.
ReportedIsShared ==
  \A m \in Machine : shared[m] /= {} => remote /= NoRef /\ shared[m] \subseteq remote

\* Between synchronizations the checkout of a machine validates, whatever is
\* fetched: the comment on the rollback in synchronize_locked.
NeverStranded ==
  \A m \in Machine :
    pc[m] = "idle" => ~Has(branch[m], Bad)

\* As long as nobody pushes a malformed revision and no checkout stays unclean
\* for good, what is on a machine with a reconciliation command reaches the
\* remote, and what is at the remote reaches every such machine, whatever the
\* others do meanwhile and however often the branches diverge.
EventuallyExchanged ==
  []~Has(remote, Bad)
    /\ (\A m \in Machine : []<>(worktree[m] = "clean")) =>
    \A c \in Capture, m \in Machine :
      /\ (m \in command /\ Has(branch[m], c)) ~> Has(remote, c)
      /\ (m \in command /\ branch[m] /= NoRef /\ Has(remote, c)) ~> Has(branch[m], c)
=============================================================================
