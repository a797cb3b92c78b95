--------------------------- MODULE StoreSync_proofs ---------------------------
(***************************************************************************)
(* Proofs about StoreSync, for any number of machines, captures and        *)
(* failures, with a command that does not push by force.  The invariant:   *)
(* what a machine fetched is still at the remote, because no step takes    *)
(* anything away from it (FetchedInv); between a merge and its validation  *)
(* the branch is what was fetched, and the tip to go back to has all the   *)
(* machine's own captures (ValidateInv).                                   *)
(***************************************************************************)
EXTENDS StoreSync, TLAPS

\* The remote-tracking branch is never ahead of the remote.
FetchedInv ==
  \A m \in Machine :
    fetched[m] /= NoRef => remote /= NoRef /\ fetched[m] \subseteq remote

\* A fast-forward can be undone without loss, and kept without a lie.
ValidateInv ==
  \A m \in Machine : pc[m] = "validate" =>
    /\ fetched[m] /= NoRef
    /\ branch[m] = fetched[m]
    /\ \A c \in Capture : author[c] = m => c \in localOid[m]

IInv ==
  /\ TypeOK
  /\ FetchedInv
  /\ ValidateInv
  /\ OwnCapturesKept
  /\ ReportedIsShared

\* What is at the remote stays there.
RemoteKept == remote /= NoRef => remote' /= NoRef /\ remote \subseteq remote'

\* What every step is shown to do.
Kept == IInv' /\ RemoteKept

-----------------------------------------------------------------------------
(* One lemma per part of the system.                                       *)

\* Attaching a store, committing and cleaning up.
LEMMA StoreSteps ==
  ASSUME IInv, UNCHANGED command, NEW m \in Machine,
         \/ Attach(m)
         \/ CaptureStops(m)
         \/ CleanUp(m)
         \/ PushMalformed
  PROVE  Kept
<1> USE SyncAssumption DEF IInv, Kept, Place, Outcome, Tip, Revision
<1>1. CASE Attach(m)
  <2> USE <1>1 DEF Attach, Has, storeVars, syncVars, reportVars
  <2>1. TypeOK'
    BY DEF TypeOK
  <2>2. RemoteKept
    BY DEF RemoteKept, TypeOK, FetchedInv
  <2>3. FetchedInv'
    BY <2>2 DEF RemoteKept, TypeOK, FetchedInv
  <2>4. ValidateInv'
    BY DEF TypeOK, FetchedInv, ValidateInv, OwnCapturesKept, Has
  <2>5. OwnCapturesKept'
    BY DEF TypeOK, FetchedInv, ValidateInv, OwnCapturesKept, Has
  <2>6. ReportedIsShared'
    BY <2>2 DEF RemoteKept, TypeOK, FetchedInv, ValidateInv,
                ReportedIsShared
  <2>7. QED
    BY <2>1, <2>2, <2>3, <2>4, <2>5, <2>6
<1>2. CASE CaptureStops(m)
  BY <1>2
     DEF CaptureStops, Failure, TypeOK, FetchedInv, ValidateInv,
         OwnCapturesKept, ReportedIsShared, RemoteKept, Has, storeVars,
         syncVars, reportVars
<1>3. CASE CleanUp(m)
  BY <1>3
     DEF CleanUp, TypeOK, FetchedInv, ValidateInv, OwnCapturesKept,
         ReportedIsShared, RemoteKept, Has, storeVars, syncVars,
         reportVars
<1>4. CASE PushMalformed
  BY <1>4
     DEF PushMalformed, TypeOK, FetchedInv, ValidateInv, OwnCapturesKept,
         ReportedIsShared, RemoteKept, Has, storeVars, syncVars,
         reportVars
<1>5. QED
  BY <1>1, <1>2, <1>3, <1>4

\* A capture is added to the branch of its author.
LEMMA CaptureStep ==
  ASSUME IInv, UNCHANGED command, NEW m \in Machine, NEW c \in Capture,
         CaptureCommit(m, c)
  PROVE  Kept
<1> USE SyncAssumption DEF IInv, Kept, Place, Outcome, Tip, Revision
<1> USE DEF CaptureCommit, Has, storeVars, syncVars, reportVars
<1>1. TypeOK'
  BY DEF TypeOK
<1>2. RemoteKept
  BY DEF RemoteKept, TypeOK, FetchedInv
<1>3. FetchedInv'
  BY <1>2 DEF RemoteKept, TypeOK, FetchedInv
<1>4. ValidateInv'
  BY DEF TypeOK, FetchedInv, ValidateInv, OwnCapturesKept, Has
<1>5. OwnCapturesKept'
  BY DEF TypeOK, FetchedInv, ValidateInv, OwnCapturesKept, Has
<1>6. ReportedIsShared'
  BY <1>2 DEF RemoteKept, TypeOK, FetchedInv, ValidateInv,
              ReportedIsShared
<1>7. QED
  BY <1>1, <1>2, <1>3, <1>4, <1>5, <1>6

\* The steps that wait, ask the remote, or give up.
LEMMA PollSteps ==
  ASSUME IInv, UNCHANGED command, NEW m \in Machine,
         \/ Poll(m)
         \/ PollUnclean(m)
         \/ TransportFails(m)
         \/ DivergencePends(m)
         \/ CommandFails(m)
         \/ Stop(m)
         \/ Fetch(m)
  PROVE  Kept
<1> USE SyncAssumption DEF Place, Outcome, Tip, Revision, Has
<1> USE DEF Kept, IInv, TypeOK, FetchedInv, ValidateInv, OwnCapturesKept,
        ReportedIsShared, RemoteKept, storeVars, syncVars, reportVars
<1>1. CASE Poll(m)
  BY <1>1 DEF Poll, Goto
<1>2. CASE PollUnclean(m)
  BY <1>2 DEF PollUnclean, Pend
<1>3. CASE TransportFails(m)
  BY <1>3 DEF TransportFails, Failure, Pend, End
<1>4. CASE DivergencePends(m)
  BY <1>4 DEF DivergencePends, Pend, End
<1>5. CASE CommandFails(m)
  BY <1>5 DEF CommandFails, Failure, Pend, End
<1>6. CASE Stop(m)
  BY <1>6 DEF Stop, Failure, End
<1>7. CASE Fetch(m)
  BY <1>7 DEF Fetch, Goto
<1>8. QED
  BY <1>1, <1>2, <1>3, <1>4, <1>5, <1>6, <1>7

\* The steps that move or confirm a branch.
LEMMA SyncSteps ==
  ASSUME IInv, UNCHANGED command, NEW m \in Machine,
         \/ UpToDate(m)
         \/ Push(m)
         \/ FastForward(m)
         \/ Validate(m)
         \/ Postconditions(m)
  PROVE  Kept
<1> USE SyncAssumption DEF IInv, Kept, Place, Outcome, Tip, Revision
<1>1. CASE UpToDate(m)
  BY <1>1
     DEF UpToDate, Succeed, End, TypeOK, FetchedInv, ValidateInv,
         OwnCapturesKept, ReportedIsShared, RemoteKept, Has, storeVars,
         syncVars, reportVars
<1>2. CASE Push(m)
  <2> USE <1>2 DEF Push, Ahead, Succeed, Pend, End, storeVars, syncVars,
             reportVars
  <2>1. TypeOK'
    BY DEF TypeOK
  <2>2. RemoteKept
    BY DEF RemoteKept, TypeOK, FetchedInv
  <2>3. FetchedInv'
    BY <2>2 DEF RemoteKept, TypeOK, FetchedInv
  <2>4. ValidateInv'
    BY DEF TypeOK, FetchedInv, ValidateInv, OwnCapturesKept, Has
  <2>5. OwnCapturesKept'
    BY DEF TypeOK, FetchedInv, ValidateInv, OwnCapturesKept, Has
  <2>6. ReportedIsShared'
    BY <2>2 DEF RemoteKept, TypeOK, FetchedInv, ValidateInv,
                ReportedIsShared
  <2>7. QED
    BY <2>1, <2>2, <2>3, <2>4, <2>5, <2>6
<1>3. CASE FastForward(m)
  <2> USE <1>3 DEF FastForward, Behind, storeVars, syncVars, reportVars
  <2>1. TypeOK'
    BY DEF TypeOK
  <2>2. RemoteKept
    BY DEF RemoteKept, TypeOK, FetchedInv
  <2>3. FetchedInv'
    BY <2>2 DEF RemoteKept, TypeOK, FetchedInv
  <2>4. ValidateInv'
    BY DEF TypeOK, FetchedInv, ValidateInv, OwnCapturesKept, Has
  <2>5. OwnCapturesKept'
    BY DEF TypeOK, FetchedInv, ValidateInv, OwnCapturesKept, Has
  <2>6. ReportedIsShared'
    BY <2>2 DEF RemoteKept, TypeOK, FetchedInv, ValidateInv,
                ReportedIsShared
  <2>7. QED
    BY <2>1, <2>2, <2>3, <2>4, <2>5, <2>6
<1>4. CASE Validate(m)
  <2> USE <1>4 DEF Validate, Succeed, Pend, End, storeVars, syncVars, reportVars
  <2>1. TypeOK'
    BY DEF TypeOK
  <2>2. RemoteKept
    BY DEF RemoteKept, TypeOK, FetchedInv
  <2>3. FetchedInv'
    BY <2>2 DEF RemoteKept, TypeOK, FetchedInv
  <2>4. ValidateInv'
    BY DEF TypeOK, FetchedInv, ValidateInv, OwnCapturesKept, Has
  <2>5. OwnCapturesKept'
    BY DEF TypeOK, FetchedInv, ValidateInv, OwnCapturesKept, Has
  <2>6. ReportedIsShared'
    BY <2>2 DEF RemoteKept, TypeOK, FetchedInv, ValidateInv,
                ReportedIsShared
  <2>7. QED
    BY <2>1, <2>2, <2>3, <2>4, <2>5, <2>6
<1>5. CASE Postconditions(m)
  <2> USE <1>5 DEF Postconditions, PostconditionsHold, Succeed, Pend, End,
             storeVars, syncVars, reportVars
  <2>1. TypeOK'
    BY DEF TypeOK
  <2>2. RemoteKept
    BY DEF RemoteKept, TypeOK, FetchedInv
  <2>3. FetchedInv'
    BY <2>2 DEF RemoteKept, TypeOK, FetchedInv
  <2>4. ValidateInv'
    BY DEF TypeOK, FetchedInv, ValidateInv, OwnCapturesKept, Has
  <2>5. OwnCapturesKept'
    BY DEF TypeOK, FetchedInv, ValidateInv, OwnCapturesKept, Has
  <2>6. ReportedIsShared'
    BY <2>2 DEF RemoteKept, TypeOK, FetchedInv, ValidateInv,
                ReportedIsShared
  <2>7. QED
    BY <2>1, <2>2, <2>3, <2>4, <2>5, <2>6
<1>6. QED
  BY <1>1, <1>2, <1>3, <1>4, <1>5

\* The reconciliation command.
LEMMA AgentSteps ==
  ASSUME IInv, UNCHANGED command, NEW m \in Machine,
         \/ AgentIntegrates(m)
         \/ AgentRefuses(m)
         \/ AgentStopsHalfway(m)
         \/ AgentLeavesMess(m)
  PROVE  Kept
<1> USE SyncAssumption DEF IInv, Kept, Place, Outcome, Tip, Revision
<1>1. CASE AgentIntegrates(m)
  <2> USE <1>1 DEF AgentIntegrates, Reconcile, Diverged, storeVars, syncVars,
             reportVars
  <2>1. TypeOK'
    <3>1. remote \in Tip /\ branch[m] \in Tip
      BY DEF TypeOK, FetchedInv
    <3>2. branch[m] \cup remote \in Tip
      BY <3>1
    <3>3. /\ branch' = [branch EXCEPT ![m] = branch[m] \cup remote]
          /\ branch'[m] = branch[m] \cup remote
      BY DEF TypeOK
    <3>4. QED
      BY <3>1, <3>2, <3>3 DEF TypeOK
  <2>2. RemoteKept
    BY DEF RemoteKept, TypeOK, FetchedInv
  <2>3. FetchedInv'
    BY <2>2 DEF RemoteKept, TypeOK, FetchedInv
  <2>4. ValidateInv'
    BY DEF TypeOK, FetchedInv, ValidateInv, OwnCapturesKept, Has
  <2>5. OwnCapturesKept'
    BY DEF TypeOK, FetchedInv, ValidateInv, OwnCapturesKept, Has
  <2>6. ReportedIsShared'
    BY <2>2 DEF RemoteKept, TypeOK, FetchedInv, ValidateInv,
                ReportedIsShared
  <2>7. QED
    BY <2>1, <2>2, <2>3, <2>4, <2>5, <2>6
<1>2. CASE AgentRefuses(m)
  BY <1>2
     DEF AgentRefuses, Reconcile, Diverged, TypeOK, FetchedInv,
         ValidateInv, OwnCapturesKept, ReportedIsShared, RemoteKept, Has,
         storeVars, syncVars, reportVars
<1>3. CASE AgentStopsHalfway(m)
  <2> USE <1>3 DEF AgentStopsHalfway, Reconcile, Diverged, Failure, storeVars,
             syncVars, reportVars
  <2>1. TypeOK'
    BY DEF TypeOK
  <2>2. RemoteKept
    BY DEF RemoteKept, TypeOK, FetchedInv
  <2>3. FetchedInv'
    BY <2>2 DEF RemoteKept, TypeOK, FetchedInv
  <2>4. ValidateInv'
    BY DEF TypeOK, FetchedInv, ValidateInv, OwnCapturesKept, Has
  <2>5. OwnCapturesKept'
    BY DEF TypeOK, FetchedInv, ValidateInv, OwnCapturesKept, Has
  <2>6. ReportedIsShared'
    BY <2>2 DEF RemoteKept, TypeOK, FetchedInv, ValidateInv,
                ReportedIsShared
  <2>7. QED
    BY <2>1, <2>2, <2>3, <2>4, <2>5, <2>6
<1>4. CASE AgentLeavesMess(m)
  BY <1>4
     DEF AgentLeavesMess, Reconcile, Diverged, Failure, TypeOK, FetchedInv,
         ValidateInv, OwnCapturesKept, ReportedIsShared, RemoteKept, Has,
         storeVars, syncVars, reportVars
<1>5. QED
  BY <1>1, <1>2, <1>3, <1>4

-----------------------------------------------------------------------------
(* Theorems.                                                               *)

\* The initial states satisfy the invariant.
LEMMA InitEstablishesInv == Init => IInv
BY SyncAssumption
   DEF Init, IInv, TypeOK, FetchedInv, ValidateInv, OwnCapturesKept,
       ReportedIsShared, Has, Place, Outcome, Tip, Revision

\* Every step keeps the invariant, and what is at the remote.
LEMMA NextKeepsInv == IInv /\ [Next]_vars => Kept
<1> SUFFICES ASSUME IInv, [Next]_vars
             PROVE  Kept
  OBVIOUS
<1>1. CASE UNCHANGED vars
  BY <1>1 DEF vars, storeVars, syncVars, reportVars, IInv, TypeOK, FetchedInv,
              ValidateInv, OwnCapturesKept, ReportedIsShared, Has, Kept,
              RemoteKept
<1>2. CASE Next
  <2>1. UNCHANGED command
    BY <1>2 DEF Next
  <2>2. ASSUME NEW m \in Machine,
               StoreStep(m) \/ Poll(m) \/ PollUnclean(m) \/ SyncStep(m)
                 \/ SyncFails(m)
        PROVE  Kept
    <3>1. CASE StoreStep(m)
      BY <2>1, <3>1, StoreSteps, CaptureStep DEF StoreStep
    <3>2. CASE Poll(m) \/ PollUnclean(m)
      BY <2>1, <3>2, PollSteps
    <3>3. CASE SyncStep(m)
      BY <2>1, <3>3, PollSteps, SyncSteps, AgentSteps DEF SyncStep
    <3>4. CASE SyncFails(m)
      BY <2>1, <3>4, PollSteps, AgentSteps DEF SyncFails
    <3>5. QED
      BY <2>2, <3>1, <3>2, <3>3, <3>4
  <2>3. CASE PushMalformed
    BY <2>1, <2>3, StoreSteps, SyncAssumption
  <2>4. QED
    BY <1>2, <2>2, <2>3 DEF Next
<1>3. QED
  BY <1>1, <1>2

\* The invariant holds in every reachable state.
THEOREM Invariance == Spec => []IInv
<1>1. Init => IInv
  BY InitEstablishesInv
<1>2. IInv /\ [Next]_vars => IInv'
  BY NextKeepsInv DEF Kept
<1>3. QED
  BY <1>1, <1>2, PTL DEF Spec

\* Every variable stays in its type: the branch of a machine exists while it
\* synchronizes.
THEOREM TypeCorrect == Spec => []TypeOK
BY Invariance, PTL DEF IInv

\* No fast-forward, rollback or reconciliation takes a capture from the branch
\* of the machine that made it.
THEOREM CapturesKept == Spec => []OwnCapturesKept
BY Invariance, PTL DEF IInv

\* What synchronize reports as published, pushed, up to date, fast-forwarded or
\* reconciled is at the remote.
THEOREM ReportsAreTrue == Spec => []ReportedIsShared
BY Invariance, PTL DEF IInv

\* The remote never loses a capture, however fetches and pushes interleave.
THEOREM RemoteOnlyGrows == Spec => RemoteGrows
<1>1. IInv /\ [Next]_vars =>
        [remote /= NoRef => remote' /= NoRef /\ remote \subseteq remote']_vars
  BY NextKeepsInv DEF Kept, RemoteKept
<1>2. QED
  BY <1>1, Invariance, PTL DEF Spec, RemoteGrows

-----------------------------------------------------------------------------
(* A checkout that is killed anywhere but between a merge and its          *)
(* validation is never left on a malformed revision.                       *)

\* Only a fast-forward that is still being validated can be on one.
ValidInv ==
  \A m \in Machine :
    /\ Has(branch[m], Bad) => pc[m] = "validate"
    /\ pc[m] = "validate" => Bad \notin localOid[m]

\* Every step keeps it: a checkout leaves the validation valid or rolled back.
LEMMA NextKeepsValid ==
  ASSUME "validate" \notin StopPoints
  PROVE  IInv /\ ValidInv /\ [Next]_vars => ValidInv'
<1> SUFFICES ASSUME IInv, ValidInv, [Next]_vars
             PROVE  ValidInv'
  OBVIOUS
<1> USE SyncAssumption DEF IInv, TypeOK, ValidInv, Has
<1>1. CASE UNCHANGED vars
  BY <1>1 DEF vars, storeVars, syncVars
<1>2. CASE PushMalformed
  BY <1>2 DEF PushMalformed, storeVars, syncVars
<1>3. ASSUME NEW m \in Machine, StoreStep(m)
      PROVE  ValidInv'
  <2>1. CASE Attach(m)
    BY <2>1 DEF Attach, syncVars
  <2>2. ASSUME NEW c \in Capture, CaptureCommit(m, c)
        PROVE  ValidInv'
    BY <2>2 DEF CaptureCommit, syncVars
  <2>3. CASE CaptureStops(m) \/ CleanUp(m)
    BY <2>3 DEF CaptureStops, CleanUp, syncVars
  <2>4. QED
    BY <1>3, <2>1, <2>2, <2>3 DEF StoreStep
<1>4. ASSUME NEW m \in Machine, Poll(m) \/ PollUnclean(m)
      PROVE  ValidInv'
  BY <1>4 DEF Poll, PollUnclean, Goto, storeVars, syncVars
<1>5. ASSUME NEW m \in Machine, SyncStep(m)
      PROVE  ValidInv'
  <2>1. CASE Fetch(m)
    BY <2>1 DEF Fetch, Goto, storeVars
  <2>2. CASE UpToDate(m) \/ Push(m) \/ DivergencePends(m)
    BY <2>2 DEF UpToDate, Push, DivergencePends, End, storeVars
  <2>3. CASE FastForward(m)
    BY <2>3 DEF FastForward, Behind
  <2>4. CASE Validate(m)
    BY <2>4 DEF Validate, End
  <2>5. CASE AgentIntegrates(m) \/ AgentRefuses(m)
    BY <2>5 DEF AgentIntegrates, AgentRefuses, Reconcile, storeVars
  <2>6. CASE Postconditions(m)
    BY <2>6 DEF Postconditions, End, storeVars
  <2>7. QED
    BY <1>5, <2>1, <2>2, <2>3, <2>4, <2>5, <2>6 DEF SyncStep
<1>6. ASSUME NEW m \in Machine, SyncFails(m)
      PROVE  ValidInv'
  <2>1. CASE TransportFails(m) \/ CommandFails(m)
    BY <2>1 DEF TransportFails, CommandFails, End, storeVars
  <2>2. CASE Stop(m)
    BY <2>2 DEF Stop, End, storeVars
  <2>3. CASE AgentStopsHalfway(m) \/ AgentLeavesMess(m)
    BY <2>3 DEF AgentStopsHalfway, AgentLeavesMess, Reconcile
  <2>4. QED
    BY <1>6, <2>1, <2>2, <2>3 DEF SyncFails
<1>7. QED
  BY <1>1, <1>2, <1>3, <1>4, <1>5, <1>6 DEF Next

\* Whatever is fetched, a machine whose validation is not killed is never left
\* with a branch that every later synchronization and capture refuses.
THEOREM CheckoutNeverStranded ==
  ASSUME "validate" \notin StopPoints
  PROVE  Spec => []NeverStranded
<1>1. Init => ValidInv
  <2> SUFFICES ASSUME Init, NEW m \in Machine
               PROVE  ~Has(branch[m], Bad) /\ pc[m] /= "validate"
    BY DEF ValidInv
  <2>1. branch[m] = NoRef \/ branch[m] = {}
    BY DEF Init
  <2>2. QED
    BY <2>1 DEF Init, Has
<1>2. IInv /\ ValidInv /\ [Next]_vars => ValidInv'
  BY NextKeepsValid
<1>3. ValidInv => NeverStranded
  BY DEF ValidInv, NeverStranded
<1>4. QED
  BY <1>1, <1>2, <1>3, Invariance, PTL DEF Spec
=============================================================================
