-------------------------- MODULE StoreBinding_proofs --------------------------
(***************************************************************************)
(* Proofs about StoreBinding, for any actors, subjects, directories,       *)
(* operations and kills.  As long as nobody binds it explicitly, a         *)
(* subject's keys are the allocator's alone (KeysInv); a directory is made *)
(* once, for one subject (MadeInv); and who makes one has found that its   *)
(* subject has none (OnceInv).                                             *)
(***************************************************************************)
EXTENDS StoreBinding, TLAPS, FiniteSetTheorems

\* An actor at a place has what it needs there: a subject; the allocation lock;
\* a directory of its own, as far as it has filled it; a store to bind.
ActorInv ==
  \A a \in Actor :
    /\ step[a] /= "rest" <=> subject[a] \in Subject
    /\ step[a] \in Allocating <=> allocation = a
    /\ step[a] \in {"init", "commit"} =>
         target[a] \in Dir /\ made[target[a]] \in {"empty", "repository"}
    /\ step[a] \in {"init", "commit", "setuuid", "setid"} =>
         target[a] \in allocated[subject[a]]
    /\ step[a] \in {"setuuid", "setid"} \cup Binding =>
         target[a] \in Dir /\ made[target[a]] = "store"
    /\ step[a] \in {"bind uuid", "bind id"} => subject[a] \in unlocked

\* A directory is made for one subject at most; a store has a manifest.
MadeInv ==
  /\ \A s \in Subject : \A d \in allocated[s] :
       /\ made[d] /= "absent"
       /\ \A t \in Subject \ {s} : d \notin allocated[t]
  /\ \A d \in Dir : made[d] = "store" => manifest[d] \in Nat

\* No binding, or that to a store allocated for the subject.
Bound(s) ==
  \/ uuidKey[s] = Nil /\ idKey[s] = Nil
  \/ /\ idKey[s] \in allocated[s] /\ made[idKey[s]] = "store"
     /\ uuidKey[s] = manifest[idKey[s]]

\* Half a binding: the allocation's own, or one a kill has left.
Half(s) ==
  /\ idKey[s] = Nil
  /\ s \in cut \/ \E a \in Actor : subject[a] = s /\ step[a] = "setid"

\* An allocation finds what it read, and finds no keys when it binds.
Reads(a, s) ==
  subject[a] = s =>
    /\ step[a] = "id" => seen[a] = uuidKey[s]
    /\ step[a] \in {"mkdir", "init", "commit", "setuuid"} =>
         uuidKey[s] = Nil /\ idKey[s] = Nil
    /\ step[a] = "setid" => uuidKey[s] = manifest[target[a]] /\ idKey[s] = Nil

\* The keys of a subject that no one has bound explicitly are read and written
\* by the allocation alone.
KeysInv ==
  \A s \in Subject \ unlocked :
    /\ Bound(s) \/ Half(s)
    /\ \A a \in Actor : Reads(a, s)

\* Somebody is on the way from a directory made for s to its key.
Filling(s) ==
  \E a \in Actor : subject[a] = s /\ step[a] \in {"init", "commit", "setuuid", "setid"}

\* A subject with a directory has its key, or somebody on the way to it; so
\* nobody looks for a directory for a subject that has one.
Once(s) ==
  /\ \A d, e \in allocated[s] : d = e
  /\ allocated[s] /= {} => idKey[s] /= Nil \/ Filling(s)
  /\ \A a \in Actor : subject[a] = s /\ step[a] = "mkdir" => allocated[s] = {}

\* As long as nobody is killed.
OnceInv == killed = 0 => \A s \in Subject : Once(s)

BindingInv ==
  /\ BindingTypeOK
  /\ ActorInv
  /\ MadeInv
  /\ KeysInv
  /\ OnceInv

StepOf(a) ==
  \/ StartEnsure(a) \/ StartInbox(a) \/ StartBind(a)
  \/ ActorStep(a) \/ KillActor(a)

-----------------------------------------------------------------------------
(* What one actor's step leaves to the others.                             *)

\* An operation ends where Verdict or the caller says.
LEMMA VerdictIsAnOutcome ==
  ASSUME NEW keys
  PROVE  Verdict(keys) \in Outcome
BY DEF Verdict, Outcome

\* Done puts an actor to rest and gives up its lock.
LEMMA DoneTypes ==
  ASSUME BindingTypeOK, NEW a \in Actor, NEW o \in Outcome, Done(a, o)
  PROVE  /\ step' \in [Actor -> {"rest", "lock"} \cup Allocating \cup Reading \cup Binding]
         /\ subject' \in [Actor -> Subject \cup {Nil}]
         /\ seen' \in [Actor -> Key]
         /\ target' \in [Actor -> Key]
         /\ outcome' \in [Actor -> Outcome]
         /\ allocation' \in Actor \cup {Nil}
         /\ step'[a] = "rest" /\ subject'[a] = Nil /\ allocation' /= a
         /\ allocation /= a => allocation' = allocation
BY BindingAssumption DEF BindingTypeOK, Done, Move, Key

\* An actor moves itself alone; who is not at rest keeps its lock, and no one
\* takes another's.
LEMMA OthersStay ==
  ASSUME BindingTypeOK, NEW a \in Actor, StepOf(a), NEW b \in Actor \ {a}
  PROVE  /\ step'[b] = step[b] /\ subject'[b] = subject[b]
         /\ seen'[b] = seen[b] /\ target'[b] = target[b]
<1>1. CASE StartEnsure(a) \/ StartInbox(a) \/ StartBind(a)
  BY <1>1 DEF BindingTypeOK, StartEnsure, StartInbox, StartBind, Begun, Move
<1>2. CASE TakeAllocation(a)
  BY <1>2 DEF BindingTypeOK, TakeAllocation, Move
<1>3. CASE ReadUuid(a)
  BY <1>3 DEF BindingTypeOK, ReadUuid, Move
<1>4. CASE ReadId(a)
  BY <1>4 DEF BindingTypeOK, ReadId, Done, Move
<1>5. CASE ReadInboxId(a)
  BY <1>5 DEF BindingTypeOK, ReadInboxId, Done, Move
<1>6. CASE MakeDirectory(a)
  BY <1>6 DEF BindingTypeOK, MakeDirectory, Move
<1>7. CASE InitRepository(a)
  BY <1>7 DEF BindingTypeOK, InitRepository, Move
<1>8. CASE CommitStore(a)
  BY <1>8 DEF BindingTypeOK, CommitStore, Move
<1>9. CASE CheckBinding(a)
  BY <1>9 DEF BindingTypeOK, CheckBinding, Done, Move
<1>10. CASE SetUuid(a)
  BY <1>10 DEF BindingTypeOK, SetUuid, Move
<1>11. CASE SetId(a)
  BY <1>11 DEF BindingTypeOK, SetId, Done, Move
<1>12. CASE KillActor(a)
  BY <1>12 DEF BindingTypeOK, KillActor, Done, Move
<1>13. QED
  BY <1>1, <1>2, <1>3, <1>4, <1>5, <1>6, <1>7, <1>8, <1>9, <1>10, <1>11, <1>12
     DEF StepOf, ActorStep

\* Only the holder of the allocation lock is allocating.
LEMMA Alone ==
  ASSUME ActorInv, NEW a \in Actor, NEW b \in Actor,
         step[a] \in Allocating, step[b] \in Allocating
  PROVE  a = b
BY DEF ActorInv

\* A complete store keeps its directory and its manifest; directories that were
\* made for a subject stay so; nobody is taken out of unlocked or cut.
LEMMA StoresStay ==
  ASSUME BindingTypeOK, ActorInv, NEW a \in Actor, StepOf(a)
  PROVE  /\ \A d \in Dir : made[d] = "store" =>
              made'[d] = "store" /\ manifest'[d] = manifest[d]
         /\ \A d \in Dir : made[d] /= "absent" => made'[d] /= "absent"
         /\ \A s \in Subject : allocated[s] \subseteq allocated'[s]
         /\ unlocked \subseteq unlocked' /\ cut \subseteq cut'
<1>1. CASE StartEnsure(a) \/ StartInbox(a) \/ StartBind(a)
  BY <1>1 DEF StartEnsure, StartInbox, StartBind, Begun, storeVars
<1>2. CASE TakeAllocation(a) \/ ReadUuid(a) \/ ReadId(a) \/ ReadInboxId(a)
  BY <1>2 DEF TakeAllocation, ReadUuid, ReadId, ReadInboxId, storeVars
<1>3. CASE MakeDirectory(a)
  BY <1>3 DEF BindingTypeOK, MakeDirectory
<1>4. CASE InitRepository(a)
  BY <1>4 DEF BindingTypeOK, ActorInv, InitRepository, At
<1>5. CASE CommitStore(a)
  BY <1>5 DEF BindingTypeOK, ActorInv, CommitStore, At
<1>6. CASE CheckBinding(a)
  BY <1>6 DEF CheckBinding, storeVars
<1>7. CASE SetUuid(a) \/ SetId(a)
  BY <1>7 DEF SetUuid, SetId
<1>8. CASE KillActor(a)
  BY <1>8 DEF KillActor, storeVars
<1>9. QED
  BY <1>1, <1>2, <1>3, <1>4, <1>5, <1>6, <1>7, <1>8 DEF StepOf, ActorStep

-----------------------------------------------------------------------------
(* Types.                                                                  *)

\* The types hold initially.
LEMMA BindingInitTypes ==
  ASSUME BindingInit
  PROVE  BindingTypeOK
BY BindingAssumption DEF BindingInit, BindingTypeOK, Dir, Key, Outcome

\* A step of an actor keeps the types.
LEMMA StepTypes ==
  ASSUME BindingTypeOK, ActorInv, NEW a \in Actor, StepOf(a)
  PROVE  BindingTypeOK'
<1> USE BindingAssumption
<1>1. CASE StartEnsure(a) \/ StartInbox(a) \/ StartBind(a)
  <2>1. PICK s \in Subject, p \in {"lock", "inbox", "bind"}, d \in Key : Begun(a, s, p, d)
    <3>1. CASE StartEnsure(a) \/ StartInbox(a)
      BY <3>1 DEF StartEnsure, StartInbox, Key
    <3>2. CASE StartBind(a)
      BY <3>2 DEF StartBind, Key, Dir
    <3>3. QED
      BY <1>1, <3>1, <3>2
  <2>2. /\ step' \in [Actor -> {"rest", "lock"} \cup Allocating \cup Reading \cup Binding]
        /\ subject' \in [Actor -> Subject \cup {Nil}]
        /\ target' \in [Actor -> Key]
        /\ outcome' \in [Actor -> Outcome]
    BY <2>1 DEF BindingTypeOK, Begun, Move, Reading, Binding, Outcome
  <2>3. ops' \in 0..MaxOps
    BY <2>1 DEF BindingTypeOK, Begun
  <2>4. QED
    BY <2>1, <2>2, <2>3 DEF BindingTypeOK, Begun, storeVars
<1>2. CASE TakeAllocation(a)
  BY <1>2 DEF BindingTypeOK, TakeAllocation, Move, storeVars, Allocating
<1>3. CASE ReadUuid(a)
  <2>1. subject[a] \in Subject
    BY <1>3 DEF ActorInv, ReadUuid, At
  <2>2. QED
    BY <1>3, <2>1 DEF BindingTypeOK, ReadUuid, Move, storeVars, Allocating, Reading
<1>4. CASE ReadId(a)
  <2> DEFINE keys == [uuid |-> seen[a], id |-> idKey[subject[a]]]
  <2>1. CASE keys = NoKeys
    BY <1>4, <2>1 DEF BindingTypeOK, ReadId, Move, storeVars, Allocating, Key
  <2>2. CASE keys /= NoKeys
    <3>1. Done(a, Verdict(keys)) /\ Verdict(keys) \in Outcome
      BY <1>4, <2>2, VerdictIsAnOutcome DEF ReadId
    <3>2. QED
      BY <1>4, <3>1, DoneTypes DEF BindingTypeOK, ReadId, storeVars
  <2>3. QED
    BY <2>1, <2>2
<1>5. CASE ReadInboxId(a)
  <2> DEFINE keys == [uuid |-> seen[a], id |-> idKey[subject[a]]]
  <2>1. CASE Verdict(keys) \in {"unbound", "partial"}
    BY <1>5, <2>1 DEF BindingTypeOK, ReadInboxId, Move, storeVars, Key
  <2>2. CASE Verdict(keys) \notin {"unbound", "partial"}
    <3>1. Done(a, Verdict(keys)) /\ Verdict(keys) \in Outcome
      BY <1>5, <2>2, VerdictIsAnOutcome DEF ReadInboxId
    <3>2. QED
      BY <1>5, <3>1, DoneTypes DEF BindingTypeOK, ReadInboxId, storeVars
  <2>3. QED
    BY <2>1, <2>2
<1>6. CASE MakeDirectory(a)
  <2>1. target[a] \in Dir /\ target[a] + 1 \in Key
    BY <1>6 DEF MakeDirectory, Dir, Key
  <2>2. CASE made[target[a]] = "absent"
    BY <1>6, <2>1, <2>2 DEF BindingTypeOK, MakeDirectory, Move, Allocating
  <2>3. CASE made[target[a]] /= "absent"
    BY <1>6, <2>1, <2>3 DEF BindingTypeOK, MakeDirectory
  <2>4. QED
    BY <2>2, <2>3
<1>7. CASE InitRepository(a)
  BY <1>7 DEF BindingTypeOK, InitRepository, Move, Allocating
<1>8. CASE CommitStore(a)
  <2>1. uuids \in Key /\ uuids + 1 \in Nat
    BY DEF BindingTypeOK, Key
  <2>2. QED
    BY <1>8, <2>1 DEF BindingTypeOK, CommitStore, Move, Allocating
<1>9. CASE CheckBinding(a)
  <2>1. CASE Done(a, "mismatch") /\ UNCHANGED unlocked
    BY <1>9, <2>1, DoneTypes DEF BindingTypeOK, CheckBinding, storeVars, Outcome
  <2>2. CASE /\ Move(a, "bind uuid")
             /\ unlocked' = unlocked \cup {subject[a]}
             /\ UNCHANGED <<subject, seen, target, outcome, allocation>>
    <3>1. subject[a] \in Subject
      BY <1>9 DEF ActorInv, CheckBinding, At
    <3>2. QED
      BY <1>9, <2>2, <3>1 DEF BindingTypeOK, CheckBinding, Move, storeVars, Binding
  <2>3. QED
    BY <1>9, <2>1, <2>2 DEF CheckBinding
<1>10. CASE SetUuid(a)
  <2>1. target[a] \in Dir
    BY <1>10 DEF ActorInv, SetUuid, At, Binding
  <2>2. QED
    BY <1>10, <2>1 DEF BindingTypeOK, SetUuid, Move, Allocating, Binding
<1>11. CASE SetId(a)
  BY <1>11, DoneTypes DEF BindingTypeOK, SetId, Outcome
<1>12. CASE KillActor(a)
  <2>1. subject[a] \in Subject
    BY <1>12 DEF ActorInv, KillActor, At
  <2>2. Done(a, "none") /\ killed' \in 0..MaxKilled
    <3>1. Done(a, "none") /\ killed < MaxKilled /\ killed' = killed + 1
      BY <1>12 DEF KillActor
    <3>2. killed \in 0..MaxKilled
      BY DEF BindingTypeOK
    <3>3. QED
      BY <3>1, <3>2
  <2>3. cut' \subseteq Subject
    BY <1>12, <2>1 DEF BindingTypeOK, KillActor
  <2>4. QED
    BY <1>12, <2>2, <2>3, DoneTypes DEF BindingTypeOK, KillActor, storeVars, Outcome
<1>13. QED
  BY <1>1, <1>2, <1>3, <1>4, <1>5, <1>6, <1>7, <1>8, <1>9, <1>10, <1>11, <1>12
     DEF StepOf, ActorStep

-----------------------------------------------------------------------------
(* Actors and directories.                                                 *)

\* At first nobody works, and nothing is allocated.
LEMMA InitActors ==
  ASSUME BindingInit
  PROVE  ActorInv /\ MadeInv
<1>1. \A a \in Actor : step[a] = "rest" /\ subject[a] = Nil /\ allocation = Nil
  BY DEF BindingInit
<1>2. ActorInv
  BY <1>1, BindingAssumption DEF ActorInv, Allocating, Binding
<1>3. MadeInv
  BY DEF BindingInit, MadeInv, Dir
<1>4. QED
  BY <1>2, <1>3

\* Whom the allocation lock belongs to after a step.
LEMMA StepLocks ==
  ASSUME BindingTypeOK, ActorInv, NEW a \in Actor, StepOf(a)
  PROVE  \A b \in Actor : (step'[b] \in Allocating <=> allocation' = b)
<1> USE BindingAssumption
<1>1. \A b \in Actor : (step[b] \in Allocating <=> allocation = b)
  BY DEF ActorInv
<1>2. /\ step'[a] \in Allocating <=> allocation' = a
      /\ allocation' = allocation \/ {allocation, allocation'} \subseteq {a, Nil}
  <2>1. CASE StartEnsure(a) \/ StartInbox(a) \/ StartBind(a)
    BY <2>1, <1>1 DEF StartEnsure, StartInbox, StartBind, Begun, At, Move, BindingTypeOK, Allocating
  <2>2. CASE TakeAllocation(a)
    BY <2>2 DEF TakeAllocation, Move, BindingTypeOK, Allocating
  <2>3. CASE ReadUuid(a)
    BY <2>3, <1>1 DEF ReadUuid, At, Move, BindingTypeOK, Allocating
  <2>4. CASE ReadId(a)
    BY <2>4, <1>1 DEF ReadId, Done, At, Move, BindingTypeOK, Allocating
  <2>5. CASE ReadInboxId(a)
    BY <2>5, <1>1 DEF ReadInboxId, Done, At, Move, BindingTypeOK, Allocating
  <2>6. CASE MakeDirectory(a)
    BY <2>6, <1>1 DEF MakeDirectory, At, Move, BindingTypeOK, Allocating
  <2>7. CASE InitRepository(a) \/ CommitStore(a)
    BY <2>7, <1>1 DEF InitRepository, CommitStore, At, Move, BindingTypeOK, Allocating
  <2>8. CASE CheckBinding(a)
    BY <2>8, <1>1 DEF CheckBinding, Done, At, Move, BindingTypeOK, Allocating
  <2>9. CASE SetUuid(a)
    BY <2>9, <1>1 DEF SetUuid, At, Move, BindingTypeOK, Allocating
  <2>10. CASE SetId(a)
    BY <2>10, <1>1 DEF SetId, Done, At, Move, BindingTypeOK, Allocating
  <2>11. CASE KillActor(a)
    BY <2>11, <1>1 DEF KillActor, Done, At, Move, BindingTypeOK, Allocating
  <2>12. QED
    BY <2>1, <2>2, <2>3, <2>4, <2>5, <2>6, <2>7, <2>8, <2>9, <2>10, <2>11
       DEF StepOf, ActorStep
<1>3. ASSUME NEW b \in Actor \ {a}
      PROVE  step'[b] \in Allocating <=> allocation' = b
  <2>1. allocation' = b <=> allocation = b
    BY <1>2
  <2>2. QED
    BY <1>1, <2>1, OthersStay
<1>4. ASSUME NEW b \in Actor
      PROVE  step'[b] \in Allocating <=> allocation' = b
  <2>1. CASE b = a
    BY <1>2, <2>1
  <2>2. CASE b /= a
    BY <1>3, <2>2
  <2>3. QED
    BY <2>1, <2>2
<1>5. QED
  BY <1>4

\* An actor at a place has what it needs there.
Places(a) ==
  /\ step[a] /= "rest" <=> subject[a] \in Subject
  /\ step[a] \in {"init", "commit"} =>
       target[a] \in Dir /\ made[target[a]] \in {"empty", "repository"}
  /\ step[a] \in {"init", "commit", "setuuid", "setid"} =>
       target[a] \in allocated[subject[a]]
  /\ step[a] \in {"setuuid", "setid"} \cup Binding =>
       target[a] \in Dir /\ made[target[a]] = "store"
  /\ step[a] \in {"bind uuid", "bind id"} => subject[a] \in unlocked

\* The actors' invariant, actor by actor.
LEMMA ActorsArePlaced ==
  ActorInv <=> \A a \in Actor : Places(a) /\ (step[a] \in Allocating <=> allocation = a)
BY DEF ActorInv, Places

\* One that is done has nothing left.
LEMMA DonePlaces ==
  ASSUME BindingTypeOK, NEW a \in Actor, NEW o \in Outcome, Done(a, o)
  PROVE  Places(a)'
BY DoneTypes, BindingAssumption DEF Places, Binding

\* The actor that moves gets to a place that it is ready for.
LEMMA StepPlaces ==
  ASSUME BindingTypeOK, ActorInv, NEW a \in Actor, StepOf(a)
  PROVE  Places(a)'
<1> USE BindingAssumption
<1>0. Places(a)
  BY ActorsArePlaced
<1>1. CASE StartEnsure(a)
  BY <1>1 DEF StartEnsure, Begun, Move, BindingTypeOK, Places, Binding
<1>2. CASE StartInbox(a)
  BY <1>2 DEF StartInbox, Begun, Move, BindingTypeOK, Places, Binding
<1>3. CASE StartBind(a)
  BY <1>3 DEF StartBind, Begun, Move, BindingTypeOK, Places, Binding, storeVars
<1>4. CASE TakeAllocation(a)
  BY <1>0, <1>4 DEF TakeAllocation, At, Move, BindingTypeOK, Places, Binding
<1>5. CASE ReadUuid(a)
  BY <1>0, <1>5 DEF ReadUuid, At, Move, BindingTypeOK, Places, Binding
<1>6. CASE ReadId(a)
  <2> DEFINE keys == [uuid |-> seen[a], id |-> idKey[subject[a]]]
  <2>1. CASE keys = NoKeys
    <3>1. step'[a] = "mkdir" /\ subject'[a] \in Subject
      BY <1>0, <1>6, <2>1 DEF ReadId, At, Move, BindingTypeOK, Places
    <3>2. QED
      BY <3>1 DEF Places, Binding
  <2>2. CASE keys /= NoKeys
    BY <1>6, <2>2, VerdictIsAnOutcome, DonePlaces DEF ReadId
  <2>3. QED
    BY <2>1, <2>2
<1>7. CASE ReadInboxId(a)
  <2> DEFINE keys == [uuid |-> seen[a], id |-> idKey[subject[a]]]
  <2>1. CASE Verdict(keys) \in {"unbound", "partial"}
    <3>1. step'[a] = "lock" /\ subject'[a] \in Subject
      BY <1>0, <1>7, <2>1 DEF ReadInboxId, At, Move, BindingTypeOK, Places
    <3>2. QED
      BY <3>1 DEF Places, Binding
  <2>2. CASE Verdict(keys) \notin {"unbound", "partial"}
    BY <1>7, <2>2, VerdictIsAnOutcome, DonePlaces DEF ReadInboxId
  <2>3. QED
    BY <2>1, <2>2
<1>8. CASE MakeDirectory(a)
  <2>1. CASE made[target[a]] = "absent"
    <3>1. step'[a] = "init" /\ subject'[a] = subject[a] /\ target'[a] = target[a]
          /\ subject[a] \in Subject /\ target[a] \in Dir
      BY <1>0, <1>8, <2>1 DEF MakeDirectory, At, Move, BindingTypeOK, Places
    <3>2. made'[target[a]] = "empty" /\ target[a] \in allocated'[subject[a]]
      BY <1>8, <2>1, <3>1 DEF MakeDirectory, BindingTypeOK
    <3>3. QED
      BY <3>1, <3>2 DEF Places, Binding
  <2>2. CASE made[target[a]] /= "absent"
    BY <1>0, <1>8, <2>2 DEF MakeDirectory, At, BindingTypeOK, Places, Binding
  <2>3. QED
    BY <2>1, <2>2
<1>9. CASE InitRepository(a)
  BY <1>0, <1>9 DEF InitRepository, At, Move, BindingTypeOK, Places, Binding
<1>10. CASE CommitStore(a)
  BY <1>0, <1>10 DEF CommitStore, At, Move, BindingTypeOK, Places, Binding
<1>11. CASE CheckBinding(a)
  <2>1. CASE Done(a, "mismatch")
    BY <2>1, DonePlaces DEF Outcome
  <2>2. CASE ~ Done(a, "mismatch")
    <3>1. /\ step[a] = "bind" /\ step'[a] = "bind uuid" /\ subject[a] \in unlocked'
          /\ subject' = subject /\ target' = target /\ made' = made
      BY <1>11, <2>2 DEF CheckBinding, At, Move, BindingTypeOK, storeVars
    <3>2. subject[a] \in Subject /\ target[a] \in Dir /\ made[target[a]] = "store"
      BY <1>0, <3>1 DEF Places, Binding
    <3>3. QED
      BY <3>1, <3>2 DEF Places, Binding
  <2>3. QED
    BY <2>1, <2>2
<1>12. CASE SetUuid(a)
  BY <1>0, <1>12 DEF SetUuid, At, Move, BindingTypeOK, Places, Binding
<1>13. CASE SetId(a)
  BY <1>0, <1>13 DEF SetId, Done, At, Move, BindingTypeOK, Places, Binding
<1>14. CASE KillActor(a)
  BY <1>0, <1>14 DEF KillActor, Done, At, Move, BindingTypeOK, Places, Binding
<1>15. QED
  BY <1>1, <1>2, <1>3, <1>4, <1>5, <1>6, <1>7, <1>8, <1>9, <1>10, <1>11, <1>12, <1>13, <1>14
     DEF StepOf, ActorStep

\* The directory an actor fills is touched by no other.
LEMMA FillingStays ==
  ASSUME BindingTypeOK, ActorInv, NEW a \in Actor, StepOf(a),
         NEW b \in Actor \ {a}, step[b] \in {"init", "commit"}
  PROVE  made'[target[b]] = made[target[b]]
<1>1. step[b] \in Allocating /\ target[b] \in Dir /\ made[target[b]] \in {"empty", "repository"}
  BY DEF ActorInv, Allocating
<1>2. step[a] \notin Allocating
  BY <1>1, Alone
<1>3. made' = made
  BY <1>2 DEF StepOf, ActorStep, StartEnsure, StartInbox, StartBind, Begun, TakeAllocation, ReadUuid,
              ReadId, ReadInboxId, MakeDirectory, InitRepository, CommitStore, CheckBinding,
              SetUuid, SetId, KillActor, At, Allocating, storeVars
<1>4. QED
  BY <1>3

\* A step of an actor leaves every actor where it may be.
LEMMA StepActors ==
  ASSUME BindingTypeOK, ActorInv, NEW a \in Actor, StepOf(a)
  PROVE  ActorInv'
<1>1. BindingTypeOK'
  BY StepTypes
<1>2. ASSUME NEW b \in Actor
      PROVE  Places(b)'
  <2>1. CASE b = a
    BY <2>1, StepPlaces
  <2>2. CASE b /= a
    <3>1. /\ step'[b] = step[b] /\ subject'[b] = subject[b] /\ target'[b] = target[b]
      BY <2>2, OthersStay
    <3>2. Places(b)
      BY ActorsArePlaced
    <3>3. CASE step[b] = "rest"
      BY <3>1, <3>2, <3>3 DEF Places, Binding
    <3>4. CASE step[b] /= "rest"
      <4>1. subject[b] \in Subject
        BY <3>2, <3>4 DEF Places
      <4>2. step[b] \in {"init", "commit"} =>
              target[b] \in Dir /\ made'[target[b]] \in {"empty", "repository"}
        BY <2>2, <3>2, FillingStays DEF Places
      <4>3. step[b] \in {"init", "commit", "setuuid", "setid"} =>
              target[b] \in allocated'[subject[b]]
        BY <3>2, <4>1, StoresStay DEF Places
      <4>4. step[b] \in {"setuuid", "setid"} \cup Binding =>
              target[b] \in Dir /\ made'[target[b]] = "store"
        BY <3>2, StoresStay DEF Places
      <4>5. step[b] \in {"bind uuid", "bind id"} => subject[b] \in unlocked'
        BY <3>2, StoresStay DEF Places
      <4>6. QED
        BY <3>1, <3>4, <4>1, <4>2, <4>3, <4>4, <4>5 DEF Places
    <3>5. QED
      BY <3>3, <3>4
  <2>3. QED
    BY <2>1, <2>2
<1>3. \A b \in Actor : step'[b] \in Allocating <=> allocation' = b
  BY StepLocks
<1>4. QED
  BY <1>2, <1>3 DEF ActorInv, Places

\* Directories are made one at a time, and each for one subject.
LEMMA StepMade ==
  ASSUME BindingTypeOK, ActorInv, MadeInv, NEW a \in Actor, StepOf(a)
  PROVE  MadeInv'
<1>1. CASE UNCHANGED <<made, manifest, allocated>>
  BY <1>1 DEF MadeInv
<1>2. CASE MakeDirectory(a) /\ made[target[a]] = "absent"
  <2>1. /\ target[a] \in Dir /\ subject[a] \in Subject
        /\ made' = [made EXCEPT ![target[a]] = "empty"] /\ manifest' = manifest
        /\ allocated' = [allocated EXCEPT ![subject[a]] = @ \cup {target[a]}]
    BY <1>2 DEF MakeDirectory, ActorInv, At
  <2>2. \A s \in Subject : target[a] \notin allocated[s]
    BY <1>2 DEF MadeInv
  <2>3. QED
    BY <2>1, <2>2 DEF MadeInv, BindingTypeOK
<1>3. CASE InitRepository(a) \/ CommitStore(a)
  <2>1. /\ target[a] \in Dir /\ allocated' = allocated /\ uuids \in Nat
    BY <1>3 DEF InitRepository, CommitStore, ActorInv, At, BindingTypeOK
  <2>2. \A d \in Dir : made[d] /= "absent" => made'[d] /= "absent"
    BY StoresStay
  <2>3. \A d \in Dir : made'[d] = "store" => manifest'[d] \in Nat
    BY <1>3, <2>1 DEF InitRepository, CommitStore, MadeInv, BindingTypeOK
  <2>4. \A s \in Subject : allocated[s] \subseteq Dir
    BY DEF BindingTypeOK
  <2>5. QED
    BY <2>1, <2>2, <2>3, <2>4 DEF MadeInv
<1>4. QED
  BY <1>1, <1>2, <1>3
     DEF StepOf, ActorStep, StartEnsure, StartInbox, StartBind, Begun, TakeAllocation, ReadUuid,
         ReadId, ReadInboxId, MakeDirectory, CheckBinding, SetUuid, SetId, KillActor, storeVars

-----------------------------------------------------------------------------
(* Keys.                                                                   *)

\* The keys of a subject that is not bound explicitly are written by the two
\* last steps of its allocation.
LEMMA KeysWritten ==
  ASSUME BindingTypeOK, ActorInv, NEW a \in Actor, StepOf(a), NEW s \in Subject \ unlocked,
         uuidKey'[s] /= uuidKey[s] \/ idKey'[s] /= idKey[s]
  PROVE  subject[a] = s /\ (SetUuid(a) \/ SetId(a))
<1>1. CASE SetUuid(a)
  BY <1>1 DEF SetUuid, BindingTypeOK
<1>2. CASE SetId(a)
  BY <1>2 DEF SetId, BindingTypeOK
<1>3. CASE ~SetUuid(a) /\ ~SetId(a)
  <2>1. UNCHANGED <<uuidKey, idKey>>
    BY <1>3 DEF StepOf, ActorStep, StartEnsure, StartInbox, StartBind, Begun, TakeAllocation, ReadUuid,
                ReadId, ReadInboxId, MakeDirectory, InitRepository, CommitStore, CheckBinding,
                KillActor, storeVars
  <2>2. QED
    BY <2>1
<1>4. QED
  BY <1>1, <1>2, <1>3

\* Where a step that leaves a subject's keys alone gets its actor to.
LEMMA StepReads ==
  ASSUME BindingTypeOK, ActorInv, KeysInv, NEW a \in Actor, StepOf(a),
         NEW s \in Subject \ unlocked, uuidKey'[s] = uuidKey[s], idKey'[s] = idKey[s],
         ~SetUuid(a)
  PROVE  Reads(a, s)'
<1>0. Reads(a, s)
  BY DEF KeysInv
<1>1. CASE StartEnsure(a) \/ StartInbox(a) \/ StartBind(a) \/ TakeAllocation(a)
  BY <1>1 DEF StartEnsure, StartInbox, StartBind, TakeAllocation, Begun, Move, BindingTypeOK, Reads
<1>2. CASE ReadUuid(a)
  BY <1>2 DEF ReadUuid, Move, BindingTypeOK, Reads
<1>3. CASE ReadId(a)
  <2> DEFINE keys == [uuid |-> seen[a], id |-> idKey[subject[a]]]
  <2>1. CASE keys = NoKeys
    <3>1. seen[a] = Nil /\ idKey[subject[a]] = Nil
      BY <2>1 DEF NoKeys
    <3>2. step[a] = "id" /\ step'[a] = "mkdir" /\ subject' = subject
      BY <1>3, <2>1 DEF ReadId, At, Move, BindingTypeOK
    <3>3. QED
      BY <1>0, <3>1, <3>2 DEF Reads
  <2>2. CASE keys /= NoKeys
    BY <1>3, <2>2, VerdictIsAnOutcome, DoneTypes DEF ReadId, Reads
  <2>3. QED
    BY <2>1, <2>2
<1>4. CASE ReadInboxId(a)
  BY <1>4 DEF ReadInboxId, Done, Move, BindingTypeOK, Reads
<1>5. CASE MakeDirectory(a)
  <2>1. step[a] = "mkdir" /\ step'[a] \in {"mkdir", "init"} /\ subject'[a] = subject[a]
    BY <1>5 DEF MakeDirectory, At, Move, BindingTypeOK
  <2>2. QED
    BY <1>0, <2>1 DEF Reads
<1>6. CASE InitRepository(a) \/ CommitStore(a)
  <2>1. /\ step[a] \in {"init", "commit"} /\ step'[a] \in {"commit", "setuuid"}
        /\ subject'[a] = subject[a]
    BY <1>6 DEF InitRepository, CommitStore, At, Move, BindingTypeOK
  <2>2. QED
    BY <1>0, <2>1 DEF Reads
<1>7. CASE CheckBinding(a)
  BY <1>7 DEF CheckBinding, Done, Move, BindingTypeOK, Reads
<1>8. CASE SetId(a)
  BY <1>8 DEF SetId, Done, Move, BindingTypeOK, Reads
<1>9. CASE KillActor(a)
  BY <1>9 DEF KillActor, Done, Move, BindingTypeOK, Reads
<1>10. QED
  BY <1>1, <1>2, <1>3, <1>4, <1>5, <1>6, <1>7, <1>8, <1>9 DEF StepOf, ActorStep

\* The invariant, for a subject nobody binds explicitly.
LEMMA StepKeys ==
  ASSUME BindingTypeOK, ActorInv, MadeInv, KeysInv, NEW a \in Actor, StepOf(a)
  PROVE  KeysInv'
<1> SUFFICES ASSUME NEW s \in Subject, s \notin unlocked'
             PROVE  (Bound(s) \/ Half(s))' /\ \A b \in Actor : Reads(b, s)'
  BY DEF KeysInv
<1>1. s \notin unlocked /\ allocated[s] \subseteq Dir
  BY StoresStay DEF BindingTypeOK
<1>2. (Bound(s) \/ Half(s)) /\ \A b \in Actor : Reads(b, s)
  BY <1>1 DEF KeysInv
<1>3. CASE subject[a] = s /\ SetUuid(a)
  <2>1. step[a] = "setuuid"
    BY <1>1, <1>3 DEF SetUuid, At, ActorInv
  <2>2. idKey[s] = Nil /\ target[a] \in Dir
    BY <1>2, <1>3, <2>1 DEF Reads, ActorInv
  <2>3. /\ uuidKey'[s] = manifest[target[a]] /\ idKey'[s] = Nil /\ manifest' = manifest
        /\ target' = target /\ subject' = subject /\ step'[a] = "setid"
    BY <1>3, <2>1, <2>2 DEF SetUuid, At, Move, BindingTypeOK
  <2>4. Half(s)'
    BY <1>3, <2>3 DEF Half
  <2>5. Reads(a, s)'
    BY <2>3 DEF Reads
  <2>6. ASSUME NEW b \in Actor, b /= a, subject'[b] = s
        PROVE  step'[b] \notin Allocating
    BY <2>3, <2>6, StepLocks DEF Allocating
  <2>7. \A b \in Actor : b /= a => Reads(b, s)'
    BY <2>6 DEF Reads, Allocating
  <2>8. QED
    BY <2>4, <2>5, <2>7
<1>4. CASE subject[a] = s /\ SetId(a)
  <2>1. step[a] = "setid"
    BY <1>1, <1>4 DEF SetId, At, ActorInv
  <2>2. /\ uuidKey[s] = manifest[target[a]] /\ target[a] \in Dir
        /\ target[a] \in allocated[s] /\ made[target[a]] = "store"
    BY <1>2, <1>4, <2>1 DEF Reads, ActorInv
  <2>3. /\ uuidKey'[s] = uuidKey[s] /\ idKey'[s] = target[a]
        /\ manifest' = manifest /\ made' = made /\ allocated' = allocated
    BY <1>4 DEF SetId, BindingTypeOK
  <2>4. Bound(s)'
    BY <2>2, <2>3 DEF Bound
  <2>5. Reads(a, s)'
    BY <1>4 DEF SetId, Done, Move, BindingTypeOK, Reads
  <2>6. ASSUME NEW b \in Actor, b /= a
        PROVE  step'[b] = step[b] /\ step[b] \notin Allocating
    BY <2>1, <2>6, OthersStay, Alone DEF Allocating
  <2>7. \A b \in Actor : b /= a => Reads(b, s)'
    BY <2>6 DEF Reads, Allocating
  <2>8. QED
    BY <2>4, <2>5, <2>7
<1>5. CASE subject[a] /= s \/ (~SetUuid(a) /\ ~SetId(a))
  <2>1. uuidKey'[s] = uuidKey[s] /\ idKey'[s] = idKey[s]
    BY <1>1, <1>5, KeysWritten
  <2>2. Bound(s) => Bound(s)'
    BY <1>1, <2>1, StoresStay DEF Bound
  <2>3. ASSUME Half(s)
        PROVE  Half(s)'
    <3>1. CASE s \in cut
      BY <2>1, <2>3, <3>1, StoresStay DEF Half
    <3>2. CASE s \notin cut
      <4>1. PICK b \in Actor : subject[b] = s /\ step[b] = "setid"
        BY <2>3, <3>2 DEF Half
      <4>2. CASE b = a
        <5>1. KillActor(a)
          BY <1>5, <4>1, <4>2
             DEF StepOf, ActorStep, StartEnsure, StartInbox, StartBind, Begun, TakeAllocation,
                 ReadUuid, ReadId, ReadInboxId, MakeDirectory, InitRepository, CommitStore,
                 CheckBinding, At
        <5>2. s \in cut'
          BY <4>1, <4>2, <5>1 DEF KillActor, At
        <5>3. QED
          BY <2>1, <2>3, <5>2 DEF Half
      <4>3. CASE b /= a
        BY <2>1, <2>3, <4>1, <4>3, OthersStay DEF Half
      <4>4. QED
        BY <4>2, <4>3
    <3>3. QED
      BY <3>1, <3>2
  <2>4. Reads(a, s)'
    <3>1. CASE SetUuid(a)
      BY <1>5, <3>1 DEF SetUuid, Reads
    <3>2. CASE ~SetUuid(a)
      BY <1>1, <2>1, <3>2, StepReads
    <3>3. QED
      BY <3>1, <3>2
  <2>5. ASSUME NEW b \in Actor, b /= a
        PROVE  Reads(b, s)'
    <3>1. /\ step'[b] = step[b] /\ subject'[b] = subject[b]
          /\ seen'[b] = seen[b] /\ target'[b] = target[b]
      BY <2>5, OthersStay
    <3>2. step[b] = "setid" => manifest'[target[b]] = manifest[target[b]]
      BY StoresStay DEF ActorInv
    <3>3. QED
      BY <1>2, <2>1, <3>1, <3>2 DEF Reads
  <2>6. QED
    BY <1>2, <2>2, <2>3, <2>4, <2>5
<1>6. QED
  BY <1>3, <1>4, <1>5

-----------------------------------------------------------------------------
(* One directory for a subject.                                            *)

\* A subject that has its key keeps one, and somebody on the way to it gets
\* there if he is not killed.
LEMMA FillingGoesOn ==
  ASSUME BindingTypeOK, ActorInv, NEW a \in Actor, StepOf(a), ~KillActor(a),
         NEW s \in Subject, idKey[s] /= Nil \/ Filling(s)
  PROVE  idKey'[s] /= Nil \/ Filling(s)'
<1>1. SetId(a) => /\ target[a] \in Dir /\ target[a] /= Nil
                  /\ idKey' = [idKey EXCEPT ![subject[a]] = target[a]]
  <2>1. step[a] \in {"setid", "bind id"} => target[a] \in Dir
    BY DEF ActorInv, Binding
  <2>2. Nil \notin Dir
    BY BindingAssumption DEF Dir
  <2>3. QED
    BY <2>1, <2>2 DEF SetId, At
<1>2. ~SetId(a) => idKey' = idKey
  BY DEF StepOf, ActorStep, StartEnsure, StartInbox, StartBind, Begun, TakeAllocation, ReadUuid,
         ReadId, ReadInboxId, MakeDirectory, InitRepository, CommitStore, CheckBinding, SetUuid,
         KillActor, storeVars
<1>3. CASE idKey[s] /= Nil
  BY <1>1, <1>2, <1>3 DEF BindingTypeOK
<1>4. CASE Filling(s)
  <2>1. PICK b \in Actor : subject[b] = s /\ step[b] \in {"init", "commit", "setuuid", "setid"}
    BY <1>4 DEF Filling
  <2>2. CASE b /= a
    BY <2>1, <2>2, OthersStay DEF Filling
  <2>3. CASE b = a /\ SetId(a)
    BY <1>1, <2>1, <2>3 DEF BindingTypeOK
  <2>4. CASE b = a /\ ~SetId(a)
    <3>1. InitRepository(a) \/ CommitStore(a) \/ SetUuid(a)
      BY <2>1, <2>4 DEF StepOf, ActorStep, StartEnsure, StartInbox, StartBind, Begun, TakeAllocation,
                        ReadUuid, ReadId, ReadInboxId, MakeDirectory, CheckBinding, At
    <3>2. step'[a] \in {"commit", "setuuid", "setid"} /\ subject'[a] = s
      BY <2>1, <2>4, <3>1 DEF InitRepository, CommitStore, SetUuid, At, Move, BindingTypeOK
    <3>3. QED
      BY <3>2 DEF Filling
  <2>5. QED
    BY <2>2, <2>3, <2>4
<1>5. QED
  BY <1>3, <1>4

\* Who goes to look for a directory has found no key.
LEMMA LooksForOne ==
  ASSUME BindingTypeOK, ActorInv, NEW a \in Actor, StepOf(a), NEW s \in Subject, Once(s),
         subject'[a] = s, step'[a] = "mkdir"
  PROVE  subject[a] = s /\ allocated[s] = {} /\ allocated'[s] = {}
<1>1. CASE ReadId(a)
  <2> DEFINE keys == [uuid |-> seen[a], id |-> idKey[subject[a]]]
  <2>1. keys = NoKeys
    <3>1. SUFFICES ASSUME keys /= NoKeys PROVE FALSE
      OBVIOUS
    <3>2. QED
      BY <1>1, <3>1, VerdictIsAnOutcome, DoneTypes DEF ReadId
  <2>2. subject[a] = s /\ step[a] = "id" /\ idKey[s] = Nil /\ allocated' = allocated
    BY <1>1, <2>1 DEF ReadId, At, NoKeys
  <2>3. ~Filling(s)
    <3>1. \A b \in Actor : step[b] \in Allocating => b = a
      BY <2>2, Alone DEF Allocating
    <3>2. QED
      BY <2>2, <3>1 DEF Filling, Allocating
  <2>4. QED
    BY <2>2, <2>3 DEF Once
<1>2. CASE MakeDirectory(a)
  <2>1. made[target[a]] /= "absent"
    BY <1>2 DEF MakeDirectory, Move, BindingTypeOK
  <2>2. QED
    BY <1>2, <2>1 DEF MakeDirectory, At, Once
<1>3. CASE ~ReadId(a) /\ ~MakeDirectory(a)
  <2>1. step'[a] /= "mkdir"
    BY <1>3 DEF StepOf, ActorStep, StartEnsure, StartInbox, StartBind, Begun, TakeAllocation, ReadUuid,
                ReadInboxId, InitRepository, CommitStore, CheckBinding, SetUuid, SetId,
                KillActor, Done, Move, At, BindingTypeOK
  <2>2. QED
    BY <2>1
<1>4. QED
  BY <1>1, <1>2, <1>3

\* As long as nobody is killed.
LEMMA StepOnce ==
  ASSUME BindingTypeOK, ActorInv, MadeInv, OnceInv, NEW a \in Actor, StepOf(a)
  PROVE  OnceInv'
<1> SUFFICES ASSUME killed' = 0, NEW s \in Subject
             PROVE  Once(s)'
  BY DEF OnceInv
<1>1. ~KillActor(a) /\ killed = 0
  <2>1. killed \in Nat
    BY DEF BindingTypeOK
  <2>2. KillActor(a) => killed' = killed + 1
    BY DEF KillActor
  <2>3. ~KillActor(a) => killed' = killed
    BY DEF StepOf, ActorStep, StartEnsure, StartInbox, StartBind, Begun, TakeAllocation, ReadUuid,
           ReadId, ReadInboxId, MakeDirectory, InitRepository, CommitStore, CheckBinding, SetUuid,
           SetId
  <2>4. QED
    BY <2>1, <2>2, <2>3
<1>2. Once(s)
  BY <1>1 DEF OnceInv
<1>3. CASE allocated'[s] = allocated[s]
  <2>1. \A d, e \in allocated'[s] : d = e
    BY <1>2, <1>3 DEF Once
  <2>2. allocated'[s] /= {} => idKey'[s] /= Nil \/ Filling(s)'
    BY <1>1, <1>2, <1>3, FillingGoesOn DEF Once
  <2>3. ASSUME NEW b \in Actor, subject'[b] = s, step'[b] = "mkdir"
        PROVE  allocated'[s] = {}
    <3>1. CASE b = a
      BY <1>2, <2>3, <3>1, LooksForOne
    <3>2. CASE b /= a
      BY <1>2, <1>3, <2>3, <3>2, OthersStay DEF Once
    <3>3. QED
      BY <3>1, <3>2
  <2>4. QED
    BY <2>1, <2>2, <2>3 DEF Once
<1>4. CASE allocated'[s] /= allocated[s]
  <2>1. MakeDirectory(a) /\ made[target[a]] = "absent" /\ subject[a] = s
    BY <1>4 DEF StepOf, ActorStep, StartEnsure, StartInbox, StartBind, Begun, TakeAllocation, ReadUuid,
                ReadId, ReadInboxId, MakeDirectory, InitRepository, CommitStore, CheckBinding,
                SetUuid, SetId, KillActor, BindingTypeOK
  <2>2. allocated[s] = {}
    BY <1>2, <2>1 DEF Once, MakeDirectory, At
  <2>3. allocated'[s] = {target[a]} /\ step'[a] = "init" /\ subject'[a] = s
    BY <2>1, <2>2 DEF MakeDirectory, Move, BindingTypeOK
  <2>4. \A b \in Actor : step'[b] = "mkdir" => b = a
    BY <2>3, StepLocks DEF Allocating
  <2>5. Filling(s)'
    BY <2>3 DEF Filling
  <2>6. QED
    BY <2>3, <2>4, <2>5 DEF Once
<1>5. QED
  BY <1>3, <1>4

-----------------------------------------------------------------------------
(* The theorems.                                                           *)

\* The invariant holds initially.
LEMMA InitBinding ==
  ASSUME BindingInit
  PROVE  BindingInv
<1>1. \A s \in Subject : uuidKey[s] = Nil /\ idKey[s] = Nil /\ allocated[s] = {}
  BY DEF BindingInit
<1>2. \A a \in Actor : step[a] = "rest" /\ subject[a] = Nil
  BY DEF BindingInit
<1>3. KeysInv
  BY <1>1, <1>2 DEF KeysInv, Bound, Reads
<1>4. OnceInv
  BY <1>1, <1>2 DEF OnceInv, Once
<1>5. QED
  BY <1>3, <1>4, BindingInitTypes, InitActors DEF BindingInv

\* The invariant holds where nothing moves.
LEMMA BindingUnchanged ==
  ASSUME BindingInv, UNCHANGED bindingVars
  PROVE  BindingInv'
<1> USE DEF BindingInv, bindingVars, storeVars, actorVars
<1>1. BindingTypeOK'
  BY DEF BindingTypeOK
<1>2. ActorInv'
  BY DEF ActorInv
<1>3. MadeInv'
  BY DEF MadeInv
<1>4. KeysInv'
  BY DEF KeysInv, Bound, Half, Reads
<1>5. OnceInv'
  BY DEF OnceInv, Once, Filling
<1>6. QED
  BY <1>1, <1>2, <1>3, <1>4, <1>5

\* The invariant holds in every reachable state.
THEOREM BindingInvariance == BindingSpec => []BindingInv
<1>1. BindingInit => BindingInv
  BY InitBinding
<1>2. BindingInv /\ [BindingNext]_bindingVars => BindingInv'
  <2> SUFFICES ASSUME BindingInv, [BindingNext]_bindingVars
               PROVE  BindingInv'
    OBVIOUS
  <2>1. ASSUME NEW a \in Actor, StepOf(a)
        PROVE  BindingInv'
    BY <2>1, StepTypes, StepActors, StepMade, StepKeys, StepOnce DEF BindingInv
  <2>2. CASE BindingNext
    BY <2>1, <2>2 DEF BindingNext, StepOf
  <2>3. CASE UNCHANGED bindingVars
    BY <2>3, BindingUnchanged
  <2>4. QED
    BY <2>2, <2>3
<1>3. QED
  BY <1>1, <1>2, PTL DEF BindingSpec

\* A subject that is bound is bound to a store its manifest confirms.
LEMMA BoundIsProven ==
  ASSUME BindingInv, NEW s \in Subject, Bound(s)
  PROVE  /\ Verdict([uuid |-> uuidKey[s], id |-> idKey[s]]) \in {"unbound", "store"}
         /\ idKey[s] /= Nil => idKey[s] \in allocated[s]
<1>1. CASE uuidKey[s] = Nil /\ idKey[s] = Nil
  BY <1>1 DEF Verdict
<1>2. CASE /\ idKey[s] \in allocated[s] /\ made[idKey[s]] = "store"
           /\ uuidKey[s] = manifest[idKey[s]]
  <2>1. idKey[s] \in Dir /\ uuidKey[s] \in Nat
    BY <1>2 DEF BindingInv, BindingTypeOK, MadeInv
  <2>2. idKey[s] /= Nil /\ uuidKey[s] /= Nil
    BY <2>1, BindingAssumption DEF Dir
  <2>3. Confirmed([uuid |-> uuidKey[s], id |-> idKey[s]])
    BY <1>2, <2>1 DEF Confirmed
  <2>4. QED
    BY <1>2, <2>2, <2>3 DEF Verdict
<1>3. QED
  BY <1>1, <1>2 DEF Bound

\* project_store.rs: whatever processes allocate, bind and read at once, a
\* subject that was left to the allocation has a complete binding that its
\* store confirms, or none; no two such subjects come to share a store, and
\* without kills none is given a second directory.
THEOREM BindingIsSafe == BindingSpec => []BindingSafe
<1>1. BindingInv => BindingProven
  <2> SUFFICES ASSUME BindingInv, NEW s \in Subject, Resting(s), s \notin cut \cup unlocked
               PROVE  Verdict([uuid |-> uuidKey[s], id |-> idKey[s]]) \in {"unbound", "store"}
    BY DEF BindingProven
  <2>1. Bound(s)
    BY DEF BindingInv, KeysInv, Half, Resting
  <2>2. QED
    BY <2>1, BoundIsProven
<1>2. BindingInv => StoresApart
  <2> SUFFICES ASSUME BindingInv, NEW s \in Subject
               PROVE  /\ s \notin unlocked =>
                           \A t \in Subject \ (unlocked \cup {s}) : idKey[s] /= Nil => idKey[s] /= idKey[t]
                      /\ killed = 0 => Cardinality(allocated[s]) <= 1
    BY DEF StoresApart
  <2>1. ASSUME s \notin unlocked, NEW t \in Subject \ (unlocked \cup {s}), idKey[s] /= Nil
        PROVE  idKey[s] /= idKey[t]
    <3>1. SUFFICES ASSUME idKey[t] = idKey[s] PROVE FALSE
      OBVIOUS
    <3>2. Bound(s) /\ Bound(t)
      BY <2>1, <3>1 DEF BindingInv, KeysInv, Half
    <3>3. idKey[s] \in allocated[s] /\ idKey[s] \in allocated[t]
      BY <2>1, <3>1, <3>2, BoundIsProven
    <3>4. QED
      BY <2>1, <3>3 DEF BindingInv, MadeInv
  <2>2. ASSUME killed = 0
        PROVE  Cardinality(allocated[s]) <= 1
    <3>1. \A d, e \in allocated[s] : d = e
      BY <2>2 DEF BindingInv, OnceInv, Once
    <3>2. CASE allocated[s] = {}
      BY <3>2, FS_EmptySet
    <3>3. CASE allocated[s] /= {}
      <4>1. PICK d \in allocated[s] : TRUE
        BY <3>3
      <4>2. allocated[s] = {d}
        BY <3>1, <4>1
      <4>3. Cardinality({d}) = 1
        BY FS_Singleton
      <4>4. QED
        BY <4>2, <4>3
    <3>4. QED
      BY <3>2, <3>3
  <2>3. QED
    BY <2>1, <2>2
<1>3. BindingInv => BindingSafe
  BY <1>1, <1>2 DEF BindingSafe
<1>4. QED
  BY <1>3, BindingInvariance, PTL
===============================================================================
