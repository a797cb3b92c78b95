----------------------------- MODULE StoreBinding -----------------------------
(***************************************************************************)
(* How a subject repository comes to its portable store                    *)
(* (src/src/project_store.rs).  The proof of ownership is a pair of keys   *)
(* in the subject's Git config, the store's uuid and its directory's name, *)
(* written by two commands.  ensure_project_store allocates a directory    *)
(* under the allocation lock and binds the subject to it when the store is *)
(* complete; bind_existing_store binds it to a store that is already       *)
(* there, without the lock; hooks read the keys without it too.  Any of    *)
(* them can be killed between two steps.                                   *)
(*                                                                         *)
(* Subjects here share their readable name, so that directory number n is  *)
(* the name with suffix n; a store's uuid is the number it was created by. *)
(***************************************************************************)
EXTENDS Integers, FiniteSets

CONSTANTS
  Actor,       \* processes: captures, hooks, the daemon, pc commands
  Subject,
  Nil,
  Dirs,        \* bound: directories allocated
  MaxOps,      \* bound: operations begun
  MaxKilled    \* bound: processes killed

ASSUME BindingAssumption ==
  /\ Nil \notin Actor \cup Subject \cup Nat
  /\ Dirs \in Nat /\ MaxOps \in Nat /\ MaxKilled \in Nat

Dir == 0..Dirs

VARIABLES
  made,       \* of each directory: how much of a store is in it
  manifest,   \* the uuid its manifest states
  uuidKey, idKey,   \* of each subject: the two keys
  allocation, \* who holds the allocation lock
  step,       \* of each actor: the step it is at
  subject,
  seen,       \* the uuid it has read in the subject's keys
  target,     \* the directory it makes, binds or has found
  outcome,    \* how its last operation ended
  uuids,      \* uuids given out
  allocated,  \* of each subject, directories ever made for it
  unlocked,   \* subjects bound to an existing store while an allocation of
              \* theirs may be under way
  cut,        \* subjects whose binding was killed between its two keys
  ops, killed

storeVars == <<made, manifest, uuidKey, idKey, uuids>>
actorVars == <<step, subject, seen, target, outcome>>
bindingVars == <<storeVars, actorVars, allocation, allocated, unlocked, cut,
                 ops, killed>>

NoKeys == [uuid |-> Nil, id |-> Nil]
Key == Nat \cup {Nil}
Outcome == {"none", "store", "unbound", "partial", "mismatch", "unproven"}

Allocating == {"uuid", "id", "mkdir", "init", "commit", "setuuid", "setid"}
Reading == {"inbox", "inbox id"}
Binding == {"bind", "bind uuid", "bind id"}

BindingTypeOK ==
  /\ made \in [Dir -> {"absent", "empty", "repository", "store"}]
  /\ manifest \in [Dir -> Key]
  /\ uuidKey \in [Subject -> Key] /\ idKey \in [Subject -> Key]
  /\ allocation \in Actor \cup {Nil}
  /\ step \in [Actor -> {"rest", "lock"} \cup Allocating \cup Reading \cup Binding]
  /\ subject \in [Actor -> Subject \cup {Nil}]
  /\ seen \in [Actor -> Key]
  /\ target \in [Actor -> Key]
  /\ outcome \in [Actor -> Outcome]
  /\ uuids \in Nat
  /\ allocated \in [Subject -> SUBSET Dir] /\ unlocked \subseteq Subject
  /\ cut \subseteq Subject
  /\ ops \in 0..MaxOps /\ killed \in 0..MaxKilled

BindingInit ==
  \* Directory 0 may hold a store cloned from another machine.
  /\ \E n \in {0, 1} :
       /\ made = [d \in Dir |-> IF d < n THEN "store" ELSE "absent"]
       /\ manifest = [d \in Dir |-> IF d < n THEN d ELSE Nil]
       /\ uuids = n
  /\ uuidKey = [s \in Subject |-> Nil] /\ idKey = [s \in Subject |-> Nil]
  /\ allocation = Nil
  /\ step = [a \in Actor |-> "rest"]
  /\ subject = [a \in Actor |-> Nil]
  /\ seen = [a \in Actor |-> Nil]
  /\ target = [a \in Actor |-> Nil]
  /\ outcome = [a \in Actor |-> "none"]
  /\ allocated = [s \in Subject |-> {}] /\ unlocked = {} /\ cut = {}
  /\ ops = 0 /\ killed = 0

-----------------------------------------------------------------------------

At(a, p) == step[a] = p
Move(a, p) == step' = [step EXCEPT ![a] = p]

Done(a, o) ==
  /\ Move(a, "rest")
  /\ outcome' = [outcome EXCEPT ![a] = o]
  /\ subject' = [subject EXCEPT ![a] = Nil]
  /\ seen' = [seen EXCEPT ![a] = Nil]
  /\ target' = [target EXCEPT ![a] = Nil]
  /\ allocation' = IF allocation = a THEN Nil ELSE allocation

\* The keys name a directory whose manifest confirms both.
Confirmed(keys) ==
  /\ keys.id \in Dir
  /\ made[keys.id] = "store"
  /\ manifest[keys.id] = keys.uuid

Verdict(keys) ==
  IF keys.uuid = Nil /\ keys.id = Nil THEN "unbound"
  ELSE IF keys.uuid = Nil \/ keys.id = Nil THEN "partial"
  ELSE IF Confirmed(keys) THEN "store"
  ELSE IF keys.id \in Dir /\ made[keys.id] = "store" THEN "mismatch" ELSE "unproven"

Begun(a, s, p, d) ==
  /\ At(a, "rest")
  /\ ops < MaxOps
  /\ ops' = ops + 1
  /\ Move(a, p)
  /\ subject' = [subject EXCEPT ![a] = s]
  /\ target' = [target EXCEPT ![a] = d]
  /\ outcome' = [outcome EXCEPT ![a] = "none"]
  /\ UNCHANGED <<storeVars, seen, allocation, allocated, unlocked, cut, killed>>

\* ensure_project_store; project_store_for_inbox, and bound_project_store,
\* which reads alike; bind_existing_store of a store it has validated.
StartEnsure(a) == \E s \in Subject : Begun(a, s, "lock", Nil)
StartInbox(a) == \E s \in Subject : Begun(a, s, "inbox", Nil)
StartBind(a) == \E s \in Subject, d \in Dir : made[d] = "store" /\ Begun(a, s, "bind", d)

\* Mutant: allocations are not kept apart.
TakeNoAllocation(a) ==
  /\ At(a, "lock")
  /\ Move(a, "uuid")
  /\ UNCHANGED <<storeVars, allocation, subject, seen, target, outcome, allocated, unlocked, cut, ops, killed>>

TakeAllocation(a) ==
  /\ At(a, "lock")
  /\ allocation = Nil
  /\ allocation' = a
  /\ Move(a, "uuid")
  /\ UNCHANGED <<storeVars, subject, seen, target, outcome, allocated, unlocked, cut, ops, killed>>

\* The keys are read one after the other.
ReadUuid(a) ==
  /\ At(a, "uuid") \/ At(a, "inbox")
  /\ seen' = [seen EXCEPT ![a] = uuidKey[subject[a]]]
  /\ Move(a, IF At(a, "uuid") THEN "id" ELSE "inbox id")
  /\ UNCHANGED <<storeVars, subject, target, outcome, allocation, allocated, unlocked, cut, ops, killed>>

\* The allocation lock held: keep a binding, or go on to make a store.
ReadId(a) ==
  /\ At(a, "id")
  /\ LET keys == [uuid |-> seen[a], id |-> idKey[subject[a]]] IN
       IF keys = NoKeys
       THEN /\ Move(a, "mkdir")
            /\ target' = [target EXCEPT ![a] = 0]
            /\ UNCHANGED <<subject, seen, outcome, allocation>>
       ELSE Done(a, Verdict(keys))
  /\ UNCHANGED <<storeVars, allocated, unlocked, cut, ops, killed>>

\* A hook that finds no complete pair ensures a store; with one whose
\* checkout is gone it queues all the same.
ReadInboxId(a) ==
  /\ At(a, "inbox id")
  /\ LET keys == [uuid |-> seen[a], id |-> idKey[subject[a]]] IN
       IF Verdict(keys) \in {"unbound", "partial"}
       THEN /\ Move(a, "lock")
            /\ seen' = [seen EXCEPT ![a] = Nil]
            /\ UNCHANGED <<subject, target, outcome, allocation>>
       ELSE Done(a, Verdict(keys))
  /\ UNCHANGED <<storeVars, allocated, unlocked, cut, ops, killed>>

\* The first directory nobody has made, in the order of the suffixes.
MakeDirectory(a) ==
  /\ At(a, "mkdir")
  /\ target[a] \in Dir
  /\ IF made[target[a]] = "absent"
     THEN /\ made' = [made EXCEPT ![target[a]] = "empty"]
          /\ allocated' = [allocated EXCEPT ![subject[a]] = @ \cup {target[a]}]
          /\ Move(a, "init")
          /\ UNCHANGED target
     ELSE /\ target' = [target EXCEPT ![a] = @ + 1]
          /\ UNCHANGED <<made, allocated, step>>
  /\ UNCHANGED <<manifest, uuidKey, idKey, uuids, subject, seen, outcome, allocation,
                 unlocked, cut, ops, killed>>

\* git init.
InitRepository(a) ==
  /\ At(a, "init")
  /\ made' = [made EXCEPT ![target[a]] = "repository"]
  /\ Move(a, "commit")
  /\ UNCHANGED <<manifest, uuidKey, idKey, uuids, subject, seen, target, outcome, allocation,
                 allocated, unlocked, cut, ops, killed>>

\* Manifest, README and the first commit.
CommitStore(a) ==
  /\ At(a, "commit")
  /\ made' = [made EXCEPT ![target[a]] = "store"]
  /\ manifest' = [manifest EXCEPT ![target[a]] = uuids]
  /\ uuids' = uuids + 1
  /\ Move(a, "setuuid")
  /\ UNCHANGED <<uuidKey, idKey, subject, seen, target, outcome, allocation,
                 allocated, unlocked, cut, ops, killed>>

\* bind_existing_store refuses a subject that is completely bound elsewhere,
\* by a look at keys that may change before it writes.
CheckBinding(a) ==
  /\ At(a, "bind")
  /\ LET keys == [uuid |-> uuidKey[subject[a]], id |-> idKey[subject[a]]] IN
       IF /\ keys.uuid /= Nil /\ keys.id /= Nil
          /\ keys /= [uuid |-> manifest[target[a]], id |-> target[a]]
       THEN Done(a, "mismatch") /\ UNCHANGED unlocked
       ELSE /\ Move(a, "bind uuid")
            /\ unlocked' = unlocked \cup {subject[a]}
            /\ UNCHANGED <<subject, seen, target, outcome, allocation>>
  /\ UNCHANGED <<storeVars, allocated, cut, ops, killed>>

SetUuid(a) ==
  /\ At(a, "setuuid") \/ At(a, "bind uuid")
  /\ uuidKey' = [uuidKey EXCEPT ![subject[a]] = manifest[target[a]]]
  /\ Move(a, IF At(a, "setuuid") THEN "setid" ELSE "bind id")
  /\ UNCHANGED <<made, manifest, idKey, uuids, subject, seen, target, outcome, allocation,
                 allocated, unlocked, cut, ops, killed>>

\* The binding is complete, and read back from the manifest.
SetId(a) ==
  /\ At(a, "setid") \/ At(a, "bind id")
  /\ idKey' = [idKey EXCEPT ![subject[a]] = target[a]]
  /\ Done(a, "store")
  /\ UNCHANGED <<made, manifest, uuidKey, uuids, allocated, unlocked, cut, ops, killed>>

\* The process is killed; the kernel releases its lock.
KillActor(a) ==
  /\ ~At(a, "rest")
  /\ killed < MaxKilled
  /\ killed' = killed + 1
  /\ cut' = IF At(a, "setid") \/ At(a, "bind id") THEN cut \cup {subject[a]} ELSE cut
  /\ Done(a, "none")
  /\ UNCHANGED <<storeVars, allocated, unlocked, ops>>

ActorStep(a) ==
  \/ TakeAllocation(a) \/ ReadUuid(a) \/ ReadId(a) \/ ReadInboxId(a)
  \/ MakeDirectory(a) \/ InitRepository(a) \/ CommitStore(a)
  \/ CheckBinding(a) \/ SetUuid(a) \/ SetId(a)

BindingNext ==
  \E a \in Actor :
    \/ StartEnsure(a) \/ StartInbox(a) \/ StartBind(a)
    \/ ActorStep(a) \/ KillActor(a)

BindingSpec == BindingInit /\ [][BindingNext]_bindingVars

-----------------------------------------------------------------------------
(* Properties.                                                             *)

Resting(s) == \A a \in Actor : subject[a] /= s

\* A subject nobody is working on is bound to a complete store whose manifest
\* confirms both keys, or not at all.  Only a process killed between the two
\* keys leaves half a binding, and only a bind_existing_store in the middle of
\* an allocation can leave two keys that do not belong together.
BindingProven ==
  \A s \in Subject :
    (Resting(s) /\ s \notin cut \cup unlocked) =>
      Verdict([uuid |-> uuidKey[s], id |-> idKey[s]]) \in {"unbound", "store"}

\* No two subjects come to share a store, and none is given a second one,
\* except through an explicit binding or after a kill.
StoresApart ==
  \A s \in Subject :
    /\ s \notin unlocked =>
         \A t \in Subject \ (unlocked \cup {s}) : idKey[s] /= Nil => idKey[s] /= idKey[t]
    /\ killed = 0 => Cardinality(allocated[s]) <= 1

\* project_store.rs: what a binding proves, and that no two subjects are bound
\* to one store that was allocated for one of them.
BindingSafe == BindingProven /\ StoresApart
===============================================================================
