---------------------------- MODULE SessionLedger ----------------------------
(***************************************************************************)
(* The per-session injection ledger (src/src/ledger.rs): what a hook may   *)
(* still tell a session.  Every hook is a process of its own.  It opens    *)
(* the session's file (creating it), takes its flock, drops from its body  *)
(* what the file already holds, appends the rest, unlocks, prunes the      *)
(* ledgers of old sessions, and only then prints what it committed.        *)
(*                                                                         *)
(* A file can be unlinked by another hook's pruning while a hook waits for *)
(* its lock: the waiter then works on an inode no path leads to.  An       *)
(* append can break off half way (a full disk); what is torn is not parsed *)
(* any more, and takes the next record appended behind it along.           *)
(*                                                                         *)
(* A line stands for a body line with one citation, FactOf[line] for the   *)
(* source and the line range it cites.  A body is a set of lines: their    *)
(* order only says which of those that cite one fact stays, here any.      *)
(***************************************************************************)
EXTENDS Integers, Sequences, FiniteSets

CONSTANTS
  Hook,        \* hook processes
  Session,
  Line,
  Fact,
  FactOf,      \* the fact a line cites
  None,        \* no session, no hook
  Retention,   \* ledgers kept by pruning (SESSION_LEDGER_FILE_RETENTION)
  MaxPrompts,  \* bound: proposals
  MaxTears,    \* bound: appends that break off
  MaxDeaths    \* bound: hooks killed

ASSUME LedgerAssumption ==
  /\ FactOf \in [Line -> Fact]
  /\ None \notin Session \cup Hook
  /\ IsFiniteSet(Hook)
  /\ Retention \in Nat \ {0}
  /\ MaxPrompts \in Nat /\ MaxTears \in Nat /\ MaxDeaths \in Nat

VARIABLES
  inode,     \* of each session, the files its path ever led to, oldest first
  linked,    \* the one it leads to now, 0 if there is no file
  newer,     \* <<s, t>>: the file of s was modified after that of t
  pc,        \* of each hook: where it is
  session,   \* the session it answers
  fd,        \* the file it has opened
  body,      \* what it proposes, then what is left of it
  victims,   \* the sessions whose ledgers it is about to remove
  delivered, \* how often each fact was printed to each session
  damage,    \* how often a session's ledger was removed or torn
  prompts, tears, deaths

fileVars == <<inode, linked, newer>>
hookVars == <<pc, session, fd, body, victims>>
boundVars == <<prompts, tears, deaths>>
ledgerVars == <<fileVars, hookVars, delivered, damage, boundVars>>

-----------------------------------------------------------------------------
(* Type.                                                                   *)

Inode == [known : SUBSET Line,
          tail : {"whole", "torn", "garbled"},
          holder : Hook \cup {None}]

NewInode == [known |-> {}, tail |-> "whole", holder |-> None]

\* Places at which a hook holds the lock of the file it has opened.
Locked == {"decide", "append"}

Place == {"idle", "open", "lock", "prune", "remove", "emit"} \cup Locked

TypeOK ==
  /\ inode \in [Session -> Seq(Inode)]
  /\ linked \in [Session -> Nat]
  /\ newer \subseteq Session \X Session
  /\ pc \in [Hook -> Place]
  /\ session \in [Hook -> Session \cup {None}]
  /\ fd \in [Hook -> Nat]
  /\ body \in [Hook -> SUBSET Line]
  /\ victims \in [Hook -> SUBSET Session]
  /\ delivered \in [Session -> [Fact -> Nat]]
  /\ damage \in [Session -> Nat]
  /\ prompts \in Nat /\ tears \in Nat /\ deaths \in Nat

-----------------------------------------------------------------------------
(* The files.                                                              *)

Opened(h) == inode[session[h]][fd[h]]

\* The sessions whose paths lead to a file.
Ledgers == {s \in Session : linked[s] /= 0}

\* The ages of the files when s has none.
Without(s) == {pair \in newer : s \notin {pair[1], pair[2]}}

\* The file of s is the most recent ledger of the directory.
Newest(s) == newer' = Without(s) \cup ({s} \X (Ledgers \ {s}))

\* Writing to a file that a path leads to makes it the newest.
Touch(h) ==
  IF linked[session[h]] = fd[h] THEN Newest(session[h]) ELSE UNCHANGED newer

Write(h, file) == inode' = [inode EXCEPT ![session[h]][fd[h]] = file]

\* What a hook may propose.
Body == (SUBSET Line) \ {{}}

FactsIn(lines) == {FactOf[x] : x \in lines}

\* Mutant: only lines that are alike word for word are dropped.
UniqueLines(known, proposed) == {proposed \ known}

\* Lines already in the ledger, and lines that cite a fact some line cites
\* that is in the ledger or kept before them, are dropped: what may be left.
Unique(known, proposed) ==
  {kept \in SUBSET proposed :
     /\ FactsIn(kept) = FactsIn(proposed) \ FactsIn(known)
     /\ \A x, y \in kept : FactOf[x] = FactOf[y] => x = y}

-----------------------------------------------------------------------------
(* Actions.                                                                *)

Init ==
  /\ inode = [s \in Session |-> <<>>]
  /\ linked = [s \in Session |-> 0]
  /\ newer = {}
  /\ pc = [h \in Hook |-> "idle"]
  /\ session = [h \in Hook |-> None]
  /\ fd = [h \in Hook |-> 0]
  /\ body = [h \in Hook |-> {}]
  /\ victims = [h \in Hook |-> {}]
  /\ delivered = [s \in Session |-> [f \in Fact |-> 0]]
  /\ damage = [s \in Session |-> 0]
  /\ prompts = 0 /\ tears = 0 /\ deaths = 0

Goto(h, place) == pc' = [pc EXCEPT ![h] = place]

\* The hook ends: without a word, or after it has printed.
Finish(h) ==
  /\ Goto(h, "idle")
  /\ session' = [session EXCEPT ![h] = None]
  /\ fd' = [fd EXCEPT ![h] = 0]
  /\ body' = [body EXCEPT ![h] = {}]
  /\ victims' = [victims EXCEPT ![h] = {}]

\* A hook has one of these bodies to commit.  Without a session there is no
\* ledger to keep and it is printed as it is.
Propose(h, s, bodies) ==
  /\ pc[h] = "idle"
  /\ prompts < MaxPrompts
  /\ prompts' = prompts + 1
  /\ session' = [session EXCEPT ![h] = s]
  /\ \E b \in bodies : body' = [body EXCEPT ![h] = b]
  /\ Goto(h, IF s = None THEN "emit" ELSE "open")
  /\ UNCHANGED <<fileVars, fd, victims, delivered, damage, tears, deaths>>

\* LockedLedger::open opens the session's file, or creates it.
Open(h) ==
  /\ pc[h] = "open"
  /\ LET s == session[h] IN
       IF linked[s] /= 0
       THEN /\ fd' = [fd EXCEPT ![h] = linked[s]]
            /\ UNCHANGED fileVars
       ELSE /\ inode' = [inode EXCEPT ![s] = Append(@, NewInode)]
            /\ linked' = [linked EXCEPT ![s] = Len(inode[s]) + 1]
            /\ Newest(s)
            /\ fd' = [fd EXCEPT ![h] = Len(inode[s]) + 1]
  /\ Goto(h, "lock")
  /\ UNCHANGED <<session, body, victims, delivered, damage, boundVars>>

\* The directory or the file cannot be made: the hook fails closed.
OpenFails(h) ==
  /\ pc[h] = "open"
  /\ Finish(h)
  /\ UNCHANGED <<fileVars, delivered, damage, boundVars>>

Lock(h) ==
  /\ pc[h] = "lock"
  /\ Opened(h).holder = None
  /\ Write(h, [Opened(h) EXCEPT !.holder = h])
  /\ Goto(h, "decide")
  /\ UNCHANGED <<linked, newer, session, fd, body, victims, delivered, damage, boundVars>>

\* The ledger is read and what was delivered is suppressed.
Decide(h) ==
  /\ pc[h] = "decide"
  /\ Opened(h).tail /= "garbled"
  /\ \E kept \in Unique(Opened(h).known, body[h]) \ {{}} :
       body' = [body EXCEPT ![h] = kept]
  /\ Goto(h, "append")
  /\ UNCHANGED <<fileVars, session, fd, victims, delivered, damage, boundVars>>

\* Nothing is left, or a torn character keeps the file from being read.
NothingLeft(h) ==
  /\ pc[h] = "decide"
  /\ \/ Opened(h).tail = "garbled"
     \/ {} \in Unique(Opened(h).known, body[h])
  /\ Write(h, [Opened(h) EXCEPT !.holder = None])
  /\ Finish(h)
  /\ UNCHANGED <<linked, newer, delivered, damage, boundVars>>

\* The record is written behind what is there.  Behind a torn record it makes
\* one unparsable line with it.
AppendRecord(h) ==
  /\ pc[h] = "append"
  /\ Write(h, [known |-> IF Opened(h).tail = "whole"
                         THEN Opened(h).known \cup body[h]
                         ELSE Opened(h).known,
               tail |-> "whole",
               holder |-> None])
  /\ Touch(h)
  /\ Goto(h, "prune")
  /\ UNCHANGED <<linked, session, fd, body, victims, delivered, damage, boundVars>>

\* The write breaks off: the hook fails closed and leaves what it wrote.
TearRecord(h) ==
  /\ pc[h] = "append"
  /\ tears < MaxTears
  /\ tears' = tears + 1
  /\ \E tail \in {"torn", "garbled"} :
       Write(h, [Opened(h) EXCEPT !.tail = tail, !.holder = None])
  /\ damage' = [damage EXCEPT ![session[h]] = @ + 1]
  /\ Touch(h)
  /\ Finish(h)
  /\ UNCHANGED <<linked, delivered, prompts, deaths>>

\* The ledgers to remove: all but the newest, counting the hook's own among
\* those kept if it is still there.
Victims(own) ==
  LET others == Ledgers \ {own}
      keep == IF own \in Ledgers THEN Retention - 1 ELSE Retention
  IN {s \in others : Cardinality({t \in others : <<t, s>> \in newer}) >= keep}

\* The directory is listed with the modification times as they are now.
Prune(h) ==
  /\ pc[h] = "prune"
  /\ victims' = [victims EXCEPT ![h] = Victims(session[h])]
  /\ Goto(h, "remove")
  /\ UNCHANGED <<fileVars, session, fd, body, delivered, damage, boundVars>>

\* One path after the other is unlinked, whatever file it leads to by now.
RemoveLedger(h) ==
  /\ pc[h] = "remove"
  /\ \E s \in victims[h] :
       /\ victims' = [victims EXCEPT ![h] = @ \ {s}]
       /\ linked' = [linked EXCEPT ![s] = 0]
       /\ newer' = Without(s)
       /\ damage' = [damage EXCEPT ![s] = @ + (IF linked[s] /= 0 THEN 1 ELSE 0)]
  /\ UNCHANGED <<inode, pc, session, fd, body, delivered, boundVars>>

PruneDone(h) ==
  /\ pc[h] = "remove"
  /\ victims[h] = {}
  /\ Goto(h, "emit")
  /\ UNCHANGED <<fileVars, session, fd, body, victims, delivered, damage, boundVars>>

\* What was committed is printed.
Emit(h) ==
  /\ pc[h] = "emit"
  /\ delivered' =
       [s \in Session |-> [f \in Fact |->
          delivered[s][f] +
            IF s = session[h]
            THEN Cardinality({x \in body[h] : FactOf[x] = f})
            ELSE 0]]
  /\ Finish(h)
  /\ UNCHANGED <<fileVars, damage, boundVars>>

\* A hook is killed (the harness' own deadline): its lock goes with it.
Die(h) ==
  /\ pc[h] /= "idle"
  /\ deaths < MaxDeaths
  /\ deaths' = deaths + 1
  /\ IF pc[h] \in Locked
     THEN Write(h, [Opened(h) EXCEPT !.holder = None])
     ELSE UNCHANGED inode
  /\ Finish(h)
  /\ UNCHANGED <<linked, newer, delivered, damage, prompts, tears>>

\* Everything between a proposal and its printing.
CommitStep(h) ==
  \/ Open(h) \/ OpenFails(h) \/ Lock(h)
  \/ Decide(h) \/ NothingLeft(h)
  \/ AppendRecord(h) \/ TearRecord(h)
  \/ Prune(h) \/ RemoveLedger(h) \/ PruneDone(h)
  \/ Die(h)

Next ==
  \E h \in Hook :
    \/ \E s \in Session \cup {None} : Propose(h, s, Body)
    \/ CommitStep(h)
    \/ Emit(h)

Spec == Init /\ [][Next]_ledgerVars

-----------------------------------------------------------------------------
(* Properties.                                                             *)

\* A fact is told to a session once, and once more at most for each time the
\* session's ledger was removed by a pruning or torn by a full disk, whatever
\* hooks of the session run at the same time or die.
RepeatsNeedDamage ==
  \A s \in Session, f \in Fact : delivered[s][f] <= 1 + damage[s]

\* While its ledger is intact, a session is told nothing twice.
IntactNeverRepeats ==
  \A s \in Session : damage[s] = 0 => \A f \in Fact : delivered[s][f] <= 1

\* What a session was told is in its ledger while that is intact: no hook
\* prints before its record is written, and none is forgotten.
ToldIsRecorded ==
  \A s \in Session : damage[s] = 0 =>
    \A f \in Fact : delivered[s][f] > 0 =>
      /\ linked[s] = 1
      /\ f \in FactsIn(inode[s][1].known)

\* ledger.rs: a session is told a fact again only for each time its ledger was
\* damaged, and what it was told is in its ledger while that is intact.
LedgerSafe == RepeatsNeedDamage /\ IntactNeverRepeats /\ ToldIsRecorded
=============================================================================
