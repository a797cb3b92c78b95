--------------------------- MODULE PromptHook_proofs ---------------------------
(***************************************************************************)
(* Proofs about SessionLedger and about PromptHook, which extends it.      *)
(*                                                                         *)
(* SessionLedger, for any hooks, sessions, lines and facts and any number  *)
(* of prompts, torn records and deaths.  A fact told twice is in two files *)
(* of the session, or in one of them in spite of a torn record, and every  *)
(* file but the last was unlinked: BoundInv counts them.                   *)
(*                                                                         *)
(* PromptHook, for any hooks, sessions, sources and keys and any ranking   *)
(* of the keys.  What a hook commits descends step by step from the        *)
(* sources that had evidence (SourceInv); a hook is in SessionLedger       *)
(* exactly as long as it commits (CommitInv), which makes what is proved   *)
(* of SessionLedger true of the prompts.                                   *)
(***************************************************************************)
EXTENDS PromptHook, TLAPS, FiniteSetTheorems, SequenceTheorems

(***************************************************************************)
(* SessionLedger.                                                          *)
(***************************************************************************)

\* A session's path leads to one of its files or to none; a hook that waits for
\* a lock has opened a file of its session, and one that has it is the holder.
Committing == {"open", "lock", "prune", "remove"} \cup Locked

FileInv ==
  /\ \A s \in Session : linked[s] \in 0..Len(inode[s])
  /\ \A h \in Hook : pc[h] \in Committing => session[h] \in Session
  /\ \A h \in Hook : pc[h] \in {"lock"} \cup Locked => fd[h] \in DOMAIN inode[session[h]]
  /\ \A h \in Hook : pc[h] \in Locked => Opened(h).holder = h

Written == {"prune", "remove", "emit"}

\* What a hook is about to write is not in the file whose lock it holds; what it
\* has written cites each fact once.
BodyInv ==
  \A h \in Hook :
    /\ pc[h] = "append" => FactsIn(body[h]) \cap FactsIn(Opened(h).known) = {}
    /\ pc[h] \in {"append"} \cup Written /\ session[h] /= None =>
         \A x, y \in body[h] : FactOf[x] = FactOf[y] => x = y

\* The files of a session that hold a fact, that have a torn record, that its
\* path does not lead to, and the hooks that have written the fact and not
\* printed it.
Holding(s, f) == {n \in DOMAIN inode[s] : f \in FactsIn(inode[s][n].known)}
Broken(s) == {n \in DOMAIN inode[s] : inode[s][n].tail /= "whole"}
Unlinked(s) == DOMAIN inode[s] \ {linked[s]}
Pending(s, f) ==
  {h \in Hook : session[h] = s /\ pc[h] \in Written /\ f \in FactsIn(body[h])}

\* Each telling of a fact, done or to come, has a file that holds it or damage
\* that lost it; damage also pays for what is torn and unlinked now.
BoundInv ==
  \A s \in Session, f \in Fact :
    delivered[s][f] + Cardinality(Pending(s, f))
        + Cardinality(Broken(s)) + Cardinality(Unlinked(s))
      <= damage[s] + Cardinality(Holding(s, f))

\* An intact session has had one file at most, and it is there and whole.
IntactInv ==
  \A s \in Session : damage[s] = 0 =>
    /\ linked[s] = Len(inode[s]) /\ Len(inode[s]) <= 1
    /\ \A n \in DOMAIN inode[s] : inode[s][n].tail = "whole"

\* What an intact session was told, or is about to be, is in that file.
ToldInv ==
  \A s \in Session : damage[s] = 0 =>
    \A f \in Fact : delivered[s][f] > 0 \/ Pending(s, f) /= {} =>
      /\ linked[s] = 1
      /\ f \in FactsIn(inode[s][1].known)

LedgerInv ==
  /\ TypeOK
  /\ FileInv
  /\ BodyInv
  /\ BoundInv
  /\ IntactInv
  /\ ToldInv

-----------------------------------------------------------------------------
(* Operators.                                                              *)

\* Records of files.
LEMMA Records ==
  /\ NewInode \in Inode
  /\ NewInode.known = {} /\ NewInode.tail = "whole"
  /\ \A file \in Inode, h \in Hook \cup {None} :
       /\ [file EXCEPT !.holder = h] \in Inode
       /\ [file EXCEPT !.holder = h].known = file.known
       /\ [file EXCEPT !.holder = h].tail = file.tail
       /\ [file EXCEPT !.holder = h].holder = h
  /\ \A file \in Inode, tail \in {"torn", "garbled"} :
       /\ [file EXCEPT !.tail = tail, !.holder = None] \in Inode
       /\ [file EXCEPT !.tail = tail, !.holder = None].known = file.known
       /\ [file EXCEPT !.tail = tail, !.holder = None].holder = None
BY DEF NewInode, Inode

\* A session's files are numbered from 1.
LEMMA Files ==
  ASSUME TypeOK, NEW s \in Session
  PROVE  /\ Len(inode[s]) \in Nat
         /\ DOMAIN inode[s] = 1..Len(inode[s])
         /\ IsFiniteSet(DOMAIN inode[s])
         /\ \A n \in 1..Len(inode[s]) : inode[s][n] \in Inode
<1>1. inode[s] \in Seq(Inode)
  BY DEF TypeOK
<1>2. Len(inode[s]) \in Nat /\ DOMAIN inode[s] = 1..Len(inode[s])
  BY <1>1, LenProperties
<1>3. QED
  BY <1>1, <1>2, ElementOfSeq, FS_Interval

\* Writing changes the file that the hook has opened, and no other.
LEMMA WriteOne ==
  ASSUME TypeOK, NEW h \in Hook, NEW file \in Inode,
         session[h] \in Session, fd[h] \in DOMAIN inode[session[h]],
         Write(h, file)
  PROVE  /\ inode' \in [Session -> Seq(Inode)]
         /\ \A s \in Session : Len(inode'[s]) = Len(inode[s])
         /\ \A s \in Session : \A n \in 1..Len(inode[s]) :
              inode'[s][n] = IF s = session[h] /\ n = fd[h] THEN file ELSE inode[s][n]
<1>1. fd[h] \in 1..Len(inode[session[h]]) /\ inode[session[h]] \in Seq(Inode)
  BY Files DEF TypeOK
<1> DEFINE new == [inode[session[h]] EXCEPT ![fd[h]] = file]
<1>2. /\ new \in Seq(Inode) /\ Len(new) = Len(inode[session[h]])
      /\ \A n \in 1..Len(inode[session[h]]) :
           new[n] = IF n = fd[h] THEN file ELSE inode[session[h]][n]
  BY <1>1, ExceptSeq
<1>3. inode' = [inode EXCEPT ![session[h]] = new]
  BY DEF Write
<1> HIDE DEF new
<1>4. QED
  BY <1>2, <1>3 DEF TypeOK

\* How the size of a set follows its elements.
LEMMA Shrinks ==
  ASSUME NEW S, IsFiniteSet(S), NEW T \in SUBSET S
  PROVE  /\ IsFiniteSet(T) /\ Cardinality(T) \in Nat /\ Cardinality(S) \in Nat
         /\ Cardinality(T) <= Cardinality(S)
         /\ \A x \in S : x \notin T => Cardinality(T) + 1 <= Cardinality(S)
<1>1. IsFiniteSet(T) /\ Cardinality(T) <= Cardinality(S)
  BY FS_Subset
<1>2. Cardinality(T) \in Nat /\ Cardinality(S) \in Nat
  BY <1>1, FS_CardinalityType
<1>3. ASSUME NEW x \in S, x \notin T PROVE Cardinality(T) + 1 <= Cardinality(S)
  <2>1. /\ IsFiniteSet(S \ {x}) /\ Cardinality(S \ {x}) = Cardinality(S) - 1
    BY <1>3, FS_RemoveElement
  <2>2. T \in SUBSET (S \ {x})
    BY <1>3
  <2>3. Cardinality(T) <= Cardinality(S \ {x})
    BY <2>1, <2>2, FS_Subset
  <2>4. QED
    BY <1>2, <2>1, <2>3
<1>4. QED
  BY <1>1, <1>2, <1>3

\* A part of a finite set with one more element is finite, and not much larger.
LEMMA Grows ==
  ASSUME NEW S, IsFiniteSet(S), NEW x, NEW T \in SUBSET (S \cup {x})
  PROVE  IsFiniteSet(T) /\ Cardinality(T) \in Nat /\ Cardinality(T) <= Cardinality(S) + 1
<1>1. /\ IsFiniteSet(S \cup {x}) /\ Cardinality(S) \in Nat
      /\ Cardinality(S \cup {x}) \in {Cardinality(S), Cardinality(S) + 1}
  BY FS_AddElement, FS_CardinalityType
<1>2. /\ IsFiniteSet(T) /\ Cardinality(T) \in Nat
      /\ Cardinality(T) <= Cardinality(S \cup {x})
  BY <1>1, FS_Subset, FS_CardinalityType
<1>3. QED
  BY <1>1, <1>2

\* The sets that BoundInv counts are finite.
LEMMA Counted ==
  ASSUME TypeOK, NEW s \in Session, NEW f \in Fact
  PROVE  /\ IsFiniteSet(Holding(s, f)) /\ Cardinality(Holding(s, f)) \in Nat
         /\ IsFiniteSet(Broken(s)) /\ Cardinality(Broken(s)) \in Nat
         /\ IsFiniteSet(Unlinked(s)) /\ Cardinality(Unlinked(s)) \in Nat
         /\ IsFiniteSet(Pending(s, f)) /\ Cardinality(Pending(s, f)) \in Nat
         /\ delivered[s][f] \in Nat /\ damage[s] \in Nat
<1>1. IsFiniteSet(DOMAIN inode[s]) /\ IsFiniteSet(Hook)
  BY Files, LedgerAssumption
<1>2. /\ Holding(s, f) \in SUBSET (DOMAIN inode[s]) /\ Broken(s) \in SUBSET (DOMAIN inode[s])
      /\ Unlinked(s) \in SUBSET (DOMAIN inode[s]) /\ Pending(s, f) \in SUBSET Hook
  BY DEF Holding, Broken, Unlinked, Pending
<1>3. QED
  BY <1>1, <1>2, FS_Subset, FS_CardinalityType DEF TypeOK

-----------------------------------------------------------------------------
(* Types, files and locks.                                                 *)

\* The initial state satisfies the invariant.
LEMMA InitLedger == Init => LedgerInv
<1> SUFFICES ASSUME Init PROVE LedgerInv
  OBVIOUS
<1> USE LedgerAssumption DEF Init
<1>1. TypeOK
  BY DEF TypeOK, Place
<1>2. FileInv /\ BodyInv /\ IntactInv
  BY DEF FileInv, BodyInv, IntactInv, Committing, Written, Locked
<1>3. BoundInv /\ ToldInv
  <2> SUFFICES ASSUME NEW s \in Session, NEW f \in Fact
               PROVE  /\ delivered[s][f] + Cardinality(Pending(s, f))
                           + Cardinality(Broken(s)) + Cardinality(Unlinked(s))
                         <= damage[s] + Cardinality(Holding(s, f))
                      /\ ~(delivered[s][f] > 0 \/ Pending(s, f) /= {})
    BY DEF BoundInv, ToldInv
  <2>1. /\ Pending(s, f) = {} /\ Broken(s) = {} /\ Unlinked(s) = {}
        /\ Holding(s, f) = {} /\ delivered[s][f] = 0 /\ damage[s] = 0
    BY DEF Pending, Broken, Unlinked, Holding, Written
  <2>2. QED
    BY <2>1, FS_EmptySet
<1>4. QED
  BY <1>1, <1>2, <1>3 DEF LedgerInv

\* A hook that ends leaves the others alone.
LEMMA Finishes ==
  ASSUME TypeOK, NEW h \in Hook, Finish(h)
  PROVE  /\ pc' \in [Hook -> Place] /\ pc'[h] = "idle"
         /\ session' \in [Hook -> Session \cup {None}] /\ session'[h] = None
         /\ fd' \in [Hook -> Nat]
         /\ body' \in [Hook -> SUBSET Line]
         /\ victims' \in [Hook -> SUBSET Session]
         /\ \A g \in Hook \ {h} : /\ pc'[g] = pc[g] /\ session'[g] = session[g]
                                  /\ fd'[g] = fd[g] /\ body'[g] = body[g]
BY DEF Finish, Goto, TypeOK, Place

\* Working on its file a hook changes no other hook's: they all have their own
\* or wait.
LEMMA WriteFiles ==
  ASSUME TypeOK, FileInv, BodyInv, NEW h \in Hook, NEW file \in Inode,
         pc[h] \in {"lock"} \cup Locked,
         Write(h, file), linked' = linked,
         pc[h] = "lock" => Opened(h).holder = None
  PROVE  /\ inode' \in [Session -> Seq(Inode)]
         /\ \A s \in Session : /\ Len(inode'[s]) = Len(inode[s])
                               /\ DOMAIN inode'[s] = DOMAIN inode[s]
         /\ \A s \in Session : \A n \in DOMAIN inode[s] :
              inode'[s][n] = IF s = session[h] /\ n = fd[h] THEN file ELSE inode[s][n]
         /\ \A s \in Session : linked'[s] \in 0..Len(inode'[s])
         /\ session[h] \in Session /\ fd[h] \in DOMAIN inode[session[h]]
         /\ Opened(h) \in Inode
         /\ \A g \in Hook \ {h} : pc[g] \in {"lock"} \cup Locked =>
              /\ session[g] \in Session
              /\ fd[g] \in DOMAIN inode[session[g]]
              /\ pc[g] \in Locked =>
                   inode'[session[g]][fd[g]] = Opened(g) /\ Opened(g).holder = g
<1>1. /\ session[h] \in Session /\ fd[h] \in DOMAIN inode[session[h]]
      /\ Opened(h) \in Inode
  BY Files DEF FileInv, Committing, Opened
<1>2. /\ inode' \in [Session -> Seq(Inode)]
      /\ \A s \in Session : Len(inode'[s]) = Len(inode[s])
      /\ \A s \in Session : \A n \in 1..Len(inode[s]) :
           inode'[s][n] = IF s = session[h] /\ n = fd[h] THEN file ELSE inode[s][n]
  BY <1>1, WriteOne
<1>3. \A s \in Session : DOMAIN inode[s] = 1..Len(inode[s])
  BY Files
<1>4. \A s \in Session : DOMAIN inode'[s] = 1..Len(inode'[s])
  BY <1>2, LenProperties
<1>5. ASSUME NEW g \in Hook \ {h}, pc[g] \in {"lock"} \cup Locked
      PROVE  /\ session[g] \in Session /\ fd[g] \in DOMAIN inode[session[g]]
             /\ pc[g] \in Locked =>
                  inode'[session[g]][fd[g]] = Opened(g) /\ Opened(g).holder = g
  <2>1. session[g] \in Session /\ fd[g] \in DOMAIN inode[session[g]]
    BY <1>5 DEF FileInv, Committing
  <2>2. ASSUME pc[g] \in Locked PROVE ~(session[g] = session[h] /\ fd[g] = fd[h])
    <3>1. Opened(g).holder = g /\ Opened(h).holder \in {h, None} /\ g \notin {h, None}
      BY <2>2, LedgerAssumption DEF FileInv
    <3>2. QED
      BY <3>1 DEF Opened
  <2>3. QED
    BY <1>2, <1>3, <2>1, <2>2 DEF FileInv, Opened
<1>6. QED
  BY <1>1, <1>2, <1>3, <1>4, <1>5 DEF FileInv

\* Steps that touch no file.
LEMMA ReaderSteps ==
  ASSUME TypeOK, FileInv, BodyInv, NEW h \in Hook,
         \/ \E s \in Session \cup {None} : Propose(h, s, Body)
         \/ OpenFails(h) \/ Decide(h) \/ Prune(h) \/ PruneDone(h)
  PROVE  TypeOK' /\ FileInv' /\ BodyInv'
<1> USE DEF Goto, fileVars, boundVars, Committing, Written, Locked
<1>1. ASSUME NEW s \in Session \cup {None}, Propose(h, s, Body)
      PROVE  TypeOK' /\ FileInv' /\ BodyInv'
  <2>1. PICK b \in Body : body' = [body EXCEPT ![h] = b]
    BY <1>1 DEF Propose
  <2>2. b \in SUBSET Line
    BY DEF Body
  <2>3. TypeOK'
    BY <1>1, <2>1, <2>2, LedgerAssumption DEF Propose, TypeOK, Place
  <2>4. FileInv'
    BY <1>1 DEF Propose, FileInv, TypeOK, Opened
  <2>5. BodyInv'
    BY <1>1, <2>1 DEF Propose, BodyInv, TypeOK, Opened, FactsIn
  <2>6. QED
    BY <2>3, <2>4, <2>5
<1>2. CASE OpenFails(h)
  <2>1. Finish(h) /\ UNCHANGED <<fileVars, delivered, damage, boundVars>>
    BY <1>2 DEF OpenFails
  <2>2. TypeOK'
    BY <2>1, Finishes DEF TypeOK
  <2>3. FileInv'
    BY <2>1, Finishes DEF FileInv, Opened
  <2>4. BodyInv'
    BY <2>1, Finishes DEF BodyInv, Opened, FactsIn
  <2>5. QED
    BY <2>2, <2>3, <2>4
<1>3. CASE Decide(h)
  <2>1. session[h] \in Session /\ Opened(h) \in Inode
    BY <1>3, Files DEF Decide, FileInv, Opened
  <2>2. Opened(h).known \in SUBSET Line /\ body[h] \in SUBSET Line
    BY <2>1 DEF Inode, TypeOK
  <2>3. PICK kept \in Unique(Opened(h).known, body[h]) :
          body' = [body EXCEPT ![h] = kept]
    BY <1>3 DEF Decide
  <2>4. /\ kept \in SUBSET Line
        /\ FactsIn(kept) \cap FactsIn(Opened(h).known) = {}
        /\ \A x, y \in kept : FactOf[x] = FactOf[y] => x = y
    BY <2>2, <2>3 DEF Unique
  <2>5. TypeOK'
    BY <1>3, <2>3, <2>4 DEF Decide, TypeOK, Place
  <2>6. FileInv'
    BY <1>3 DEF Decide, FileInv, TypeOK, Opened
  <2>7. BodyInv'
    BY <1>3, <2>3, <2>4 DEF Decide, BodyInv, TypeOK, Opened, FactsIn
  <2>8. QED
    BY <2>5, <2>6, <2>7
<1>4. CASE Prune(h) \/ PruneDone(h)
  <2>1. Victims(session[h]) \in SUBSET Session
    BY DEF Victims, Ledgers
  <2>2. TypeOK'
    BY <1>4, <2>1 DEF Prune, PruneDone, TypeOK, Place
  <2>3. FileInv'
    BY <1>4 DEF Prune, PruneDone, FileInv, TypeOK, Opened
  <2>4. BodyInv'
    BY <1>4 DEF Prune, PruneDone, BodyInv, TypeOK, Opened, FactsIn
  <2>5. QED
    BY <2>2, <2>3, <2>4
<1>5. QED
  BY <1>1, <1>2, <1>3, <1>4

\* Steps of a hook at its file: taking the lock, what is done under it, and
\* being killed.
LEMMA HolderSteps ==
  ASSUME TypeOK, FileInv, BodyInv, NEW h \in Hook,
         Lock(h) \/ NothingLeft(h) \/ AppendRecord(h) \/ TearRecord(h) \/ Die(h)
  PROVE  TypeOK' /\ FileInv' /\ BodyInv'
<1> USE DEF Goto, boundVars, Locked
<1>1. CASE Lock(h)
  <2>1. /\ pc[h] = "lock" /\ Opened(h).holder = None
        /\ pc' = [pc EXCEPT ![h] = "decide"]
        /\ UNCHANGED <<linked, newer, session, fd, body, victims, delivered, damage,
                       prompts, tears, deaths>>
    BY <1>1 DEF Lock
  <2> DEFINE file == [Opened(h) EXCEPT !.holder = h]
  <2>2. Opened(h) \in Inode
    BY <2>1, Files DEF FileInv, Opened, Committing
  <2>3. /\ file \in Inode /\ file.holder = h /\ file.known = Opened(h).known
        /\ Write(h, file)
    BY <1>1, <2>2, Records DEF Lock
  <2> HIDE DEF file
  <2>4. /\ inode' \in [Session -> Seq(Inode)]
        /\ \A s \in Session : Len(inode'[s]) = Len(inode[s]) /\ DOMAIN inode'[s] = DOMAIN inode[s]
        /\ \A s \in Session : linked'[s] \in 0..Len(inode'[s])
        /\ session[h] \in Session /\ fd[h] \in DOMAIN inode[session[h]]
        /\ inode'[session[h]][fd[h]] = file
    BY <2>1, <2>3, WriteFiles
  <2>5. \A g \in Hook \ {h} : pc[g] \in {"lock"} \cup Locked =>
          /\ session[g] \in Session
          /\ fd[g] \in DOMAIN inode[session[g]]
          /\ pc[g] \in Locked =>
               inode'[session[g]][fd[g]] = Opened(g) /\ Opened(g).holder = g
    BY <2>1, <2>3, WriteFiles
  <2>6. TypeOK'
    BY <2>1, <2>4 DEF TypeOK, Place
  <2>7. FileInv'
    BY <2>1, <2>3, <2>4, <2>5 DEF FileInv, TypeOK, Opened, Committing
  <2>8. BodyInv'
    BY <2>1, <2>4, <2>5 DEF BodyInv, TypeOK, Opened, Written, FactsIn
  <2>9. QED
    BY <2>6, <2>7, <2>8
<1>2. ASSUME NEW file \in Inode, pc[h] \in Locked, Write(h, file), Finish(h), linked' = linked
      PROVE  /\ inode' \in [Session -> Seq(Inode)]
             /\ FileInv' /\ BodyInv'
  <2>1. /\ inode' \in [Session -> Seq(Inode)]
        /\ \A s \in Session : Len(inode'[s]) = Len(inode[s]) /\ DOMAIN inode'[s] = DOMAIN inode[s]
        /\ \A s \in Session : linked'[s] \in 0..Len(inode'[s])
    BY <1>2, WriteFiles
  <2>2. \A g \in Hook \ {h} : pc[g] \in {"lock"} \cup Locked =>
          /\ session[g] \in Session
          /\ fd[g] \in DOMAIN inode[session[g]]
          /\ pc[g] \in Locked =>
               inode'[session[g]][fd[g]] = Opened(g) /\ Opened(g).holder = g
    BY <1>2, WriteFiles
  <2>3. /\ pc'[h] = "idle"
        /\ \A g \in Hook \ {h} : /\ pc'[g] = pc[g] /\ session'[g] = session[g]
                                 /\ fd'[g] = fd[g] /\ body'[g] = body[g]
    BY <1>2, Finishes
  <2>4. FileInv'
    BY <2>1, <2>2, <2>3 DEF FileInv, Opened, Committing
  <2>5. BodyInv'
    <3>1. \A g \in Hook \ {h} : pc[g] = "append" => Opened(g)' = Opened(g)
      BY <2>2, <2>3 DEF Opened
    <3>2. QED
      BY <2>3, <3>1 DEF BodyInv, Written, FactsIn
  <2>6. QED
    BY <2>1, <2>4, <2>5
<1>3. pc[h] \in Locked => Opened(h) \in Inode /\ session[h] \in Session
  BY Files DEF FileInv, Opened, Committing
<1>4. CASE NothingLeft(h)
  <2> DEFINE file == [Opened(h) EXCEPT !.holder = None]
  <2>1. /\ file \in Inode /\ pc[h] \in Locked /\ Write(h, file) /\ Finish(h)
        /\ UNCHANGED <<linked, newer, delivered, damage, prompts, tears, deaths>>
    BY <1>3, <1>4, Records DEF NothingLeft
  <2> HIDE DEF file
  <2>2. QED
    BY <1>2, <2>1, Finishes DEF TypeOK
<1>5. CASE AppendRecord(h)
  <2> DEFINE file == [known |-> IF Opened(h).tail = "whole"
                                THEN Opened(h).known \cup body[h]
                                ELSE Opened(h).known,
                      tail |-> "whole",
                      holder |-> None]
  <2>1. /\ pc[h] = "append" /\ Write(h, file)
        /\ pc' = [pc EXCEPT ![h] = "prune"]
        /\ UNCHANGED <<linked, session, fd, body, victims, delivered, damage,
                       prompts, tears, deaths>>
    BY <1>5 DEF AppendRecord
  <2>2. file \in Inode
    BY <1>3, <2>1 DEF Inode, TypeOK
  <2> HIDE DEF file
  <2>3. newer' \subseteq Session \X Session
    BY <1>3, <1>5, <2>1 DEF AppendRecord, Touch, Newest, Without, Ledgers, TypeOK
  <2>4. /\ inode' \in [Session -> Seq(Inode)]
        /\ \A s \in Session : Len(inode'[s]) = Len(inode[s]) /\ DOMAIN inode'[s] = DOMAIN inode[s]
        /\ \A s \in Session : linked'[s] \in 0..Len(inode'[s])
        /\ session[h] \in Session
    BY <2>1, <2>2, WriteFiles
  <2>5. \A g \in Hook \ {h} : pc[g] \in {"lock"} \cup Locked =>
          /\ session[g] \in Session
          /\ fd[g] \in DOMAIN inode[session[g]]
          /\ pc[g] \in Locked =>
               inode'[session[g]][fd[g]] = Opened(g) /\ Opened(g).holder = g
    BY <2>1, <2>2, WriteFiles
  <2>6. TypeOK'
    BY <2>1, <2>3, <2>4 DEF TypeOK, Place
  <2>7. FileInv'
    BY <2>1, <2>4, <2>5 DEF FileInv, TypeOK, Opened, Committing
  <2>8. BodyInv'
    BY <2>1, <2>4, <2>5 DEF BodyInv, TypeOK, Opened, Written, FactsIn
  <2>9. QED
    BY <2>6, <2>7, <2>8
<1>6. CASE TearRecord(h)
  <2>1. PICK tail \in {"torn", "garbled"} :
          Write(h, [Opened(h) EXCEPT !.tail = tail, !.holder = None])
    BY <1>6 DEF TearRecord
  <2> DEFINE file == [Opened(h) EXCEPT !.tail = tail, !.holder = None]
  <2>2. /\ file \in Inode /\ pc[h] \in Locked /\ Write(h, file) /\ Finish(h)
        /\ tears' = tears + 1 /\ damage' = [damage EXCEPT ![session[h]] = @ + 1]
        /\ UNCHANGED <<linked, delivered, prompts, deaths>>
    BY <1>3, <1>6, <2>1, Records DEF TearRecord
  <2> HIDE DEF file
  <2>3. newer' \subseteq Session \X Session
    BY <1>3, <1>6, <2>2 DEF TearRecord, Touch, Newest, Without, Ledgers, TypeOK
  <2>4. QED
    BY <1>2, <1>3, <2>2, <2>3, Finishes DEF TypeOK
<1>7. CASE Die(h)
  <2>1. /\ Finish(h) /\ deaths' = deaths + 1
        /\ UNCHANGED <<linked, newer, delivered, damage, prompts, tears>>
    BY <1>7 DEF Die
  <2>2. /\ pc' \in [Hook -> Place] /\ session' \in [Hook -> Session \cup {None}]
        /\ fd' \in [Hook -> Nat] /\ body' \in [Hook -> SUBSET Line]
        /\ victims' \in [Hook -> SUBSET Session]
    BY <2>1, Finishes
  <2>3. CASE pc[h] \in Locked
    <3> DEFINE file == [Opened(h) EXCEPT !.holder = None]
    <3>1. file \in Inode /\ Write(h, file)
      BY <1>3, <1>7, <2>3, Records DEF Die
    <3> HIDE DEF file
    <3>2. inode' \in [Session -> Seq(Inode)] /\ FileInv' /\ BodyInv'
      BY <1>2, <2>1, <2>3, <3>1
    <3>3. QED
      BY <2>1, <2>2, <3>2 DEF TypeOK
  <2>4. CASE pc[h] \notin Locked
    <3>1. UNCHANGED inode
      BY <1>7, <2>4 DEF Die
    <3>2. TypeOK'
      BY <2>1, <2>2, <3>1 DEF TypeOK
    <3>3. FileInv'
      BY <2>1, <3>1, Finishes DEF FileInv, Opened, Committing
    <3>4. BodyInv'
      BY <2>1, <3>1, Finishes DEF BodyInv, Opened, Written, FactsIn
    <3>5. QED
      BY <3>2, <3>3, <3>4
  <2>5. QED
    BY <2>3, <2>4
<1>8. QED
  BY <1>1, <1>4, <1>5, <1>6, <1>7

\* Opening creates a file of the session when its path leads to none.
Creates(h) ==
  LET s == session[h]
      n == Len(inode[s]) + 1
  IN /\ inode' \in [Session -> Seq(Inode)]
     /\ \A t \in Session : Len(inode'[t]) = IF t = s THEN n ELSE Len(inode[t])
     /\ \A t \in Session : DOMAIN inode'[t] = 1..Len(inode'[t])
     /\ \A t \in Session : \A i \in 1..Len(inode[t]) : inode'[t][i] = inode[t][i]
     /\ inode'[s][n] = NewInode
     /\ linked' = [linked EXCEPT ![s] = n]
     /\ fd' = [fd EXCEPT ![h] = n]

\* Opening the ledger of a session that has none creates it.
LEMMA OpenCreates ==
  ASSUME TypeOK, NEW h \in Hook, Open(h), session[h] \in Session, linked[session[h]] = 0
  PROVE  Creates(h)
<1> DEFINE s == session[h]
           new == Append(inode[s], NewInode)
<1>1. inode[s] \in Seq(Inode) /\ NewInode \in Inode
  BY Records DEF TypeOK
<1>2. /\ new \in Seq(Inode) /\ Len(new) = Len(inode[s]) + 1
      /\ \A i \in 1..Len(inode[s]) : new[i] = inode[s][i]
      /\ new[Len(inode[s]) + 1] = NewInode
  BY <1>1, AppendProperties
<1>3. /\ inode' = [inode EXCEPT ![s] = new]
      /\ linked' = [linked EXCEPT ![s] = Len(inode[s]) + 1]
      /\ fd' = [fd EXCEPT ![h] = Len(inode[s]) + 1]
  BY DEF Open
<1> HIDE DEF new
<1>4. inode' \in [Session -> Seq(Inode)]
  BY <1>2, <1>3 DEF TypeOK
<1>5. \A t \in Session : DOMAIN inode'[t] = 1..Len(inode'[t])
  BY <1>4, LenProperties
<1>6. QED
  BY <1>2, <1>3, <1>4, <1>5 DEF Creates, TypeOK

\* Printing tells each fact of the body once, and the others not.
LEMMA EmitsOnce ==
  ASSUME TypeOK, BodyInv, NEW h \in Hook, Emit(h)
  PROVE  /\ delivered' \in [Session -> [Fact -> Nat]]
         /\ \A s \in Session, f \in Fact :
              delivered'[s][f] =
                IF s = session[h] /\ f \in FactsIn(body[h])
                THEN delivered[s][f] + 1 ELSE delivered[s][f]
<1> DEFINE told(f) == {x \in body[h] : FactOf[x] = f}
<1>1. ASSUME NEW f \in Fact, session[h] /= None
      PROVE  Cardinality(told(f)) = IF f \in FactsIn(body[h]) THEN 1 ELSE 0
  <2>1. CASE f \in FactsIn(body[h])
    <3>1. PICK x \in body[h] : FactOf[x] = f
      BY <2>1 DEF FactsIn
    <3>2. told(f) = {x}
      BY <1>1, <3>1 DEF BodyInv, Emit, Written
    <3>3. QED
      BY <2>1, <3>2, FS_Singleton
  <2>2. CASE f \notin FactsIn(body[h])
    <3>1. told(f) = {}
      BY <2>2 DEF FactsIn
    <3>2. QED
      BY <2>2, <3>1, FS_EmptySet
  <2>3. QED
    BY <2>1, <2>2
<1>2. delivered' =
        [s \in Session |-> [f \in Fact |->
           delivered[s][f] + IF s = session[h] THEN Cardinality(told(f)) ELSE 0]]
  BY DEF Emit
<1> HIDE DEF told
<1>3. ASSUME NEW s \in Session, NEW f \in Fact
      PROVE  /\ delivered'[s][f] \in Nat
             /\ delivered'[s][f] =
                  IF s = session[h] /\ f \in FactsIn(body[h])
                  THEN delivered[s][f] + 1 ELSE delivered[s][f]
  <2>1. delivered[s][f] \in Nat /\ s /= None
    BY LedgerAssumption DEF TypeOK
  <2>2. delivered'[s][f] =
          delivered[s][f] + IF s = session[h] THEN Cardinality(told(f)) ELSE 0
    BY <1>2
  <2>3. QED
    BY <1>1, <2>1, <2>2
<1>4. \A s \in Session : delivered'[s] \in [Fact -> Nat]
  BY <1>2, <1>3
<1>5. delivered' \in [Session -> [Fact -> Nat]]
  BY <1>2, <1>4
<1>6. QED
  BY <1>3, <1>5

\* The path of a session comes to lead to a new file, or to none; what was
\* written is printed.
LEMMA PathSteps ==
  ASSUME TypeOK, FileInv, BodyInv, NEW h \in Hook,
         Open(h) \/ RemoveLedger(h) \/ Emit(h)
  PROVE  TypeOK' /\ FileInv' /\ BodyInv'
<1> USE DEF Goto, boundVars, fileVars, Locked
<1>1. CASE Open(h)
  <2>1. /\ session[h] \in Session /\ pc[h] = "open"
        /\ pc' = [pc EXCEPT ![h] = "lock"]
        /\ UNCHANGED <<session, body, victims, delivered, damage, prompts, tears, deaths>>
    BY <1>1 DEF Open, FileInv, Committing
  <2>2. CASE linked[session[h]] /= 0
    <3>1. /\ fd' = [fd EXCEPT ![h] = linked[session[h]]]
          /\ UNCHANGED <<inode, linked, newer>>
      BY <1>1, <2>2 DEF Open
    <3>2. linked[session[h]] \in DOMAIN inode[session[h]]
      BY <2>1, <2>2, Files DEF FileInv
    <3>3. TypeOK'
      BY <2>1, <3>1, <3>2 DEF TypeOK, Place
    <3>4. FileInv'
      BY <2>1, <3>1, <3>2 DEF FileInv, TypeOK, Opened, Committing
    <3>5. BodyInv'
      BY <2>1, <3>1 DEF BodyInv, TypeOK, Opened, Written, FactsIn
    <3>6. QED
      BY <3>3, <3>4, <3>5
  <2>3. CASE linked[session[h]] = 0
    <3>1. Creates(h)
      BY <1>1, <2>1, <2>3, OpenCreates
    <3>2. newer' \subseteq Session \X Session
      BY <1>1, <2>1, <2>3 DEF Open, Newest, Without, Ledgers, TypeOK
    <3>3. \A g \in Hook \ {h} : pc[g] \in {"lock"} \cup Locked =>
            /\ session[g] \in Session
            /\ fd[g] \in DOMAIN inode[session[g]] /\ fd[g] \in DOMAIN inode'[session[g]]
            /\ inode'[session[g]][fd[g]] = Opened(g)
      <4> SUFFICES ASSUME NEW g \in Hook \ {h}, pc[g] \in {"lock"} \cup Locked
                   PROVE  /\ session[g] \in Session
                          /\ fd[g] \in DOMAIN inode[session[g]]
                          /\ fd[g] \in DOMAIN inode'[session[g]]
                          /\ inode'[session[g]][fd[g]] = Opened(g)
        OBVIOUS
      <4>1. session[g] \in Session /\ fd[g] \in DOMAIN inode[session[g]]
        BY DEF FileInv, Committing
      <4>2. fd[g] \in 1..Len(inode[session[g]]) /\ Len(inode[session[g]]) \in Nat
        BY <4>1, Files
      <4>3. Len(inode'[session[g]]) \in {Len(inode[session[g]]), Len(inode[session[g]]) + 1}
        BY <3>1, <4>1 DEF Creates
      <4>4. QED
        BY <3>1, <4>1, <4>2, <4>3 DEF Creates, Opened
    <3>4. TypeOK'
      <4>1. Len(inode[session[h]]) + 1 \in Nat
        BY <2>1, Files
      <4>2. QED
        BY <2>1, <3>1, <3>2, <4>1 DEF TypeOK, Place, Creates
    <3>5. FileInv'
      BY <2>1, <3>1, <3>3 DEF FileInv, TypeOK, Opened, Committing, Creates
    <3>6. BodyInv'
      <4>1. \A g \in Hook \ {h} : pc[g] = "append" => Opened(g)' = Opened(g)
        BY <2>1, <3>1, <3>3 DEF Opened, Creates, TypeOK
      <4>2. QED
        BY <2>1, <4>1 DEF BodyInv, TypeOK, Written, FactsIn
    <3>7. QED
      BY <3>4, <3>5, <3>6
  <2>4. QED
    BY <2>2, <2>3
<1>2. CASE RemoveLedger(h)
  <2>1. PICK s \in victims[h] :
          /\ victims' = [victims EXCEPT ![h] = @ \ {s}]
          /\ linked' = [linked EXCEPT ![s] = 0]
          /\ newer' = Without(s)
          /\ damage' = [damage EXCEPT ![s] = @ + (IF linked[s] /= 0 THEN 1 ELSE 0)]
    BY <1>2 DEF RemoveLedger
  <2>2. UNCHANGED <<inode, pc, session, fd, body, delivered, prompts, tears, deaths>>
    BY <1>2 DEF RemoveLedger
  <2>3. TypeOK'
    BY <2>1, <2>2 DEF TypeOK, Without
  <2>4. FileInv'
    BY <2>1, <2>2, Files DEF FileInv, TypeOK, Opened, Committing
  <2>5. BodyInv'
    BY <2>2 DEF BodyInv, Opened, Written, FactsIn
  <2>6. QED
    BY <2>3, <2>4, <2>5
<1>3. CASE Emit(h)
  <2>1. pc[h] = "emit" /\ Finish(h) /\ UNCHANGED <<inode, linked, newer, damage, prompts, tears, deaths>>
    BY <1>3 DEF Emit
  <2>2. delivered' \in [Session -> [Fact -> Nat]]
    BY <1>3, EmitsOnce DEF TypeOK
  <2>3. TypeOK'
    BY <2>1, <2>2, Finishes DEF TypeOK
  <2>4. FileInv'
    BY <2>1, Finishes DEF FileInv, Opened, Committing
  <2>5. BodyInv'
    BY <2>1, Finishes DEF BodyInv, Opened, Written, FactsIn
  <2>6. QED
    BY <2>3, <2>4, <2>5
<1>4. QED
  BY <1>1, <1>2, <1>3

-----------------------------------------------------------------------------
(* What a session was told, and what is in its files.                      *)

\* The balance of BoundInv when fewer hooks have something to commit.
LEMMA StillBounded ==
  ASSUME NEW told \in Nat, NEW pending \in Nat, NEW torn \in Nat, NEW gone \in Nat,
         NEW harm \in Nat, NEW holding \in Nat, NEW fewer \in Nat, fewer <= pending,
         told + pending + torn + gone <= harm + holding
  PROVE  told + fewer + torn + gone <= harm + holding
OBVIOUS

\* A step that leaves the paths and what is known alone, and lets no hook write
\* anything, keeps the balance.
LEMMA Unharmed ==
  ASSUME LedgerInv, TypeOK',
         UNCHANGED <<linked, delivered, damage>>,
         \A s \in Session :
           /\ Len(inode'[s]) = Len(inode[s]) /\ DOMAIN inode'[s] = DOMAIN inode[s]
           /\ \A n \in DOMAIN inode[s] : /\ inode'[s][n].known = inode[s][n].known
                                         /\ inode'[s][n].tail = inode[s][n].tail,
         \A g \in Hook :
           pc'[g] \in Written /\ session'[g] /= None =>
             /\ pc[g] \in Written /\ session'[g] = session[g] /\ body'[g] = body[g]
  PROVE  BoundInv' /\ IntactInv' /\ ToldInv'
<1>1. ASSUME NEW s \in Session, NEW f \in Fact
      PROVE  /\ Holding(s, f)' = Holding(s, f) /\ Broken(s)' = Broken(s)
             /\ Unlinked(s)' = Unlinked(s)
             /\ Pending(s, f)' \subseteq Pending(s, f)
  <2>1. Holding(s, f)' = Holding(s, f)
    BY DEF Holding, FactsIn
  <2>2. Broken(s)' = Broken(s) /\ Unlinked(s)' = Unlinked(s)
    BY DEF Broken, Unlinked
  <2>3. Pending(s, f)' \subseteq Pending(s, f)
    BY LedgerAssumption DEF Pending, FactsIn
  <2>4. QED
    BY <2>1, <2>2, <2>3
<1>2. BoundInv'
  <2> SUFFICES ASSUME NEW s \in Session, NEW f \in Fact
               PROVE  (delivered[s][f] + Cardinality(Pending(s, f))
                         + Cardinality(Broken(s)) + Cardinality(Unlinked(s))
                       <= damage[s] + Cardinality(Holding(s, f)))'
    BY DEF BoundInv
  <2>1. Cardinality(Pending(s, f)') \in Nat
        /\ Cardinality(Pending(s, f)') <= Cardinality(Pending(s, f))
    BY <1>1, Counted, Shrinks DEF LedgerInv
  <2>2. delivered[s][f] + Cardinality(Pending(s, f))
          + Cardinality(Broken(s)) + Cardinality(Unlinked(s))
        <= damage[s] + Cardinality(Holding(s, f))
    BY DEF LedgerInv, BoundInv
  <2>3. /\ delivered[s][f] \in Nat /\ damage[s] \in Nat
        /\ Cardinality(Pending(s, f)) \in Nat /\ Cardinality(Broken(s)) \in Nat
        /\ Cardinality(Unlinked(s)) \in Nat /\ Cardinality(Holding(s, f)) \in Nat
    BY Counted DEF LedgerInv
  <2>4. /\ Cardinality(Holding(s, f)') = Cardinality(Holding(s, f))
        /\ Cardinality(Broken(s)') = Cardinality(Broken(s))
        /\ Cardinality(Unlinked(s)') = Cardinality(Unlinked(s))
        /\ delivered'[s][f] = delivered[s][f] /\ damage'[s] = damage[s]
    BY <1>1
  <2>5. QED
    BY <2>1, <2>2, <2>3, <2>4, StillBounded
<1>3. IntactInv'
  BY DEF LedgerInv, IntactInv
<1>4. ToldInv'
  <2> SUFFICES ASSUME NEW s \in Session, damage[s] = 0, NEW f \in Fact,
                      delivered[s][f] > 0 \/ Pending(s, f)' /= {}
               PROVE  linked'[s] = 1 /\ f \in FactsIn(inode'[s][1].known)
    BY DEF ToldInv, FactsIn
  <2>1. linked[s] = 1 /\ f \in FactsIn(inode[s][1].known)
    BY <1>1 DEF LedgerInv, ToldInv
  <2>2. 1 \in DOMAIN inode[s]
    BY <2>1, Files DEF LedgerInv, FileInv
  <2>3. QED
    BY <2>1, <2>2
<1>5. QED
  BY <1>2, <1>3, <1>4

\* Steps of which the paths and what is known take no notice.
LEMMA QuietSteps ==
  ASSUME LedgerInv, TypeOK', NEW h \in Hook,
         \/ \E s \in Session \cup {None} : Propose(h, s, Body)
         \/ OpenFails(h) \/ Lock(h) \/ Decide(h) \/ NothingLeft(h)
         \/ Prune(h) \/ PruneDone(h) \/ Die(h)
  PROVE  BoundInv' /\ IntactInv' /\ ToldInv'
<1> USE DEF Goto
<1>1. TypeOK /\ FileInv /\ BodyInv
  BY DEF LedgerInv
<1>2. UNCHANGED <<linked, delivered, damage>>
  BY DEF Propose, OpenFails, Lock, Decide, NothingLeft, Prune, PruneDone, Die, fileVars
<1>3. \A g \in Hook :
        pc'[g] \in Written /\ session'[g] /= None =>
          /\ pc[g] \in Written /\ session'[g] = session[g] /\ body'[g] = body[g]
  <2>1. CASE Finish(h)
    BY <1>1, <2>1, Finishes DEF Written
  <2>2. CASE \E s \in Session \cup {None} : Propose(h, s, Body)
    BY <1>1, <2>2 DEF Propose, Written, TypeOK
  <2>3. CASE Lock(h) \/ Decide(h) \/ Prune(h) \/ PruneDone(h)
    BY <1>1, <2>3 DEF Lock, Decide, Prune, PruneDone, Written, TypeOK
  <2>4. QED
    BY <2>1, <2>2, <2>3 DEF OpenFails, NothingLeft, Die
<1>4. \A s \in Session :
        /\ Len(inode'[s]) = Len(inode[s]) /\ DOMAIN inode'[s] = DOMAIN inode[s]
        /\ \A n \in DOMAIN inode[s] : /\ inode'[s][n].known = inode[s][n].known
                                      /\ inode'[s][n].tail = inode[s][n].tail
  <2>1. \/ UNCHANGED inode
        \/ /\ pc[h] \in {"lock"} \cup Locked
           /\ pc[h] = "lock" => Opened(h).holder = None
           /\ \E owner \in Hook \cup {None} :
                Write(h, [Opened(h) EXCEPT !.holder = owner])
    BY DEF Propose, OpenFails, Lock, Decide, NothingLeft, Prune, PruneDone, Die, fileVars, Locked
  <2>2. CASE UNCHANGED inode
    BY <2>2
  <2>3. ASSUME NEW owner \in Hook \cup {None}, pc[h] \in {"lock"} \cup Locked,
               pc[h] = "lock" => Opened(h).holder = None,
               Write(h, [Opened(h) EXCEPT !.holder = owner])
        PROVE  \A s \in Session :
                 /\ Len(inode'[s]) = Len(inode[s]) /\ DOMAIN inode'[s] = DOMAIN inode[s]
                 /\ \A n \in DOMAIN inode[s] : /\ inode'[s][n].known = inode[s][n].known
                                               /\ inode'[s][n].tail = inode[s][n].tail
    <3> DEFINE file == [Opened(h) EXCEPT !.holder = owner]
    <3>1. Opened(h) \in Inode
      BY <1>1, <2>3, Files DEF FileInv, Opened, Committing
    <3>2. /\ file \in Inode /\ file.known = Opened(h).known /\ file.tail = Opened(h).tail
          /\ Write(h, file)
      BY <2>3, <3>1, Records
    <3> HIDE DEF file
    <3>3. /\ \A s \in Session : Len(inode'[s]) = Len(inode[s]) /\ DOMAIN inode'[s] = DOMAIN inode[s]
          /\ \A s \in Session : \A n \in DOMAIN inode[s] :
               inode'[s][n] = IF s = session[h] /\ n = fd[h] THEN file ELSE inode[s][n]
      BY <1>1, <1>2, <2>3, <3>2, WriteFiles
    <3>4. QED
      BY <3>2, <3>3 DEF Opened
  <2>4. QED
    BY <2>1, <2>2, <2>3
<1>5. QED
  BY <1>2, <1>3, <1>4, Unharmed

\* Opening finds the file of the session, or makes a new one that holds nothing.
LEMMA OpenStep ==
  ASSUME LedgerInv, TypeOK', NEW h \in Hook, Open(h)
  PROVE  BoundInv' /\ IntactInv' /\ ToldInv'
<1> USE DEF Goto
<1>1. /\ TypeOK /\ session[h] \in Session /\ pc[h] = "open"
      /\ pc' = [pc EXCEPT ![h] = "lock"]
      /\ UNCHANGED <<session, body, delivered, damage>>
  BY DEF LedgerInv, Open, FileInv, Committing
<1>2. CASE linked[session[h]] /= 0
  <2>1. UNCHANGED <<inode, linked>>
    BY <1>2 DEF Open, fileVars
  <2>2. QED
    BY <1>1, <2>1, Unharmed DEF TypeOK, Written
<1>3. CASE linked[session[h]] = 0
  <2> DEFINE s == session[h]
  <2>1. Creates(h)
    BY <1>1, <1>3, OpenCreates
  <2>2. ASSUME NEW t \in Session, NEW f \in Fact
        PROVE  /\ Holding(t, f)' = Holding(t, f) /\ Broken(t)' = Broken(t)
               /\ Unlinked(t)' = Unlinked(t)
               /\ Pending(t, f)' = Pending(t, f)
    <3>1. /\ Len(inode[t]) \in Nat /\ DOMAIN inode[t] = 1..Len(inode[t])
          /\ DOMAIN inode'[t] = IF t = s THEN 1..(Len(inode[t]) + 1) ELSE 1..Len(inode[t])
          /\ \A n \in 1..Len(inode[t]) : inode'[t][n] = inode[t][n]
          /\ t = s => inode'[t][Len(inode[t]) + 1] = NewInode
          /\ linked'[t] = IF t = s THEN Len(inode[t]) + 1 ELSE linked[t]
      BY <1>1, <2>1, Files DEF Creates, TypeOK
    <3>2. t = s => /\ inode'[t][Len(inode[t]) + 1].known = {}
                   /\ inode'[t][Len(inode[t]) + 1].tail = "whole"
      BY <3>1, Records
    <3>3. Holding(t, f)' = Holding(t, f)
      <4>1. \A n \in DOMAIN inode[t] :
              n \in DOMAIN inode'[t] /\ inode'[t][n].known = inode[t][n].known
        BY <3>1
      <4>2. \A n \in DOMAIN inode'[t] \ DOMAIN inode[t] : inode'[t][n].known = {}
        BY <3>1, <3>2
      <4>3. QED
        BY <4>1, <4>2 DEF Holding, FactsIn
    <3>4. Broken(t)' = Broken(t)
      <4>1. \A n \in DOMAIN inode[t] :
              n \in DOMAIN inode'[t] /\ inode'[t][n].tail = inode[t][n].tail
        BY <3>1
      <4>2. \A n \in DOMAIN inode'[t] \ DOMAIN inode[t] : inode'[t][n].tail = "whole"
        BY <3>1, <3>2
      <4>3. QED
        BY <4>1, <4>2 DEF Broken
    <3>5. Unlinked(t)' = Unlinked(t)
      BY <1>3, <3>1 DEF Unlinked
    <3>6. Pending(t, f)' = Pending(t, f)
      BY <1>1 DEF Pending, Written, TypeOK, FactsIn
    <3>7. QED
      BY <3>3, <3>4, <3>5, <3>6
  <2>3. BoundInv'
    BY <1>1, <2>2 DEF LedgerInv, BoundInv
  <2>4. IntactInv'
    <3> SUFFICES ASSUME NEW t \in Session, damage[t] = 0
                 PROVE  /\ linked'[t] = Len(inode'[t]) /\ Len(inode'[t]) <= 1
                        /\ \A n \in DOMAIN inode'[t] : inode'[t][n].tail = "whole"
      BY <1>1 DEF IntactInv
    <3>1. /\ linked[t] = Len(inode[t]) /\ Len(inode[t]) <= 1
          /\ \A n \in DOMAIN inode[t] : inode[t][n].tail = "whole"
      BY DEF LedgerInv, IntactInv
    <3>2. CASE t = s
      <4>1. Len(inode'[t]) = 1 /\ inode'[t][1] = NewInode /\ linked'[t] = 1
        BY <1>1, <1>3, <2>1, <3>1, <3>2 DEF Creates, TypeOK
      <4>2. \A n \in DOMAIN inode'[t] : n = 1
        BY <2>1, <4>1 DEF Creates
      <4>3. inode'[t][1].tail = "whole"
        BY <4>1, Records
      <4>4. QED
        BY <4>1, <4>2, <4>3
    <3>3. CASE t /= s
      <4>1. /\ Len(inode'[t]) = Len(inode[t]) /\ DOMAIN inode'[t] = 1..Len(inode'[t])
            /\ \A n \in 1..Len(inode[t]) : inode'[t][n] = inode[t][n]
        BY <2>1, <3>3 DEF Creates
      <4>2. linked'[t] = linked[t]
        BY <1>1, <2>1, <3>3 DEF Creates, TypeOK
      <4>3. DOMAIN inode[t] = 1..Len(inode[t])
        BY <1>1, Files
      <4>4. \A n \in DOMAIN inode'[t] : n \in DOMAIN inode[t] /\ inode'[t][n] = inode[t][n]
        BY <4>1, <4>3
      <4>5. QED
        BY <3>1, <4>1, <4>2, <4>4
    <3>4. QED
      BY <3>2, <3>3
  <2>5. ToldInv'
    <3> SUFFICES ASSUME NEW t \in Session, damage[t] = 0, NEW f \in Fact,
                        delivered[t][f] > 0 \/ Pending(t, f)' /= {}
                 PROVE  linked'[t] = 1 /\ f \in FactsIn(inode'[t][1].known)
      BY <1>1 DEF ToldInv, FactsIn
    <3>1. linked[t] = 1 /\ f \in FactsIn(inode[t][1].known)
      BY <2>2 DEF LedgerInv, ToldInv
    <3>2. t /= s /\ 1 \in 1..Len(inode[t])
      BY <1>1, <1>3, <3>1, Files DEF LedgerInv, FileInv
    <3>3. QED
      BY <1>1, <2>1, <3>1, <3>2 DEF Creates, TypeOK
  <2>6. QED
    BY <2>3, <2>4, <2>5
<1>4. QED
  BY <1>2, <1>3

\* A record written behind a whole one puts its facts into the file, none of
\* which was there; behind a torn one it is lost, and the tear with it.
LEMMA AppendStep ==
  ASSUME LedgerInv, TypeOK', NEW h \in Hook, AppendRecord(h)
  PROVE  BoundInv' /\ IntactInv' /\ ToldInv'
<1>0. PICK s \in Session : s = session[h]
  BY DEF LedgerInv, AppendRecord, FileInv, Committing, Locked
<1> DEFINE new == IF Opened(h).tail = "whole"
                  THEN Opened(h).known \cup body[h] ELSE Opened(h).known
           file == [known |-> new, tail |-> "whole", holder |-> None]
<1>1. /\ TypeOK /\ FileInv /\ BodyInv
      /\ pc[h] = "append" /\ pc' = [pc EXCEPT ![h] = "prune"]
      /\ Write(h, file)
      /\ UNCHANGED <<linked, session, fd, body, delivered, damage>>
  BY DEF LedgerInv, AppendRecord, Goto
<1>2. Opened(h) \in Inode
  BY <1>0, <1>1, Files DEF FileInv, Locked, Opened
<1>3. new \in SUBSET Line /\ Opened(h).known \in SUBSET Line
  BY <1>1, <1>2 DEF Inode, TypeOK
<1>4. file \in Inode /\ file.known = new /\ file.tail = "whole"
  BY <1>3 DEF Inode
<1> HIDE DEF file
<1>5. /\ \A t \in Session : Len(inode'[t]) = Len(inode[t]) /\ DOMAIN inode'[t] = DOMAIN inode[t]
      /\ \A t \in Session : \A n \in DOMAIN inode[t] :
           inode'[t][n] = IF t = s /\ n = fd[h] THEN file ELSE inode[t][n]
      /\ fd[h] \in DOMAIN inode[s]
  BY <1>0, <1>1, <1>4, WriteFiles DEF Locked
<1>6. ASSUME NEW t \in Session, NEW f \in Fact
      PROVE  /\ Unlinked(t)' = Unlinked(t)
             /\ Holding(t, f) \subseteq Holding(t, f)'
             /\ Broken(t)' = IF t = s THEN Broken(t) \ {fd[h]} ELSE Broken(t)
             /\ Pending(t, f)' = IF t = s /\ f \in FactsIn(body[h])
                                 THEN Pending(t, f) \cup {h} ELSE Pending(t, f)
  <2>1. Unlinked(t)' = Unlinked(t)
    BY <1>1, <1>5 DEF Unlinked
  <2>2. Holding(t, f) \subseteq Holding(t, f)'
    BY <1>0, <1>4, <1>5 DEF Holding, FactsIn, Opened
  <2>3. Broken(t)' = IF t = s THEN Broken(t) \ {fd[h]} ELSE Broken(t)
    BY <1>4, <1>5 DEF Broken
  <2>4. Pending(t, f)' = IF t = s /\ f \in FactsIn(body[h])
                         THEN Pending(t, f) \cup {h} ELSE Pending(t, f)
    <3>1. /\ pc'[h] \in Written /\ pc[h] \notin Written /\ session'[h] = s
          /\ \A g \in Hook \ {h} : pc'[g] = pc[g]
      BY <1>0, <1>1 DEF Written, TypeOK
    <3>2. \A g \in Hook : session'[g] = session[g] /\ FactsIn(body'[g]) = FactsIn(body[g])
      BY <1>1
    <3>3. QED
      BY <3>1, <3>2 DEF Pending
  <2>5. QED
    BY <2>1, <2>2, <2>3, <2>4
<1>7. ASSUME NEW f \in Fact, f \in FactsIn(body[h]), Opened(h).tail = "whole"
      PROVE  fd[h] \in Holding(s, f)' /\ fd[h] \notin Holding(s, f)
  <2>1. f \notin FactsIn(Opened(h).known)
    BY <1>1, <1>7 DEF BodyInv
  <2>2. f \in FactsIn(file.known)
    BY <1>4, <1>7 DEF FactsIn
  <2>3. QED
    BY <1>0, <1>5, <2>1, <2>2 DEF Holding, Opened, FactsIn
<1>8. BoundInv'
  <2> SUFFICES ASSUME NEW t \in Session, NEW f \in Fact
               PROVE  (delivered[t][f] + Cardinality(Pending(t, f))
                         + Cardinality(Broken(t)) + Cardinality(Unlinked(t))
                       <= damage[t] + Cardinality(Holding(t, f)))'
    BY DEF BoundInv
  <2>1. /\ IsFiniteSet(Holding(t, f)') /\ Cardinality(Holding(t, f)') \in Nat
        /\ IsFiniteSet(Broken(t)') /\ IsFiniteSet(Pending(t, f)')
    <3>1. IsFiniteSet(DOMAIN inode[t])
      BY <1>1, Files
    <3>2. /\ Holding(t, f)' \subseteq DOMAIN inode[t] /\ Broken(t)' \subseteq DOMAIN inode[t]
          /\ Pending(t, f)' \subseteq Hook
      BY <1>5 DEF Holding, Broken, Pending
    <3>3. QED
      BY <3>1, <3>2, FS_Subset, FS_CardinalityType, LedgerAssumption
  <2>2. /\ Cardinality(Holding(t, f)) <= Cardinality(Holding(t, f)')
        /\ fd[h] \in Holding(t, f)' /\ fd[h] \notin Holding(t, f) =>
             Cardinality(Holding(t, f)) + 1 <= Cardinality(Holding(t, f)')
    BY <1>6, <2>1, Shrinks
  <2>3. /\ Cardinality(Broken(t)') <= Cardinality(Broken(t))
        /\ t = s /\ fd[h] \in Broken(t) => Cardinality(Broken(t)') + 1 <= Cardinality(Broken(t))
        /\ Cardinality(Broken(t)') \in Nat
    <3>1. Broken(t)' \in SUBSET Broken(t) /\ (t = s => fd[h] \notin Broken(t)')
      BY <1>6
    <3>2. QED
      BY <1>1, <3>1, Counted, Shrinks
  <2>4. /\ Cardinality(Pending(t, f)') \in Nat
        /\ t = s /\ f \in FactsIn(body[h]) =>
             Cardinality(Pending(t, f)') <= Cardinality(Pending(t, f)) + 1
        /\ ~(t = s /\ f \in FactsIn(body[h])) => Pending(t, f)' = Pending(t, f)
    BY <1>1, <1>6, Counted, Grows
  <2>5. delivered[t][f] + Cardinality(Pending(t, f))
          + Cardinality(Broken(t)) + Cardinality(Unlinked(t))
        <= damage[t] + Cardinality(Holding(t, f))
    BY DEF LedgerInv, BoundInv
  <2>6. t = s /\ f \in FactsIn(body[h]) =>
          \/ fd[h] \in Broken(t)
          \/ fd[h] \in Holding(t, f)' /\ fd[h] \notin Holding(t, f)
    BY <1>0, <1>5, <1>7 DEF Broken, Opened
  <2>7. /\ delivered'[t][f] = delivered[t][f] /\ damage'[t] = damage[t]
        /\ Unlinked(t)' = Unlinked(t)
        /\ delivered[t][f] \in Nat /\ damage[t] \in Nat
        /\ Cardinality(Pending(t, f)) \in Nat /\ Cardinality(Broken(t)) \in Nat
        /\ Cardinality(Unlinked(t)) \in Nat /\ Cardinality(Holding(t, f)) \in Nat
    BY <1>1, <1>6, Counted
  <2>8. QED
    BY <2>1, <2>2, <2>3, <2>4, <2>5, <2>6, <2>7
<1>9. IntactInv'
  BY <1>1, <1>4, <1>5 DEF LedgerInv, IntactInv
<1>10. ToldInv'
  <2> SUFFICES ASSUME NEW t \in Session, damage[t] = 0, NEW f \in Fact,
                      delivered[t][f] > 0 \/ Pending(t, f)' /= {}
               PROVE  linked'[t] = 1 /\ f \in FactsIn(inode'[t][1].known)
    BY <1>1 DEF ToldInv, FactsIn
  <2>1. /\ linked[t] = Len(inode[t]) /\ Len(inode[t]) <= 1
        /\ \A n \in DOMAIN inode[t] : inode[t][n].tail = "whole"
        /\ DOMAIN inode[t] = 1..Len(inode[t])
    BY <1>1, Files DEF LedgerInv, IntactInv
  <2>2. Len(inode[t]) \in {0, 1}
    <3>1. Len(inode[t]) \in Nat
      BY <1>1, Files
    <3>2. Len(inode[t]) <= 1
      BY <2>1
    <3>3. \A n \in Nat : n <= 1 => n \in {0, 1}
      OBVIOUS
    <3>4. QED
      BY <3>1, <3>2, <3>3
  <2>3. CASE delivered[t][f] > 0 \/ Pending(t, f) /= {}
    <3>1. linked[t] = 1 /\ f \in FactsIn(inode[t][1].known) /\ 1 \in DOMAIN inode[t]
      <4>1. linked[t] = 1 /\ f \in FactsIn(inode[t][1].known)
        BY <2>3 DEF LedgerInv, ToldInv
      <4>2. QED
        BY <2>1, <4>1
    <3>2. 1 \in Holding(t, f)'
      BY <1>6, <3>1 DEF Holding
    <3>3. QED
      BY <1>1, <3>1, <3>2 DEF Holding
  <2>4. CASE t = s /\ f \in FactsIn(body[h])
    <3>1. fd[h] = 1 /\ linked[t] = 1 /\ Opened(h).tail = "whole"
      <4>1. fd[h] \in 1..Len(inode[t])
        BY <1>5, <2>1, <2>4
      <4>2. fd[h] = 1 /\ linked[t] = 1
        <5>1. CASE Len(inode[t]) = 0
          BY <4>1, <5>1
        <5>2. CASE Len(inode[t]) = 1
          BY <2>1, <4>1, <5>2
        <5>3. QED
          BY <2>2, <5>1, <5>2
      <4>3. QED
        BY <1>0, <2>1, <2>4, <4>1, <4>2 DEF Opened
    <3>2. 1 \in Holding(t, f)'
      BY <1>7, <2>4, <3>1
    <3>3. QED
      BY <1>1, <3>1, <3>2 DEF Holding
  <2>5. QED
    BY <1>6, <2>3, <2>4
<1>11. QED
  BY <1>8, <1>9, <1>10

\* A record that breaks off damages the ledger, whatever it leaves of its last
\* record.
LEMMA TearStep ==
  ASSUME LedgerInv, TypeOK', NEW h \in Hook, TearRecord(h)
  PROVE  BoundInv' /\ IntactInv' /\ ToldInv'
<1>0. PICK s \in Session : s = session[h]
  BY DEF LedgerInv, TearRecord, FileInv, Committing, Locked
<1>1. /\ TypeOK /\ FileInv /\ BodyInv /\ pc[h] = "append" /\ Finish(h)
      /\ UNCHANGED <<linked, delivered>>
      /\ damage' = [damage EXCEPT ![s] = @ + 1]
  BY <1>0 DEF LedgerInv, TearRecord
<1>2. Opened(h) \in Inode
  BY <1>0, <1>1, Files DEF FileInv, Locked, Opened
<1>3. PICK file \in Inode : Write(h, file) /\ file.known = Opened(h).known
  BY <1>2, Records DEF TearRecord
<1>4. /\ \A t \in Session : Len(inode'[t]) = Len(inode[t]) /\ DOMAIN inode'[t] = DOMAIN inode[t]
      /\ \A t \in Session : \A n \in DOMAIN inode[t] :
           inode'[t][n] = IF t = s /\ n = fd[h] THEN file ELSE inode[t][n]
  BY <1>0, <1>1, <1>3, WriteFiles DEF Locked
<1>5. ASSUME NEW t \in Session, NEW f \in Fact
      PROVE  /\ Unlinked(t)' = Unlinked(t) /\ Holding(t, f)' = Holding(t, f)
             /\ Pending(t, f)' \subseteq Pending(t, f)
             /\ Broken(t)' \subseteq Broken(t) \cup {fd[h]}
             /\ t /= s => Broken(t)' = Broken(t)
  <2>1. Unlinked(t)' = Unlinked(t)
    BY <1>1, <1>4 DEF Unlinked
  <2>2. Holding(t, f)' = Holding(t, f)
    BY <1>0, <1>3, <1>4 DEF Holding, FactsIn, Opened
  <2>3. Broken(t)' \subseteq Broken(t) \cup {fd[h]} /\ (t /= s => Broken(t)' = Broken(t))
    BY <1>4 DEF Broken
  <2>4. Pending(t, f)' \subseteq Pending(t, f)
    BY <1>1, Finishes, LedgerAssumption DEF Pending, Written, FactsIn
  <2>5. QED
    BY <2>1, <2>2, <2>3, <2>4
<1>6. BoundInv'
  <2> SUFFICES ASSUME NEW t \in Session, NEW f \in Fact
               PROVE  (delivered[t][f] + Cardinality(Pending(t, f))
                         + Cardinality(Broken(t)) + Cardinality(Unlinked(t))
                       <= damage[t] + Cardinality(Holding(t, f)))'
    BY DEF BoundInv
  <2>1. /\ Cardinality(Pending(t, f)') \in Nat
        /\ Cardinality(Pending(t, f)') <= Cardinality(Pending(t, f))
    BY <1>1, <1>5, Counted, Shrinks
  <2>2. /\ Cardinality(Broken(t)') \in Nat
        /\ Cardinality(Broken(t)') <= Cardinality(Broken(t)) + 1
    BY <1>1, <1>5, Counted, Grows
  <2>3. /\ delivered[t][f] + Cardinality(Pending(t, f))
             + Cardinality(Broken(t)) + Cardinality(Unlinked(t))
           <= damage[t] + Cardinality(Holding(t, f))
        /\ delivered'[t][f] = delivered[t][f]
        /\ damage'[t] = IF t = s THEN damage[t] + 1 ELSE damage[t]
    BY <1>1 DEF LedgerInv, BoundInv, TypeOK
  <2>4. QED
    BY <1>1, <1>5, <2>1, <2>2, <2>3, Counted
<1>7. \A t \in Session : damage'[t] = 0 => damage[t] = 0 /\ t /= s
  BY <1>1 DEF TypeOK
<1>8. IntactInv'
  BY <1>1, <1>4, <1>7 DEF LedgerInv, IntactInv
<1>9. ToldInv'
  <2> SUFFICES ASSUME NEW t \in Session, damage'[t] = 0, NEW f \in Fact,
                      delivered[t][f] > 0 \/ Pending(t, f)' /= {}
               PROVE  linked'[t] = 1 /\ f \in FactsIn(inode'[t][1].known)
    BY <1>1 DEF ToldInv, FactsIn
  <2>1. /\ linked[t] = 1 /\ f \in FactsIn(inode[t][1].known) /\ t /= s
        /\ linked[t] \in 0..Len(inode[t])
    BY <1>1, <1>5, <1>7 DEF LedgerInv, ToldInv, FileInv
  <2>2. 1 \in DOMAIN inode[t]
    BY <1>1, <2>1, Files
  <2>3. QED
    BY <1>1, <1>4, <2>1, <2>2
<1>10. QED
  BY <1>6, <1>8, <1>9

\* Unlinking a file damages the ledger of its session.
LEMMA RemoveStep ==
  ASSUME LedgerInv, TypeOK', NEW h \in Hook, RemoveLedger(h)
  PROVE  BoundInv' /\ IntactInv' /\ ToldInv'
<1>1. PICK s \in Session :
        /\ linked' = [linked EXCEPT ![s] = 0]
        /\ damage' = [damage EXCEPT ![s] = @ + (IF linked[s] /= 0 THEN 1 ELSE 0)]
  BY DEF RemoveLedger, LedgerInv, TypeOK
<1>2. TypeOK /\ FileInv /\ UNCHANGED <<inode, pc, session, body, delivered>>
  BY DEF RemoveLedger, LedgerInv
<1>3. ASSUME NEW t \in Session, NEW f \in Fact
      PROVE  /\ Holding(t, f)' = Holding(t, f) /\ Broken(t)' = Broken(t)
             /\ Pending(t, f)' = Pending(t, f)
             /\ t = s => Unlinked(t)' \subseteq Unlinked(t) \cup {linked[t]}
             /\ t /= s \/ linked[t] = 0 => Unlinked(t)' = Unlinked(t)
             /\ damage'[t] = IF t = s /\ linked[t] /= 0 THEN damage[t] + 1 ELSE damage[t]
  <2>1. /\ Holding(t, f)' = Holding(t, f) /\ Broken(t)' = Broken(t)
        /\ Pending(t, f)' = Pending(t, f)
    BY <1>2 DEF Holding, Broken, Pending, FactsIn
  <2>2. /\ t = s => Unlinked(t)' \subseteq Unlinked(t) \cup {linked[t]}
        /\ t /= s \/ linked[t] = 0 => Unlinked(t)' = Unlinked(t)
    BY <1>1, <1>2 DEF Unlinked, TypeOK
  <2>3. damage'[t] = IF t = s /\ linked[t] /= 0 THEN damage[t] + 1 ELSE damage[t]
    BY <1>1, <1>2 DEF TypeOK
  <2>4. QED
    BY <2>1, <2>2, <2>3
<1>4. BoundInv'
  <2> SUFFICES ASSUME NEW t \in Session, NEW f \in Fact
               PROVE  (delivered[t][f] + Cardinality(Pending(t, f))
                         + Cardinality(Broken(t)) + Cardinality(Unlinked(t))
                       <= damage[t] + Cardinality(Holding(t, f)))'
    BY DEF BoundInv
  <2>1. /\ Cardinality(Unlinked(t)') \in Nat
        /\ Cardinality(Unlinked(t)') <= Cardinality(Unlinked(t)) + 1
        /\ t /= s \/ linked[t] = 0 => Cardinality(Unlinked(t)') = Cardinality(Unlinked(t))
    <3>1. Unlinked(t)' \subseteq Unlinked(t) \cup {linked[t]}
      BY <1>3
    <3>2. QED
      BY <1>2, <1>3, <3>1, Counted, Grows
  <2>2. delivered[t][f] + Cardinality(Pending(t, f))
          + Cardinality(Broken(t)) + Cardinality(Unlinked(t))
        <= damage[t] + Cardinality(Holding(t, f))
    BY DEF LedgerInv, BoundInv
  <2>3. QED
    BY <1>2, <1>3, <2>1, <2>2, Counted
<1>5. IntactInv'
  <2> SUFFICES ASSUME NEW t \in Session, damage'[t] = 0
               PROVE  /\ linked'[t] = Len(inode[t]) /\ Len(inode[t]) <= 1
                      /\ \A n \in DOMAIN inode[t] : inode[t][n].tail = "whole"
    BY <1>2 DEF IntactInv
  <2>1. damage[t] = 0 /\ (t = s => linked[t] = 0)
    BY <1>1, <1>2 DEF TypeOK
  <2>2. linked'[t] = linked[t]
    BY <1>1, <1>2, <2>1 DEF TypeOK
  <2>3. QED
    BY <2>1, <2>2 DEF LedgerInv, IntactInv
<1>6. ToldInv'
  <2> SUFFICES ASSUME NEW t \in Session, damage'[t] = 0, NEW f \in Fact,
                      delivered[t][f] > 0 \/ Pending(t, f)' /= {}
               PROVE  linked'[t] = 1 /\ f \in FactsIn(inode[t][1].known)
    BY <1>2 DEF ToldInv, FactsIn
  <2>1. damage[t] = 0 /\ (t = s => linked[t] = 0)
    BY <1>1, <1>2 DEF TypeOK
  <2>2. linked[t] = 1 /\ f \in FactsIn(inode[t][1].known)
    BY <1>3, <2>1 DEF LedgerInv, ToldInv
  <2>3. QED
    BY <1>1, <1>2, <2>1, <2>2 DEF TypeOK
<1>7. QED
  BY <1>4, <1>5, <1>6

\* Printing turns what was written into what was told.
LEMMA EmitStep ==
  ASSUME LedgerInv, TypeOK', NEW h \in Hook, Emit(h)
  PROVE  BoundInv' /\ IntactInv' /\ ToldInv'
<1>1. /\ TypeOK /\ BodyInv /\ FileInv /\ pc[h] = "emit" /\ Finish(h)
      /\ UNCHANGED <<inode, linked, damage>>
  BY DEF LedgerInv, Emit, fileVars
<1>2. ASSUME NEW t \in Session, NEW f \in Fact
      PROVE  /\ Holding(t, f)' = Holding(t, f) /\ Broken(t)' = Broken(t)
             /\ Unlinked(t)' = Unlinked(t)
             /\ Pending(t, f)' \in SUBSET Pending(t, f) /\ h \notin Pending(t, f)'
             /\ \/ delivered'[t][f] = delivered[t][f]
                \/ delivered'[t][f] = delivered[t][f] + 1 /\ h \in Pending(t, f)
  <2>1. /\ Holding(t, f)' = Holding(t, f) /\ Broken(t)' = Broken(t)
        /\ Unlinked(t)' = Unlinked(t)
    BY <1>1 DEF Holding, Broken, Unlinked, FactsIn
  <2>2. Pending(t, f)' \in SUBSET Pending(t, f) /\ h \notin Pending(t, f)'
    BY <1>1, Finishes DEF Pending, Written, FactsIn
  <2>3. \/ delivered'[t][f] = delivered[t][f]
        \/ delivered'[t][f] = delivered[t][f] + 1 /\ h \in Pending(t, f)
    BY <1>1, EmitsOnce DEF Pending, Written
  <2>4. QED
    BY <2>1, <2>2, <2>3
<1>3. BoundInv'
  <2> SUFFICES ASSUME NEW t \in Session, NEW f \in Fact
               PROVE  (delivered[t][f] + Cardinality(Pending(t, f))
                         + Cardinality(Broken(t)) + Cardinality(Unlinked(t))
                       <= damage[t] + Cardinality(Holding(t, f)))'
    BY DEF BoundInv
  <2>1. /\ Cardinality(Pending(t, f)') \in Nat
        /\ Cardinality(Pending(t, f)') <= Cardinality(Pending(t, f))
        /\ h \in Pending(t, f) => Cardinality(Pending(t, f)') + 1 <= Cardinality(Pending(t, f))
    BY <1>1, <1>2, Counted, Shrinks
  <2>2. delivered[t][f] + Cardinality(Pending(t, f))
          + Cardinality(Broken(t)) + Cardinality(Unlinked(t))
        <= damage[t] + Cardinality(Holding(t, f))
    BY DEF LedgerInv, BoundInv
  <2>3. QED
    BY <1>1, <1>2, <2>1, <2>2, Counted
<1>4. IntactInv'
  BY <1>1 DEF LedgerInv, IntactInv
<1>5. ToldInv'
  <2> SUFFICES ASSUME NEW t \in Session, damage[t] = 0, NEW f \in Fact,
                      delivered'[t][f] > 0 \/ Pending(t, f)' /= {}
               PROVE  linked[t] = 1 /\ f \in FactsIn(inode[t][1].known)
    BY <1>1 DEF ToldInv, FactsIn
  <2>1. delivered[t][f] > 0 \/ Pending(t, f) /= {}
    BY <1>2
  <2>2. QED
    BY <2>1 DEF LedgerInv, ToldInv
<1>6. QED
  BY <1>3, <1>4, <1>5

\* Every step keeps the invariant.
LEMMA NextLedger == LedgerInv /\ [Next]_ledgerVars => LedgerInv'
<1> SUFFICES ASSUME LedgerInv, [Next]_ledgerVars PROVE LedgerInv'
  OBVIOUS
<1> USE DEF LedgerInv
<1>1. ASSUME NEW h \in Hook,
             \/ \E s \in Session \cup {None} : Propose(h, s, Body)
             \/ OpenFails(h) \/ Decide(h) \/ Prune(h) \/ PruneDone(h)
             \/ Lock(h) \/ NothingLeft(h) \/ Die(h)
      PROVE  LedgerInv'
  BY <1>1, ReaderSteps, HolderSteps, QuietSteps
<1>2. ASSUME NEW h \in Hook, AppendRecord(h) \/ TearRecord(h) PROVE LedgerInv'
  BY <1>2, HolderSteps, AppendStep, TearStep
<1>3. ASSUME NEW h \in Hook, Open(h) \/ RemoveLedger(h) \/ Emit(h) PROVE LedgerInv'
  BY <1>3, PathSteps, OpenStep, RemoveStep, EmitStep
<1>4. CASE UNCHANGED ledgerVars
  <2> USE <1>4 DEF ledgerVars, fileVars, hookVars, boundVars
  <2>1. TypeOK' /\ FileInv' /\ BodyInv'
    BY DEF TypeOK, FileInv, BodyInv, Opened, FactsIn
  <2>2. \A g \in Hook : session'[g] = session[g] /\ pc'[g] = pc[g] /\ body'[g] = body[g]
    OBVIOUS
  <2>3. QED
    BY <2>1, <2>2, Unharmed
<1>5. QED
  BY <1>1, <1>2, <1>3, <1>4 DEF Next, CommitStep

-----------------------------------------------------------------------------
(* Theorems.                                                               *)

\* The invariant holds in every reachable state.
THEOREM LedgerInvariance == Spec => []LedgerInv
BY InitLedger, NextLedger, PTL DEF Spec

\* The variables keep their types: every count is a number, every hook has
\* opened a file or none.
THEOREM LedgerTypes == Spec => []TypeOK
BY LedgerInvariance, PTL DEF LedgerInv

\* A session is told a fact once, and again at most as often as its ledger was
\* torn or removed; while that is intact, what it was told is in it.
THEOREM LedgerIsSafe == Spec => []LedgerSafe
<1>1. LedgerInv => RepeatsNeedDamage
  <2> SUFFICES ASSUME LedgerInv, NEW s \in Session, NEW f \in Fact
               PROVE  delivered[s][f] <= 1 + damage[s]
    BY DEF RepeatsNeedDamage
  <2>1. TypeOK /\ IsFiniteSet(DOMAIN inode[s])
    BY Files DEF LedgerInv
  <2>2. Holding(s, f) \in SUBSET (Unlinked(s) \cup {linked[s]})
    BY DEF Holding, Unlinked
  <2>3. Cardinality(Holding(s, f)) <= Cardinality(Unlinked(s)) + 1
    BY <2>1, <2>2, Counted, Grows
  <2>4. delivered[s][f] + Cardinality(Pending(s, f))
          + Cardinality(Broken(s)) + Cardinality(Unlinked(s))
        <= damage[s] + Cardinality(Holding(s, f))
    BY DEF LedgerInv, BoundInv
  <2>5. QED
    BY <2>1, <2>3, <2>4, Counted
<1>2. LedgerInv /\ RepeatsNeedDamage => IntactNeverRepeats
  BY DEF LedgerInv, TypeOK, RepeatsNeedDamage, IntactNeverRepeats
<1>3. LedgerInv => ToldIsRecorded
  BY DEF LedgerInv, ToldInv, ToldIsRecorded
<1>4. QED
  BY <1>1, <1>2, <1>3, LedgerInvariance, PTL DEF LedgerSafe

(***************************************************************************)
(* PromptHook.                                                             *)
(***************************************************************************)

\* A hook is in its ledger's code while it commits, and has nothing to commit
\* before.
CommitInv ==
  \A h \in Hook :
    /\ pc[h] = "idle" <=> stage[h] /= "commit"
    /\ pc[h] = "idle" => body[h] = {}

\* Sources come into play with the retrieval; what the model selected stands
\* for sources in play.
SourceInv ==
  \A h \in Hook :
    /\ stage[h] \in {"off", "config", "warn"} => sources[h] = {}
    /\ \A k \in selected[h] : SourceOf[k] \in sources[h]

Warning(s) == {h \in Hook : stage[h] = "warn" /\ asker[h] = s}

\* The marker is made before anyone warns, and by one hook: until it has
\* printed, nobody has.
WarnInv ==
  /\ \A h \in Hook : stage[h] = "warn" => asker[h] \in Session
  /\ \A s \in Session :
       /\ warned[s] <= 1
       /\ ~flagged[s] => warned[s] = 0 /\ Warning(s) = {}
       /\ \A g, h \in Warning(s) : g = h /\ warned[s] = 0

PromptInv ==
  /\ PromptTypeOK
  /\ LedgerInv
  /\ CommitInv
  /\ SourceInv
  /\ WarnInv

-----------------------------------------------------------------------------
(* Steps of the ledger.                                                    *)

\* A step of commit_context is one of a hook that commits, and only takes lines
\* out of its body.
LEMMA Commits ==
  ASSUME TypeOK, NEW h \in Hook, CommitStep(h) \/ Emit(h)
  PROVE  /\ pc[h] /= "idle"
         /\ body'[h] \subseteq body[h]
         /\ pc'[h] = "idle" => body'[h] = {}
         /\ \A g \in Hook \ {h} : pc'[g] = pc[g] /\ body'[g] = body[g]
<1> USE DEF TypeOK, Goto
<1>1. CASE Finish(h) /\ pc[h] /= "idle"
  BY <1>1 DEF Finish
<1>2. CASE Open(h) \/ Lock(h) \/ AppendRecord(h) \/ Prune(h) \/ PruneDone(h)
  BY <1>2 DEF Open, Lock, AppendRecord, Prune, PruneDone
<1>3. CASE Decide(h)
  <2>1. PICK kept \in Unique(Opened(h).known, body[h]) : body' = [body EXCEPT ![h] = kept]
    BY <1>3 DEF Decide
  <2>2. kept \in SUBSET body[h]
    BY <2>1 DEF Unique
  <2>3. QED
    BY <1>3, <2>1, <2>2 DEF Decide
<1>4. CASE RemoveLedger(h)
  BY <1>4 DEF RemoveLedger
<1>5. QED
  BY <1>1, <1>2, <1>3, <1>4
     DEF CommitStep, Emit, OpenFails, NothingLeft, TearRecord, Die

\* What is proposed when the transcript has been taken out of the answer.
LEMMA Proposes ==
  ASSUME PromptTypeOK, NEW h \in Hook, NEW lines \in Answers(h), Unsaid(h, lines) /= {},
         Propose(h, asker[h], {Unsaid(h, lines)})
  PROVE  /\ \E s \in Session \cup {None} : Propose(h, s, Body)
         /\ pc[h] = "idle" /\ pc'[h] \in {"emit", "open"}
         /\ body'[h] \subseteq LinesOf(sources[h]) \ context[h]
         /\ \A g \in Hook \ {h} : pc'[g] = pc[g] /\ body'[g] = body[g]
<1>1. /\ Unsaid(h, lines) \in Body
      /\ Unsaid(h, lines) \subseteq LinesOf(sources[h]) \ context[h]
  <2>1. lines \in SUBSET LinesOf(sources[h]) /\ LinesOf(sources[h]) \subseteq Line
    BY DEF Answers, LinesOf
  <2>2. Unsaid(h, lines) \subseteq LinesOf(sources[h]) \ context[h]
    BY <2>1 DEF Unsaid
  <2>3. Unsaid(h, lines) \in SUBSET Line
    BY <2>1, <2>2
  <2>4. QED
    BY <2>2, <2>3 DEF Body
<1>2. asker[h] \in Session \cup {None}
  BY DEF PromptTypeOK
<1>3. /\ body' = [body EXCEPT ![h] = Unsaid(h, lines)]
      /\ \E b \in Body : body' = [body EXCEPT ![h] = b]
  BY <1>1 DEF Propose
<1>4. Propose(h, asker[h], Body)
  BY <1>3 DEF Propose
<1>5. /\ pc[h] = "idle" /\ pc'[h] \in {"emit", "open"}
      /\ \A g \in Hook \ {h} : pc'[g] = pc[g]
  BY DEF Propose, Goto, PromptTypeOK, TypeOK
<1>6. QED
  BY <1>1, <1>2, <1>3, <1>4, <1>5 DEF PromptTypeOK, TypeOK

\* Every step of a prompt is one of the ledger, or leaves it alone.
LEMMA LedgerSteps ==
  ASSUME PromptTypeOK, [PromptNext]_promptVars
  PROVE  [Next]_ledgerVars
<1>1. ASSUME NEW h \in Hook, NEW s \in Session \cup {None}, Begin(h, s)
      PROVE  UNCHANGED ledgerVars
  BY <1>1 DEF Begin
<1>2. ASSUME NEW h \in Hook,
             \/ ConfigBroken(h) \/ Warn(h) \/ FailClosed(h) \/ Retrieve(h) \/ Select(h)
             \/ SelectMalformed(h) \/ ReadGuides(h) \/ CompileMalformed(h)
      PROVE  UNCHANGED ledgerVars
  BY <1>2 DEF ConfigBroken, Warn, FailClosed, Retrieve, Select, SelectMalformed,
              ReadGuides, CompileMalformed
<1>3. ASSUME NEW h \in Hook, Compile(h) PROVE [Next]_ledgerVars
  BY <1>3, Proposes DEF Compile, Next
<1>4. ASSUME NEW h \in Hook, Commit(h) \/ Deliver(h) PROVE [Next]_ledgerVars
  BY <1>4 DEF Commit, Deliver, Next
<1>5. ASSUME NEW s \in Session, Scroll(s) PROVE UNCHANGED ledgerVars
  BY <1>5 DEF Scroll
<1>6. CASE UNCHANGED promptVars
  BY <1>6 DEF promptVars
<1>7. QED
  BY <1>1, <1>2, <1>3, <1>4, <1>5, <1>6 DEF PromptNext, HookStep

-----------------------------------------------------------------------------
(* The invariant is inductive.                                             *)

\* The initial state satisfies it.
LEMMA InitPrompt == PromptInit => PromptInv
<1> SUFFICES ASSUME PromptInit PROVE PromptInv
  OBVIOUS
<1>1. LedgerInv
  BY InitLedger DEF PromptInit
<1>2. PromptTypeOK
  BY <1>1, LedgerAssumption DEF PromptInit, PromptTypeOK, LedgerInv, Stage
<1>3. CommitInv /\ SourceInv /\ WarnInv
  BY DEF PromptInit, Init, CommitInv, SourceInv, WarnInv, Warning
<1>4. QED
  BY <1>1, <1>2, <1>3 DEF PromptInv

\* What is read is among what was selected.
LEMMA GuidesSelected ==
  ASSUME NEW keys
  PROVE  Guides(keys) \subseteq keys
BY DEF Guides

\* A hook that ends forgets what it had in memory, the others do not.
LEMMA Ends ==
  ASSUME PromptTypeOK, NEW h \in Hook, End(h)
  PROVE  /\ stage' \in [Hook -> Stage] /\ stage'[h] = "off"
         /\ asker' \in [Hook -> Session \cup {None}]
         /\ context' \in [Hook -> SUBSET Line]
         /\ sources' \in [Hook -> SUBSET Source] /\ sources'[h] = {}
         /\ selected' \in [Hook -> SUBSET Key] /\ selected'[h] = {}
         /\ \A g \in Hook \ {h} : /\ stage'[g] = stage[g] /\ asker'[g] = asker[g]
                                  /\ sources'[g] = sources[g] /\ selected'[g] = selected[g]
BY DEF End, Enter, PromptTypeOK, Stage

\* The variables keep their types.
LEMMA PromptTypes ==
  ASSUME PromptTypeOK, TypeOK', SourceInv, WarnInv, [PromptNext]_promptVars
  PROVE  PromptTypeOK'
<1> USE DEF PromptTypeOK
<1>1. ASSUME NEW h \in Hook, NEW s \in Session \cup {None}, Begin(h, s)
      PROVE  PromptTypeOK'
  <2>1. PICK seen \in Shown(s) : context' = [context EXCEPT ![h] = seen]
    BY <1>1 DEF Begin
  <2>2. seen \subseteq Line
    BY LedgerAssumption DEF Shown
  <2>3. asked' \in 0..MaxPrompts
    BY <1>1, LedgerAssumption DEF Begin
  <2>4. QED
    BY <1>1, <2>1, <2>2, <2>3 DEF Begin, Enter, Stage, warnVars
<1>2. ASSUME NEW h \in Hook, End(h), UNCHANGED <<asked, flagged, warned>>,
             visible' \in [Session -> SUBSET Line]
      PROVE  PromptTypeOK'
  BY <1>2, Ends
<1>3. ASSUME NEW h \in Hook, ConfigBroken(h) PROVE PromptTypeOK'
  BY <1>2, <1>3 DEF ConfigBroken, Enter, Stage, warnVars
<1>4. ASSUME NEW h \in Hook, Warn(h) PROVE PromptTypeOK'
  <2>1. warned' \in [Session -> Nat]
    BY <1>4 DEF Warn, WarnInv
  <2>2. QED
    BY <1>4, <2>1, Ends DEF Warn
<1>5. ASSUME NEW h \in Hook, FailClosed(h) PROVE PromptTypeOK'
  BY <1>2, <1>5 DEF FailClosed, warnVars
<1>6. ASSUME NEW h \in Hook, Retrieve(h) PROVE PromptTypeOK'
  <2>1. PICK found \in Evidenced(h) :
          IF found = {} THEN End(h)
          ELSE /\ sources' = [sources EXCEPT ![h] = found]
               /\ Enter(h, "select") /\ UNCHANGED <<asker, context, selected>>
    BY <1>6 DEF Retrieve
  <2>2. found \subseteq Source
    BY DEF Evidenced
  <2>3. QED
    BY <1>2, <1>6, <2>1, <2>2 DEF Retrieve, Enter, Stage, warnVars
<1>7. ASSUME NEW h \in Hook, Select(h) PROVE PromptTypeOK'
  <2>1. PICK keys \in SUBSET {k \in Key : SourceOf[k] \in sources[h]} :
          IF keys = {} THEN End(h)
          ELSE /\ selected' = [selected EXCEPT ![h] = keys]
               /\ sources' = [sources EXCEPT ![h] = {SourceOf[k] : k \in keys}]
               /\ Enter(h, "read") /\ UNCHANGED <<asker, context>>
    BY <1>7 DEF Select
  <2>2. {SourceOf[k] : k \in keys} \subseteq Source /\ keys \subseteq Key
    BY <2>1
  <2>3. QED
    BY <1>2, <1>7, <2>1, <2>2 DEF Select, Enter, Stage, warnVars
<1>8. ASSUME NEW h \in Hook, ReadGuides(h) PROVE PromptTypeOK'
  <2>1. PICK read \in SUBSET ({SourceOf[k] : k \in Guides(selected[h])} \ Masked(h)) :
          IF read = {} THEN End(h)
          ELSE /\ sources' = [sources EXCEPT ![h] = read]
               /\ selected' = [selected EXCEPT ![h] = {}]
               /\ Enter(h, "compile") /\ UNCHANGED <<asker, context>>
    BY <1>8 DEF ReadGuides
  <2>2. read \subseteq Source
    BY <2>1, GuidesSelected DEF SourceInv
  <2>3. QED
    BY <1>2, <1>8, <2>1, <2>2 DEF ReadGuides, Enter, Stage, warnVars
<1>9. ASSUME NEW h \in Hook, SelectMalformed(h) \/ CompileMalformed(h) PROVE PromptTypeOK'
  BY <1>9 DEF SelectMalformed, CompileMalformed, Enter, Stage, warnVars
<1>10. ASSUME NEW h \in Hook, Compile(h) PROVE PromptTypeOK'
  BY <1>2, <1>10 DEF Compile, Enter, Stage, warnVars
<1>11. ASSUME NEW h \in Hook, Commit(h) PROVE PromptTypeOK'
  BY <1>2, <1>11 DEF Commit, stageVars, warnVars
<1>12. ASSUME NEW h \in Hook, Deliver(h) PROVE PromptTypeOK'
  <2>1. visible' \in [Session -> SUBSET Line]
    BY <1>12 DEF Deliver, TypeOK
  <2>2. QED
    BY <1>2, <1>12, <2>1 DEF Deliver, warnVars
<1>13. ASSUME NEW s \in Session, Scroll(s) PROVE PromptTypeOK'
  BY <1>13 DEF Scroll, stageVars, warnVars
<1>14. CASE UNCHANGED promptVars
  BY <1>14 DEF promptVars, stageVars, warnVars
<1>15. QED
  BY <1>1, <1>3, <1>4, <1>5, <1>6, <1>7, <1>8, <1>9, <1>10, <1>11, <1>12, <1>13, <1>14
     DEF PromptNext, HookStep

\* A hook enters the ledger's code with the compiled lines and leaves it when
\* it ends.
LEMMA CommitSteps ==
  ASSUME PromptTypeOK, CommitInv, [PromptNext]_promptVars
  PROVE  CommitInv'
<1> USE DEF CommitInv
<1>1. ASSUME NEW h \in Hook, UNCHANGED ledgerVars,
             \/ UNCHANGED stage
             \/ End(h) /\ stage[h] /= "commit"
             \/ \E place \in Stage \ {"commit"} : stage[h] /= "commit" /\ Enter(h, place)
      PROVE  CommitInv'
  BY <1>1 DEF ledgerVars, hookVars, End, Enter, PromptTypeOK, Stage
<1>2. ASSUME NEW h \in Hook, NEW s \in Session \cup {None}, Begin(h, s)
      PROVE  CommitInv'
  BY <1>1, <1>2 DEF Begin, Stage
<1>3. ASSUME NEW h \in Hook,
             \/ ConfigBroken(h) \/ Warn(h) \/ FailClosed(h) \/ Retrieve(h) \/ Select(h)
             \/ SelectMalformed(h) \/ ReadGuides(h) \/ CompileMalformed(h)
      PROVE  CommitInv'
  <2>1. /\ UNCHANGED ledgerVars /\ stage[h] /= "commit"
        /\ End(h) \/ \E place \in Stage \ {"commit"} : Enter(h, place)
    BY <1>3 DEF ConfigBroken, Warn, FailClosed, Retrieve, Select, SelectMalformed,
                ReadGuides, CompileMalformed, Stage
  <2>2. QED
    BY <1>1, <2>1
<1>4. ASSUME NEW h \in Hook, Compile(h) PROVE CommitInv'
  <2>1. CASE End(h) /\ UNCHANGED ledgerVars
    BY <1>1, <1>4, <2>1 DEF Compile
  <2>2. CASE ~(End(h) /\ UNCHANGED ledgerVars)
    <3>1. PICK lines \in Answers(h) :
            /\ Unsaid(h, lines) /= {}
            /\ Propose(h, asker[h], {Unsaid(h, lines)}) /\ Enter(h, "commit")
      BY <1>4, <2>2 DEF Compile
    <3>2. /\ pc'[h] \in {"emit", "open"}
          /\ \A g \in Hook \ {h} : pc'[g] = pc[g] /\ body'[g] = body[g]
      BY <3>1, Proposes
    <3>3. QED
      BY <3>1, <3>2 DEF Enter, PromptTypeOK
  <2>3. QED
    BY <2>1, <2>2
<1>5. ASSUME NEW h \in Hook, Commit(h) PROVE CommitInv'
  <2>1. /\ stage[h] = "commit" /\ CommitStep(h)
        /\ IF pc'[h] = "idle" THEN End(h) ELSE UNCHANGED stage
    BY <1>5 DEF Commit, stageVars
  <2>2. /\ pc'[h] = "idle" => body'[h] = {}
        /\ \A g \in Hook \ {h} : pc'[g] = pc[g] /\ body'[g] = body[g]
    BY <2>1, Commits DEF PromptTypeOK
  <2>3. QED
    BY <2>1, <2>2, Ends DEF PromptTypeOK
<1>6. ASSUME NEW h \in Hook, Deliver(h) PROVE CommitInv'
  <2>1. End(h) /\ Finish(h) /\ TypeOK
    BY <1>6 DEF Deliver, Emit, PromptTypeOK
  <2>2. /\ pc'[h] = "idle" /\ body'[h] = {}
        /\ \A g \in Hook \ {h} : pc'[g] = pc[g] /\ body'[g] = body[g]
    BY <2>1 DEF Finish, Goto, TypeOK
  <2>3. QED
    BY <2>1, <2>2, Ends
<1>7. ASSUME NEW s \in Session, Scroll(s) PROVE CommitInv'
  BY <1>7 DEF Scroll, stageVars, ledgerVars, hookVars
<1>8. CASE UNCHANGED promptVars
  BY <1>8 DEF promptVars, stageVars, ledgerVars, hookVars
<1>9. QED
  BY <1>2, <1>3, <1>4, <1>5, <1>6, <1>7, <1>8 DEF PromptNext, HookStep

\* Sources are found once, and only narrowed from there.
LEMMA SourceSteps ==
  ASSUME PromptTypeOK, SourceInv, [PromptNext]_promptVars
  PROVE  /\ SourceInv'
         /\ \A h \in Hook : sources[h] /= {} => sources'[h] \subseteq sources[h]
<1> DEFINE Narrows == \A h \in Hook : sources[h] /= {} => sources'[h] \subseteq sources[h]
<1> USE DEF SourceInv, PromptTypeOK
<1>1. ASSUME NEW h \in Hook, End(h) PROVE SourceInv' /\ Narrows
  BY <1>1, Ends
<1>2. ASSUME NEW h \in Hook, UNCHANGED <<sources, selected>>,
             \/ UNCHANGED stage
             \/ stage[h] \in {"off", "config", "warn"} /\ stage' = [stage EXCEPT ![h] = "config"]
             \/ stage[h] \in {"off", "config", "warn"} /\ stage' = [stage EXCEPT ![h] = "warn"]
             \/ \E place \in {"reselect", "recompile", "commit"} : Enter(h, place)
      PROVE  SourceInv' /\ Narrows
  BY <1>2 DEF Enter
<1>3. ASSUME NEW h \in Hook, NEW s \in Session \cup {None}, Begin(h, s)
      PROVE  SourceInv' /\ Narrows
  BY <1>2, <1>3 DEF Begin, Enter
<1>4. ASSUME NEW h \in Hook, ConfigBroken(h) \/ Warn(h) \/ FailClosed(h)
      PROVE  SourceInv' /\ Narrows
  BY <1>1, <1>2, <1>4 DEF ConfigBroken, Warn, FailClosed, Enter
<1>5. ASSUME NEW h \in Hook, SelectMalformed(h) \/ CompileMalformed(h) \/ Compile(h)
      PROVE  SourceInv' /\ Narrows
  BY <1>1, <1>2, <1>5 DEF SelectMalformed, CompileMalformed, Compile
<1>6. ASSUME NEW h \in Hook, Retrieve(h) PROVE SourceInv' /\ Narrows
  <2>1. \/ End(h)
        \/ /\ sources[h] = {} /\ UNCHANGED selected /\ Enter(h, "select")
           /\ \E found \in Evidenced(h) : sources' = [sources EXCEPT ![h] = found]
           /\ selected[h] = {}
    BY <1>6 DEF Retrieve
  <2>2. QED
    BY <1>1, <2>1 DEF Enter
<1>7. ASSUME NEW h \in Hook, Select(h) PROVE SourceInv' /\ Narrows
  <2>1. CASE End(h)
    BY <1>1, <2>1
  <2>2. CASE ~End(h)
    <3>1. PICK keys \in SUBSET {k \in Key : SourceOf[k] \in sources[h]} :
            /\ selected' = [selected EXCEPT ![h] = keys]
            /\ sources' = [sources EXCEPT ![h] = {SourceOf[k] : k \in keys}]
            /\ stage' = [stage EXCEPT ![h] = "read"]
      BY <1>7, <2>2 DEF Select, Enter
    <3>2. {SourceOf[k] : k \in keys} \subseteq sources[h]
      BY <3>1
    <3>3. QED
      BY <3>1, <3>2
  <2>3. QED
    BY <2>1, <2>2
<1>8. ASSUME NEW h \in Hook, ReadGuides(h) PROVE SourceInv' /\ Narrows
  <2>1. CASE End(h)
    BY <1>1, <2>1
  <2>2. CASE ~End(h)
    <3>1. PICK read \in SUBSET ({SourceOf[k] : k \in Guides(selected[h])} \ Masked(h)) :
            /\ sources' = [sources EXCEPT ![h] = read]
            /\ selected' = [selected EXCEPT ![h] = {}]
            /\ stage' = [stage EXCEPT ![h] = "compile"]
      BY <1>8, <2>2 DEF ReadGuides, Enter
    <3>2. read \subseteq sources[h]
      BY <3>1, GuidesSelected
    <3>3. QED
      BY <3>1, <3>2
  <2>3. QED
    BY <2>1, <2>2
<1>9. ASSUME NEW h \in Hook, Commit(h) \/ Deliver(h) PROVE SourceInv' /\ Narrows
  <2>1. End(h) \/ UNCHANGED stageVars
    BY <1>9 DEF Commit, Deliver
  <2>2. QED
    BY <1>1, <1>2, <2>1 DEF stageVars
<1>10. CASE (\E s \in Session : Scroll(s)) \/ UNCHANGED promptVars
  BY <1>10 DEF Scroll, promptVars, stageVars
<1>11. QED
  BY <1>3, <1>4, <1>5, <1>6, <1>7, <1>8, <1>9, <1>10 DEF PromptNext, HookStep

\* The hook that makes the marker is the one that warns.
LEMMA WarnSteps ==
  ASSUME PromptTypeOK, WarnInv, [PromptNext]_promptVars
  PROVE  WarnInv'
<1> USE DEF PromptTypeOK, WarnInv, Warning
<1>1. ASSUME UNCHANGED <<flagged, warned>>,
             \A h \in Hook : stage'[h] = "warn" =>
               stage[h] = "warn" /\ asker'[h] = asker[h]
      PROVE  WarnInv'
  BY <1>1
<1>2. ASSUME NEW h \in Hook, End(h), UNCHANGED <<flagged, warned>> PROVE WarnInv'
  BY <1>1, <1>2, Ends
<1>3. ASSUME NEW h \in Hook, UNCHANGED <<flagged, warned>>, UNCHANGED asker,
             \E place \in Stage \ {"warn"} : Enter(h, place)
      PROVE  WarnInv'
  BY <1>1, <1>3 DEF Enter
<1>4. ASSUME NEW h \in Hook, NEW s \in Session \cup {None}, Begin(h, s)
      PROVE  WarnInv'
  <2>1. \A g \in Hook : stage'[g] = "warn" => stage[g] = "warn" /\ asker'[g] = asker[g]
    BY <1>4 DEF Begin, Enter
  <2>2. QED
    BY <1>1, <1>4, <2>1 DEF Begin, warnVars
<1>5. ASSUME NEW h \in Hook, ConfigBroken(h) PROVE WarnInv'
  <2>1. CASE End(h) /\ UNCHANGED warnVars
    BY <1>2, <2>1 DEF warnVars
  <2>2. CASE ~(End(h) /\ UNCHANGED warnVars)
    <3>1. PICK s \in Session :
            /\ s = asker[h] /\ ~flagged[s]
            /\ flagged' = [flagged EXCEPT ![s] = TRUE]
            /\ stage' = [stage EXCEPT ![h] = "warn"]
            /\ UNCHANGED <<asker, warned>>
      BY <1>5, <2>2 DEF ConfigBroken, Enter
    <3>2. warned[s] = 0 /\ Warning(s) = {}
      BY <3>1
    <3>3. Warning(s)' = {h}
      BY <3>1, <3>2
    <3>4. \A t \in Session \ {s} : Warning(t)' = Warning(t) /\ flagged'[t] = flagged[t]
      BY <3>1
    <3>5. flagged'[s] /\ \A g \in Hook : stage'[g] = "warn" => asker'[g] \in Session
      BY <3>1
    <3>6. QED
      BY <3>1, <3>2, <3>3, <3>4, <3>5
  <2>3. QED
    BY <2>1, <2>2
<1>6. ASSUME NEW h \in Hook, Warn(h) PROVE WarnInv'
  <2>1. PICK s \in Session : s = asker[h]
    BY <1>6 DEF Warn
  <2>2. /\ stage[h] = "warn" /\ UNCHANGED flagged /\ warned[s] = 0 /\ flagged[s]
        /\ Warning(s) = {h}
        /\ warned' = [warned EXCEPT ![s] = @ + 1]
    BY <1>6, <2>1 DEF Warn
  <2>3. /\ stage'[h] = "off"
        /\ \A g \in Hook \ {h} : stage'[g] = stage[g] /\ asker'[g] = asker[g]
    BY <1>6, Ends DEF Warn
  <2>4. Warning(s)' = {} /\ \A t \in Session \ {s} : Warning(t)' = Warning(t)
    BY <2>1, <2>2, <2>3
  <2>5. /\ warned'[s] = 1 /\ \A t \in Session \ {s} : warned'[t] = warned[t]
    BY <2>2
  <2>6. \A g \in Hook : stage'[g] = "warn" => asker'[g] \in Session
    BY <2>3
  <2>7. QED
    BY <2>2, <2>4, <2>5, <2>6
<1>7. ASSUME NEW h \in Hook,
             \/ FailClosed(h) \/ Retrieve(h) \/ Select(h)
             \/ SelectMalformed(h) \/ ReadGuides(h) \/ CompileMalformed(h) \/ Compile(h)
      PROVE  WarnInv'
  <2>1. /\ UNCHANGED <<flagged, warned>>
        /\ \/ End(h)
           \/ UNCHANGED asker /\ \E place \in Stage \ {"warn"} : Enter(h, place)
    BY <1>7 DEF FailClosed, Retrieve, Select, SelectMalformed, ReadGuides,
                CompileMalformed, Compile, warnVars, Stage
  <2>2. QED
    BY <1>2, <1>3, <2>1
<1>8. ASSUME NEW h \in Hook, Commit(h) \/ Deliver(h) PROVE WarnInv'
  <2>1. UNCHANGED <<flagged, warned>> /\ (End(h) \/ UNCHANGED <<stage, asker>>)
    BY <1>8 DEF Commit, Deliver, stageVars, warnVars
  <2>2. QED
    BY <1>1, <1>2, <2>1
<1>9. CASE (\E s \in Session : Scroll(s)) \/ UNCHANGED promptVars
  BY <1>1, <1>9 DEF Scroll, promptVars, stageVars, warnVars
<1>10. QED
  BY <1>4, <1>5, <1>6, <1>7, <1>8, <1>9 DEF PromptNext, HookStep

\* Every step keeps the invariant.
LEMMA NextPrompt == PromptInv /\ [PromptNext]_promptVars => PromptInv'
<1> SUFFICES ASSUME PromptInv, [PromptNext]_promptVars PROVE PromptInv'
  OBVIOUS
<1> USE DEF PromptInv
<1>1. LedgerInv'
  BY LedgerSteps, NextLedger
<1>2. PromptTypeOK'
  BY <1>1, PromptTypes DEF LedgerInv
<1>3. QED
  BY <1>1, <1>2, CommitSteps, SourceSteps, WarnSteps

\* What is committed cites what was read and says what the transcript did not,
\* and the commit takes lines out, never in.
LEMMA BodySteps ==
  ASSUME PromptTypeOK, CommitInv, [PromptNext]_promptVars, NEW h \in Hook
  PROVE  /\ pc[h] = "idle" => body'[h] \subseteq LinesOf(sources[h]) \ context[h]
         /\ pc[h] /= "idle" => body'[h] \subseteq body[h]
<1> DEFINE Supported ==
             /\ pc[h] = "idle" => body'[h] \subseteq LinesOf(sources[h]) \ context[h]
             /\ pc[h] /= "idle" => body'[h] \subseteq body[h]
<1>1. CASE body'[h] = body[h]
  BY <1>1 DEF CommitInv
<1>2. ASSUME NEW g \in Hook, Compile(g) PROVE Supported
  <2>1. CASE UNCHANGED ledgerVars
    BY <1>1, <2>1 DEF ledgerVars, hookVars
  <2>2. CASE ~UNCHANGED ledgerVars
    <3>1. PICK lines \in Answers(g) :
            /\ Unsaid(g, lines) /= {} /\ Propose(g, asker[g], {Unsaid(g, lines)})
      BY <1>2, <2>2 DEF Compile
    <3>2. /\ pc[g] = "idle" /\ body'[g] \subseteq LinesOf(sources[g]) \ context[g]
          /\ \A other \in Hook \ {g} : body'[other] = body[other]
      BY <3>1, Proposes
    <3>3. QED
      BY <1>1, <3>2
  <2>3. QED
    BY <2>1, <2>2
<1>3. ASSUME NEW g \in Hook, Commit(g) \/ Deliver(g) PROVE Supported
  <2>1. CommitStep(g) \/ Emit(g)
    BY <1>3 DEF Commit, Deliver
  <2>2. /\ pc[g] /= "idle" /\ body'[g] \subseteq body[g]
        /\ \A other \in Hook \ {g} : body'[other] = body[other]
    BY <2>1, Commits DEF PromptTypeOK
  <2>3. QED
    BY <1>1, <2>2
<1>4. CASE UNCHANGED ledgerVars
  BY <1>1, <1>4 DEF ledgerVars, hookVars
<1>5. QED
  BY <1>2, <1>3, <1>4
     DEF PromptNext, HookStep, Begin, ConfigBroken, Warn, FailClosed, Retrieve, Select,
         SelectMalformed, ReadGuides, CompileMalformed, Scroll, promptVars

-----------------------------------------------------------------------------
(* Theorems.                                                               *)

\* The invariant holds in every reachable state.
THEOREM PromptInvariance == PromptSpec => []PromptInv
BY InitPrompt, NextPrompt, PTL DEF PromptSpec

\* The variables keep their types.
THEOREM PromptTypesHold == PromptSpec => []PromptTypeOK
BY PromptInvariance, PTL DEF PromptInv

\* A session is warned of a missing configuration at most once.
THEOREM WarnsOnce == PromptSpec => []WarnedOnce
<1>1. PromptInv => WarnedOnce
  BY DEF PromptInv, WarnInv, WarnedOnce
<1>2. QED
  BY <1>1, PromptInvariance, PTL

\* What is printed cites sources that had evidence, were selected and read, and
\* repeats no line the hook saw in the transcript.
THEOREM PrintsSupported == PromptSpec => PrintedIsSupported
<1>1. ASSUME PromptInv, [PromptNext]_promptVars
      PROVE  \A h \in Hook :
               /\ sources[h] /= {} => sources'[h] \subseteq sources[h]
               /\ pc[h] = "idle" => body'[h] \subseteq LinesOf(sources[h]) \ context[h]
               /\ pc[h] /= "idle" => body'[h] \subseteq body[h]
  BY <1>1, SourceSteps, BodySteps DEF PromptInv
<1>2. QED
  BY <1>1, PromptInvariance, PTL DEF PromptSpec, PrintedIsSupported

\* The hooks of the prompts are hooks of SessionLedger: nothing is printed but
\* through the ledger.
THEOREM PromptsCommit == PromptSpec => CommitsThroughLedger
<1>1. PromptInit => Init
  BY DEF PromptInit
<1>2. PromptInv /\ [PromptNext]_promptVars => [Next]_ledgerVars
  BY LedgerSteps DEF PromptInv
<1>3. QED
  BY <1>1, <1>2, PromptInvariance, PTL DEF PromptSpec, CommitsThroughLedger, Spec

\* So what is proved of the ledger holds of the prompts: a session is told a
\* fact again at most for each time its ledger was damaged, by any of its
\* prompts.
THEOREM PromptLedgerIsSafe == PromptSpec => []LedgerSafe
BY PromptsCommit, LedgerIsSafe, PTL DEF CommitsThroughLedger
=============================================================================
