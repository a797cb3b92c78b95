------------------------------ MODULE Wiki_proofs ------------------------------
(***************************************************************************)
(* Proofs about what captures write.  ClaimsLog, for any scribes, claims,  *)
(* embeddings, appends and kills: a list of records is sound (Sound) while *)
(* it is the log, and while a confirmation holds it in memory to write it; *)
(* who appends to it has found the claim's cluster under the lock          *)
(* (ScribeOK).  GuideWiki, for any guides, claims, operations and passes:  *)
(* every operation keeps the markers of what was read (Keeps), so that a   *)
(* marker is always in a guide that nobody is about to delete as he read   *)
(* it (ConservedInv); what a capture owes is on its way (OwedInv); and its *)
(* maintenance works towards a mended wiki (LinksInv).  EpisodeCards, for  *)
(* any sessions, dates, arcs, answers and kills: the files hold what fits  *)
(* there and so does what a linker is about to write (FilesInv), and of    *)
(* what each file will hold once it is written (Written) an arc has one    *)
(* card (OneInv) and what is superseded is named (NamedInv).               *)
(***************************************************************************)
EXTENDS ClaimsLog, GuideWiki, EpisodeCards, NumberLemmas, SequenceTheorems,
        FiniteSetTheorems, TLAPS

\* Who is under the lock has it.
LockInv == \A w \in Scribe : place[w] \in UnderClaimLock <=> claimLock = w

\* The pairs of a claim and a cluster that a record may hold: the cluster has
\* a centroid, and the map agrees, or the scribe that appended the record is
\* about to see to it, or was killed before it did.
Reached ==
  {p \in Claim \X Claim :
     /\ centroid[p[2]] /= Nobody
     /\ \/ member[p[1]] = p[2]
        \/ p[1] \in cutShort
        \/ \E w \in Scribe : place[w] = "map" /\ tapped[w] = p[1] /\ cluster[w] = p[2]}

\* What a record supersedes is the claim of an earlier one.
PointsBack(records) ==
  \A i \in DOMAIN records : \A c \in records[i].supersedes :
    \E j \in 1..(i - 1) : records[j].id = c

\* Ids are distinct, each of a claim in ids; pairs are in reached; and unless
\* records were lost, a record points back.
Sound(records, ids, reached, lost) ==
  /\ \A i, j \in DOMAIN records : records[i].id = records[j].id => i = j
  /\ \A i \in DOMAIN records :
       records[i].id \in ids /\ <<records[i].id, records[i].cluster>> \in reached
  /\ lost = 0 => PointsBack(records)

\* The map names clusters that are there.
MembersInv == \A c \in Claim : member[c] /= Nobody => centroid[member[c]] /= Nobody

\* A scribe at work has a claim in hand, whose targets were recorded.  When it
\* appends, the claim's cluster is there, and is that of the map; when it
\* writes the file anew, it has all of the log in memory.
ScribeOK(w) ==
  /\ place[w] /= Idle => tapped[w] \in Claim
  /\ edges[w] \subseteq recorded
  /\ place[w] \in {"append", "map"} =>
       /\ cluster[w] \in Claim /\ centroid[cluster[w]] /= Nobody
       /\ member[tapped[w]] /= Nobody => member[tapped[w]] = cluster[w]
  /\ place[w] \in {"truncate", "rewrite"} =>
       /\ Sound(rewritten[w], recorded, Reached, emptied)
       /\ Ids(log) \subseteq Ids(rewritten[w])

\* What confirmations are about to write.
BeingWritten == UNION {Ids(rewritten[w]) : w \in {v \in Scribe : place[v] = "rewrite"}}

\* What was recorded is in the log or about to be written again.
KeptInv == emptied = 0 => recorded \subseteq Ids(log) \cup BeingWritten

ClaimsInv ==
  /\ ClaimsTypeOK
  /\ LockInv
  /\ MembersInv
  /\ Sound(log, recorded, Reached, emptied)
  /\ \A w \in Scribe : ScribeOK(w)
  /\ KeptInv

-----------------------------------------------------------------------------
(* Lists of records.                                                       *)

\* A list has the ids of its records.
LEMMA IdsOfList ==
  ASSUME NEW records \in Seq(Record)
  PROVE  Ids(records) = {records[i].id : i \in DOMAIN records}
BY DEF Ids, ToSet

\* A sound list stays so while more claims are recorded and reached, and no
\* rewrite that was killed is forgotten.
LEMMA SoundGrows ==
  ASSUME NEW records, NEW ids, NEW reached, NEW lost,
         NEW ids2, NEW reached2, NEW lost2,
         Sound(records, ids, reached, lost),
         ids \subseteq ids2, reached \subseteq reached2, lost2 = 0 => lost = 0
  PROVE  Sound(records, ids2, reached2, lost2)
BY DEF Sound

\* An empty list of records is sound.
LEMMA SoundEmpty ==
  ASSUME NEW ids, NEW reached, NEW lost
  PROVE  Sound(<<>>, ids, reached, lost)
BY DEF Sound, PointsBack

\* A new record behind a sound list, whose targets are in it.
LEMMA SoundAppend ==
  ASSUME NEW records \in Seq(Record), NEW r \in Record,
         NEW ids, NEW reached, NEW lost,
         Sound(records, ids, reached, lost),
         r.id \notin Ids(records), r.id \in ids, <<r.id, r.cluster>> \in reached,
         lost = 0 => r.supersedes \subseteq Ids(records)
  PROVE  /\ Sound(Append(records, r), ids, reached, lost)
         /\ Ids(Append(records, r)) = Ids(records) \cup {r.id}
<1> DEFINE n == Len(records)
           t == Append(records, r)
<1>1. /\ n \in Nat /\ DOMAIN records = 1..n
      /\ t \in Seq(Record) /\ DOMAIN t = 1..(n + 1)
      /\ t[n + 1] = r /\ \A i \in 1..n : t[i] = records[i]
  BY LenProperties, AppendProperties
<1> HIDE DEF n, t
<1>2. \A i \in 1..n : records[i].id /= r.id
  BY <1>1, IdsOfList
<1>3. \A i, j \in DOMAIN t : t[i].id = t[j].id => i = j
  BY <1>1, <1>2 DEF Sound
<1>4. \A i \in DOMAIN t : t[i].id \in ids /\ <<t[i].id, t[i].cluster>> \in reached
  BY <1>1 DEF Sound
<1>5. ASSUME lost = 0
      PROVE  PointsBack(t)
  <2> SUFFICES ASSUME NEW i \in DOMAIN t, NEW c \in t[i].supersedes
               PROVE  \E j \in 1..(i - 1) : t[j].id = c
    BY DEF PointsBack
  <2>1. CASE i = n + 1
    <3>1. PICK j \in 1..n : records[j].id = c
      BY <1>1, <1>5, <2>1, IdsOfList
    <3>2. QED
      BY <1>1, <2>1, <3>1
  <2>2. CASE i \in 1..n
    <3>1. PICK j \in 1..(i - 1) : records[j].id = c
      BY <1>1, <1>5, <2>2 DEF Sound, PointsBack
    <3>2. j \in 1..n
      BY <1>1, <2>2, <3>1
    <3>3. QED
      BY <1>1, <3>1, <3>2
  <2>3. QED
    BY <1>1, <2>1, <2>2
<1>6. Ids(t) = Ids(records) \cup {r.id}
  <2>1. Ids(t) = {t[i].id : i \in 1..(n + 1)} /\ Ids(records) = {records[i].id : i \in 1..n}
    BY <1>1, IdsOfList
  <2>2. 1..(n + 1) = (1..n) \cup {n + 1}
    BY <1>1
  <2>3. QED
    BY <1>1, <2>1, <2>2
<1>7. QED
  BY <1>3, <1>4, <1>5, <1>6 DEF Sound, t

\* The beginning of a sound list.
LEMMA SoundPrefix ==
  ASSUME NEW records \in Seq(Record), NEW n \in 0..(Len(records) - 1),
         NEW ids, NEW reached, NEW lost,
         Sound(records, ids, reached, lost)
  PROVE  /\ SubSeq(records, 1, n) \in Seq(Record)
         /\ Sound(SubSeq(records, 1, n), ids, reached, lost)
<1> DEFINE t == SubSeq(records, 1, n)
<1>1. Len(records) \in Nat /\ DOMAIN records = 1..Len(records)
  BY LenProperties
<1>2. \A i \in 1..n : records[i] \in Record
  BY <1>1, ElementOfSeq
<1>3. /\ t \in Seq(Record) /\ DOMAIN t = 1..n
      /\ \A i \in 1..n : t[i] = records[i]
  BY <1>1, <1>2, SubSeqProperties, LenProperties
<1> HIDE DEF t
<1>4. \A i, j \in DOMAIN t : t[i].id = t[j].id => i = j
  BY <1>1, <1>3 DEF Sound
<1>5. \A i \in DOMAIN t : t[i].id \in ids /\ <<t[i].id, t[i].cluster>> \in reached
  BY <1>1, <1>3 DEF Sound
<1>6. ASSUME lost = 0
      PROVE  PointsBack(t)
  <2> SUFFICES ASSUME NEW i \in 1..n, NEW c \in records[i].supersedes
               PROVE  \E j \in 1..(i - 1) : t[j].id = c
    BY <1>3 DEF PointsBack
  <2>1. PICK j \in 1..(i - 1) : records[j].id = c
    BY <1>1, <1>6 DEF Sound, PointsBack
  <2>2. QED
    BY <1>3, <2>1
<1>7. QED
  BY <1>3, <1>4, <1>5, <1>6 DEF Sound, t

\* A list in which a record is confirmed is as sound.
LEMMA SoundConfirmed ==
  ASSUME NEW records \in Seq(Record), NEW c,
         NEW ids, NEW reached, NEW lost,
         Sound(records, ids, reached, lost)
  PROVE  LET t == [i \in DOMAIN records |->
                     IF records[i].id = c THEN [records[i] EXCEPT !.confirmed = TRUE]
                                          ELSE records[i]]
         IN /\ t \in Seq(Record)
            /\ Sound(t, ids, reached, lost)
            /\ Ids(t) = Ids(records)
<1> DEFINE t == [i \in DOMAIN records |->
                   IF records[i].id = c THEN [records[i] EXCEPT !.confirmed = TRUE]
                                        ELSE records[i]]
<1>1. Len(records) \in Nat /\ DOMAIN records = 1..Len(records)
  BY LenProperties
<1>2. \A i \in DOMAIN records : records[i] \in Record
  BY <1>1, ElementOfSeq
<1>3. \A i \in DOMAIN records :
        /\ t[i] \in Record
        /\ t[i].id = records[i].id /\ t[i].cluster = records[i].cluster
        /\ t[i].supersedes = records[i].supersedes
  BY <1>2 DEF Record
<1>4. t \in [1..Len(records) -> Record]
  BY <1>1, <1>3
<1>5. t \in Seq(Record) /\ DOMAIN t = DOMAIN records
  BY <1>1, <1>4, SeqDef
<1> HIDE DEF t
<1>6. PointsBack(records) => PointsBack(t)
  <2> SUFFICES ASSUME PointsBack(records),
                      NEW i \in DOMAIN records, NEW d \in records[i].supersedes
               PROVE  \E j \in 1..(i - 1) : t[j].id = d
    BY <1>3, <1>5 DEF PointsBack
  <2>1. PICK j \in 1..(i - 1) : records[j].id = d
    BY DEF PointsBack
  <2>2. j \in DOMAIN records
    BY <1>1, <2>1
  <2>3. QED
    BY <1>3, <2>1, <2>2
<1>7. Sound(t, ids, reached, lost)
  BY <1>3, <1>5, <1>6 DEF Sound
<1>8. Ids(t) = Ids(records)
  <2>1. Ids(t) = {t[i].id : i \in DOMAIN records}
    BY <1>5, IdsOfList
  <2>2. Ids(records) = {records[i].id : i \in DOMAIN records}
    BY IdsOfList
  <2>3. QED
    BY <1>3, <2>1, <2>2
<1>9. QED
  BY <1>5, <1>7, <1>8 DEF t

-----------------------------------------------------------------------------
(* Types.                                                                  *)

\* What ends a scribe's work.
LEMMA StopTypes ==
  ASSUME ClaimsTypeOK, NEW w \in Scribe, Stop(w), Unlock(w)
  PROVE  /\ place' \in [Scribe -> {Idle, "tap", "confirm"} \cup UnderClaimLock]
         /\ tapped' \in [Scribe -> Claim \cup {Nobody}]
         /\ edges' \in [Scribe -> SUBSET Claim]
         /\ cluster' \in [Scribe -> Claim \cup {Nobody}]
         /\ rewritten' \in [Scribe -> Seq(Record)]
         /\ claimLock' \in Scribe \cup {Nobody}
         /\ place'[w] = Idle /\ edges'[w] = {}
         /\ claimLock' = IF claimLock = w THEN Nobody ELSE claimLock
<1>1. <<>> \in Seq(Record)
  BY EmptySeq
<1>2. QED
  BY <1>1 DEF ClaimsTypeOK, Stop, GoTo, Unlock

\* An average of points is a point.
LEMMA AveragedIsPoint ==
  ASSUME ClaimsTypeOK, NEW c \in Claim, NEW d \in Claim, centroid[d] \in Int
  PROVE  Averaged(c, d) \in Int
<1> DEFINE members == {e \in Claim : member[e] = d}
<1>1. Cardinality(members) \in Nat
  BY ClaimsAssumption, FS_Subset, FS_CardinalityType
<1> HIDE DEF members
<1>2. Point[c] \in Int
  BY ClaimsAssumption
<1>3. \A n \in Nat, x, y \in Int : (x * ((n + 1) - 1) + 60 * y) \div (n + 1) \in Int
  OBVIOUS
<1>4. Averaged(c, d) = (centroid[d] * ((Cardinality(members) + 1) - 1) + 60 * Point[c])
                         \div (Cardinality(members) + 1)
  BY DEF Averaged, members
<1>5. QED
  BY <1>1, <1>2, <1>3, <1>4

\* The ids of a list of records are claims.
LEMMA IdsAreClaims ==
  ASSUME NEW records \in Seq(Record)
  PROVE  Ids(records) \subseteq Claim
<1>1. DOMAIN records = 1..Len(records)
  BY LenProperties
<1>2. \A i \in DOMAIN records : records[i] \in Record
  BY <1>1, ElementOfSeq
<1>3. \A i \in DOMAIN records : records[i].id \in Claim
  BY <1>2 DEF Record
<1>4. QED
  BY <1>3, IdsOfList

\* A digest is of claims in the log.
LEMMA DigestsOfLog ==
  ASSUME ClaimsTypeOK, NEW digest \in Digests
  PROVE  digest \subseteq Ids(log) /\ digest \subseteq Claim
<1>1. Ids(log) \subseteq Claim
  BY IdsAreClaims DEF ClaimsTypeOK
<1>2. QED
  BY <1>1 DEF Digests

\* A delta operation begins a tap or a confirmation, with targets in the log.
LEMMA DeltaOpBegins ==
  ASSUME ClaimsTypeOK, NEW w, DeltaOp(w)
  PROVE  \E c \in Claim, p \in {"tap", "confirm"}, e \in SUBSET Ids(log) : Begin(w, c, p, e)
<1>1. PICK digest \in Digests, c \in Claim :
        \/ Begin(w, c, "tap", {})
        \/ \E target \in digest : Begin(w, c, "tap", {target})
        \/ Begin(w, c, "confirm", {})
  BY DEF DeltaOp
<1>2. \A target \in digest : {target} \in SUBSET Ids(log)
  BY DigestsOfLog
<1>3. QED
  BY <1>1, <1>2

\* Delta operations and the lock.
LEMMA BeginTypes ==
  ASSUME ClaimsTypeOK, NEW w \in Scribe, DeltaOp(w) \/ TakeClaimLock(w)
  PROVE  ClaimsTypeOK'
<1> USE DEF ClaimsTypeOK
<1>1. CASE DeltaOp(w)
  <2>1. PICK c \in Claim, p \in {"tap", "confirm"}, e \in SUBSET Ids(log) : Begin(w, c, p, e)
    BY <1>1, DeltaOpBegins
  <2>2. place' \in [Scribe -> {Idle, "tap", "confirm"} \cup UnderClaimLock]
    BY <2>1 DEF Begin, GoTo
  <2>3. /\ tapped' \in [Scribe -> Claim \cup {Nobody}]
        /\ edges' \in [Scribe -> SUBSET Claim]
        /\ taps' \in 0..MaxTaps
    BY <2>1, IdsAreClaims, ClaimsAssumption DEF Begin
  <2>4. QED
    BY <2>1, <2>2, <2>3 DEF Begin, logVars, claimHistory
<1>2. CASE TakeClaimLock(w)
  BY <1>2 DEF TakeClaimLock, GoTo, UnderClaimLock, claimHistory
<1>3. QED
  BY <1>1, <1>2

\* A capture's steps.
LEMMA AppendTypes ==
  ASSUME ClaimsTypeOK, NEW w \in Scribe, ScribeOK(w),
         Link(w) \/ Assign(w) \/ AssignConflicts(w)
           \/ AppendClaim(w) \/ AppendUnreadable(w) \/ MapClaim(w)
  PROVE  ClaimsTypeOK'
<1> USE DEF ClaimsTypeOK
<1>1. CASE Link(w)
  <2>1. Ids(log) \subseteq Claim
    BY IdsAreClaims
  <2>2. edges' \in [Scribe -> SUBSET Claim]
    BY <1>1, <2>1 DEF Link
  <2>3. QED
    BY <1>1, <2>2 DEF Link, GoTo, UnderClaimLock, logVars, claimHistory
<1>2. CASE Assign(w)
  <2>1. tapped[w] \in Claim
    BY <1>2 DEF Assign, ScribeOK, Idle
  <2>2. /\ cluster' \in [Scribe -> Claim \cup {Nobody}]
        /\ centroid' \in [Claim -> Int \cup {Nobody}]
    <3>1. CASE member[tapped[w]] /= Nobody /\ UNCHANGED centroid
               /\ cluster' = [cluster EXCEPT ![w] = member[tapped[w]]]
      BY <2>1, <3>1
    <3>2. ASSUME NEW d \in Nearest(tapped[w]), cluster' = [cluster EXCEPT ![w] = d],
                 centroid' = [centroid EXCEPT ![d] = Averaged(tapped[w], d)]
          PROVE  /\ cluster' \in [Scribe -> Claim \cup {Nobody}]
                 /\ centroid' \in [Claim -> Int \cup {Nobody}]
      <4>1. d \in Claim /\ centroid[d] \in Int
        BY <3>2 DEF Nearest, Matching
      <4>2. Averaged(tapped[w], d) \in Int
        BY <2>1, <4>1, AveragedIsPoint
      <4>3. QED
        BY <3>2, <4>1, <4>2
    <3>3. CASE /\ cluster' = [cluster EXCEPT ![w] = tapped[w]]
               /\ centroid' = [centroid EXCEPT ![tapped[w]] = 60 * Point[tapped[w]]]
      <4>1. 60 * Point[tapped[w]] \in Int
        BY <2>1, ClaimsAssumption
      <4>2. QED
        BY <2>1, <3>3, <4>1
    <3>4. QED
      BY <1>2, <3>1, <3>2, <3>3 DEF Assign
  <2>3. QED
    BY <1>2, <2>2 DEF Assign, GoTo, UnderClaimLock, claimHistory
<1>3. CASE AssignConflicts(w) \/ AppendUnreadable(w)
  <2>1. Stop(w) /\ Unlock(w)
    BY <1>3 DEF AssignConflicts, AppendUnreadable
  <2>2. QED
    BY <1>3, <2>1, StopTypes DEF AssignConflicts, AppendUnreadable, claimHistory
<1>4. CASE AppendClaim(w)
  <2>1. tapped[w] \in Claim /\ cluster[w] \in Claim
    BY <1>4 DEF AppendClaim, ScribeOK, Idle
  <2> DEFINE r == [id |-> tapped[w], cluster |-> cluster[w], supersedes |-> edges[w],
                   confirmed |-> FALSE]
  <2>2. r \in Record
    BY <2>1 DEF Record
  <2>3. log' \in Seq(Record) /\ recorded' \subseteq Claim /\ tail' \in {"whole", "torn", "garbled"}
    <3>1. Append(log, r) \in Seq(Record)
      BY <2>2, AppendProperties
    <3>2. log' \in {log, Append(log, r)} /\ recorded' \in {recorded, recorded \cup {tapped[w]}}
      BY <1>4 DEF AppendClaim
    <3>3. tail' \in {tail, "whole"}
      BY <1>4 DEF AppendClaim
    <3>4. QED
      BY <2>1, <3>1, <3>2, <3>3
  <2>4. QED
    BY <1>4, <2>3 DEF AppendClaim, GoTo, UnderClaimLock
<1>5. CASE MapClaim(w)
  <2>1. Stop(w) /\ Unlock(w)
    BY <1>5 DEF MapClaim
  <2>2. member' \in [Claim -> Claim \cup {Nobody}]
    BY <1>5 DEF MapClaim
  <2>3. QED
    BY <1>5, <2>1, <2>2, StopTypes DEF MapClaim, claimHistory
<1>6. QED
  BY <1>1, <1>2, <1>3, <1>4, <1>5

\* A confirmation's steps, and kills.
LEMMA RewriteTypes ==
  ASSUME ClaimsTypeOK, Sound(log, recorded, Reached, emptied), NEW w \in Scribe, ScribeOK(w),
         Reread(w) \/ Truncate(w) \/ Rewrite(w) \/ KillScribe(w)
  PROVE  ClaimsTypeOK'
<1> USE DEF ClaimsTypeOK
<1>1. CASE Reread(w)
  <2>1. CASE Stop(w) /\ Unlock(w)
    BY <1>1, <2>1, StopTypes DEF Reread, claimHistory
  <2>2. CASE ~(Stop(w) /\ Unlock(w))
    <3> DEFINE t == [i \in DOMAIN log |->
                       IF log[i].id = tapped[w] THEN [log[i] EXCEPT !.confirmed = TRUE]
                                                ELSE log[i]]
    <3>1. t \in Seq(Record)
      BY SoundConfirmed
    <3> HIDE DEF t
    <3>2. rewritten' = [rewritten EXCEPT ![w] = t]
      BY <1>1, <2>2 DEF Reread, t
    <3>3. rewritten' \in [Scribe -> Seq(Record)]
      BY <3>1, <3>2
    <3>4. QED
      BY <1>1, <2>2, <3>3 DEF Reread, GoTo, UnderClaimLock, claimHistory
  <2>3. QED
    BY <2>1, <2>2
<1>2. CASE Truncate(w)
  <2>1. <<>> \in Seq(Record)
    BY EmptySeq
  <2>2. QED
    BY <1>2, <2>1 DEF Truncate, GoTo, UnderClaimLock, claimHistory
<1>3. CASE Rewrite(w)
  <2>1. Stop(w) /\ Unlock(w)
    BY <1>3 DEF Rewrite
  <2>2. QED
    BY <1>3, <2>1, StopTypes DEF Rewrite, claimHistory
<1>4. CASE KillScribe(w)
  <2>1. Stop(w) /\ Unlock(w) /\ HalfWritten(w)
    BY <1>4 DEF KillScribe
  <2>2. log' \in Seq(Record) /\ tail' \in {"whole", "torn", "garbled"}
    <3>1. CASE UNCHANGED log
      BY <2>1, <3>1 DEF HalfWritten
    <3>2. CASE ~ UNCHANGED log
      <4>1. PICK n \in 0..(Len(rewritten[w]) - 1) : log' = SubSeq(rewritten[w], 1, n)
        BY <2>1, <3>2 DEF HalfWritten
      <4>2. place[w] = "rewrite" /\ tail' \in {"torn", "garbled"}
        BY <2>1, <3>2 DEF HalfWritten
      <4>3. Sound(rewritten[w], recorded, Reached, emptied)
        BY <4>2 DEF ScribeOK
      <4>4. SubSeq(rewritten[w], 1, n) \in Seq(Record)
        BY <4>3, SoundPrefix
      <4>5. QED
        BY <4>1, <4>2, <4>4
    <3>3. QED
      BY <3>1, <3>2
  <2>3. cutShort' \subseteq Claim
    BY <1>4 DEF KillScribe, ScribeOK, Idle
  <2>4. emptied' \in Nat /\ kills' \in 0..MaxKills
    BY <1>4, ClaimsAssumption DEF KillScribe
  <2>5. QED
    BY <1>4, <2>1, <2>2, <2>3, <2>4, StopTypes DEF KillScribe
<1>5. QED
  BY <1>1, <1>2, <1>3, <1>4

\* Every step keeps the types.
LEMMA StepKeepsTypes ==
  ASSUME ClaimsInv, NEW w \in Scribe, ScribeStep(w)
  PROVE  ClaimsTypeOK'
BY BeginTypes, AppendTypes, RewriteTypes DEF ClaimsInv, ScribeStep

-----------------------------------------------------------------------------
(* What a scribe's step leaves to the others.                              *)

\* The scribe moves itself alone.
LEMMA OthersStay ==
  ASSUME ClaimsTypeOK, NEW w \in Scribe, ScribeStep(w), NEW u \in Scribe \ {w}
  PROVE  /\ place'[u] = place[u] /\ tapped'[u] = tapped[u] /\ edges'[u] = edges[u]
         /\ cluster'[u] = cluster[u] /\ rewritten'[u] = rewritten[u]
<1> USE DEF ClaimsTypeOK
<1>1. CASE DeltaOp(w)
  <2>1. PICK c \in Claim, p \in {"tap", "confirm"}, e \in SUBSET Ids(log) : Begin(w, c, p, e)
    BY <1>1, DeltaOpBegins
  <2>2. QED
    BY <2>1 DEF Begin, GoTo
<1>2. CASE TakeClaimLock(w) \/ Link(w) \/ Assign(w) \/ AppendClaim(w) \/ Truncate(w)
  BY <1>2 DEF TakeClaimLock, Link, Assign, AppendClaim, Truncate, GoTo
<1>3. CASE AssignConflicts(w) \/ AppendUnreadable(w) \/ MapClaim(w) \/ Rewrite(w) \/ KillScribe(w)
  BY <1>3 DEF AssignConflicts, AppendUnreadable, MapClaim, Rewrite, KillScribe, Stop, GoTo
<1>4. CASE Reread(w)
  BY <1>4 DEF Reread, Stop, GoTo
<1>5. QED
  BY <1>1, <1>2, <1>3, <1>4 DEF ScribeStep

\* The lock goes with the places under it.
LEMMA LockStays ==
  ASSUME ClaimsInv, NEW w \in Scribe, ScribeStep(w)
  PROVE  LockInv'
<1> USE DEF ClaimsTypeOK, UnderClaimLock, Idle
<1>1. ClaimsTypeOK /\ LockInv /\ Nobody \notin Scribe
  BY ClaimsAssumption DEF ClaimsInv
<1>2. place'[w] \in UnderClaimLock <=> claimLock' = w
  <2>1. CASE DeltaOp(w)
    <3>1. PICK c \in Claim, p \in {"tap", "confirm"}, e \in SUBSET Ids(log) : Begin(w, c, p, e)
      BY <1>1, <2>1, DeltaOpBegins
    <3>2. QED
      BY <1>1, <3>1 DEF Begin, GoTo, logVars, LockInv
  <2>2. CASE TakeClaimLock(w)
    BY <1>1, <2>2 DEF TakeClaimLock, GoTo
  <2>3. CASE Link(w) \/ Assign(w) \/ AppendClaim(w) \/ Truncate(w)
    BY <1>1, <2>3 DEF Link, Assign, AppendClaim, Truncate, GoTo, logVars, LockInv
  <2>4. CASE Stop(w) /\ Unlock(w)
    BY <1>1, <2>4 DEF Stop, Unlock, GoTo
  <2>5. CASE Reread(w) /\ ~(Stop(w) /\ Unlock(w))
    BY <1>1, <2>5 DEF Reread, GoTo, LockInv
  <2>6. QED
    BY <2>1, <2>2, <2>3, <2>4, <2>5
       DEF ScribeStep, AssignConflicts, AppendUnreadable, MapClaim, Rewrite, KillScribe
<1>3. ASSUME NEW u \in Scribe \ {w}
      PROVE  claimLock' = u <=> claimLock = u
  <2>1. CASE DeltaOp(w)
    BY <2>1 DEF DeltaOp, Begin, logVars
  <2>2. CASE TakeClaimLock(w)
    BY <1>1, <2>2 DEF TakeClaimLock
  <2>3. CASE Link(w) \/ Assign(w) \/ AppendClaim(w) \/ Truncate(w) \/ Reread(w)
    BY <1>1, <2>3 DEF Link, Assign, AppendClaim, Truncate, Reread, Unlock, logVars
  <2>4. CASE AssignConflicts(w) \/ AppendUnreadable(w) \/ MapClaim(w) \/ Rewrite(w) \/ KillScribe(w)
    BY <1>1, <2>4
       DEF AssignConflicts, AppendUnreadable, MapClaim, Rewrite, KillScribe, Unlock
  <2>5. QED
    BY <2>1, <2>2, <2>3, <2>4 DEF ScribeStep
<1>4. \A u \in Scribe \ {w} : place'[u] = place[u]
  BY <1>1, OthersStay
<1>5. QED
  BY <1>1, <1>2, <1>3, <1>4 DEF LockInv

\* What is recorded, cut short or emptied stays so, and no centroid goes away.
LEMMA HistoryGrows ==
  ASSUME ClaimsInv, NEW w \in Scribe, ScribeStep(w)
  PROVE  /\ recorded \subseteq recorded' /\ cutShort \subseteq cutShort'
         /\ emptied' = 0 => emptied = 0
         /\ \A d \in Claim : centroid[d] /= Nobody => centroid'[d] /= Nobody
<1> USE DEF claimHistory, logVars
<1>1. ClaimsTypeOK /\ emptied \in Nat
  BY DEF ClaimsInv, ClaimsTypeOK
<1>2. CASE Assign(w)
  <2>1. \A d \in Claim : centroid'[d] = centroid[d] \/ centroid'[d] \in Int
    <3>1. tapped[w] \in Claim
      BY <1>2 DEF ClaimsInv, ScribeOK, Assign, Idle
    <3>2. 60 * Point[tapped[w]] \in Int
      BY <3>1, ClaimsAssumption
    <3>3. \A d \in Nearest(tapped[w]) : d \in Claim /\ Averaged(tapped[w], d) \in Int
      <4> SUFFICES ASSUME NEW d \in Nearest(tapped[w])
                   PROVE  d \in Claim /\ Averaged(tapped[w], d) \in Int
        OBVIOUS
      <4>1. d \in Claim /\ centroid[d] \in Int
        BY <1>1 DEF Nearest, Matching, ClaimsTypeOK
      <4>2. QED
        BY <1>1, <3>1, <4>1, AveragedIsPoint
    <3>4. QED
      BY <1>1, <1>2, <3>2, <3>3 DEF Assign, ClaimsTypeOK
  <2>2. QED
    BY <1>2, <2>1, ClaimsAssumption DEF Assign
<1>3. CASE AppendClaim(w)
  BY <1>3 DEF AppendClaim
<1>4. CASE KillScribe(w)
  BY <1>1, <1>4 DEF KillScribe
<1>5. CASE DeltaOp(w)
  BY <1>5 DEF DeltaOp, Begin
<1>6. CASE \/ TakeClaimLock(w) \/ Link(w) \/ AssignConflicts(w) \/ AppendUnreadable(w)
           \/ MapClaim(w) \/ Reread(w) \/ Truncate(w) \/ Rewrite(w)
  BY <1>6 DEF TakeClaimLock, Link, AssignConflicts, AppendUnreadable, MapClaim, Reread,
              Truncate, Rewrite
<1>7. QED
  BY <1>2, <1>3, <1>4, <1>5, <1>6 DEF ScribeStep

\* Without the lock no one writes the log or the map, ...
LEMMA WritersAreLocked ==
  ASSUME ClaimsInv, NEW w \in Scribe, ScribeStep(w)
  PROVE  claimLock = w \/ UNCHANGED <<log, member>>
<1> USE DEF claimHistory, logVars
<1>1. place[w] \in UnderClaimLock => claimLock = w
  BY DEF ClaimsInv, LockInv
<1>2. CASE DeltaOp(w)
  BY <1>2 DEF DeltaOp, Begin
<1>3. CASE KillScribe(w)
  BY <1>1, <1>3 DEF KillScribe, HalfWritten, UnderClaimLock
<1>4. CASE Reread(w)
  BY <1>4 DEF Reread
<1>5. CASE TakeClaimLock(w) \/ Link(w) \/ Assign(w) \/ AssignConflicts(w) \/ AppendUnreadable(w)
  BY <1>5 DEF TakeClaimLock, Link, Assign, AssignConflicts, AppendUnreadable
<1>6. CASE AppendClaim(w) \/ MapClaim(w) \/ Truncate(w) \/ Rewrite(w)
  BY <1>1, <1>6 DEF AppendClaim, MapClaim, Truncate, Rewrite, UnderClaimLock
<1>7. QED
  BY <1>2, <1>3, <1>4, <1>5, <1>6 DEF ScribeStep

\* ... and a mapping is only ever made to the cluster the claim was appended with.
LEMMA MapIsWritten ==
  ASSUME ClaimsInv, NEW w \in Scribe, ScribeStep(w)
  PROVE  \/ UNCHANGED member
         \/ place[w] = "map" /\ member' = [member EXCEPT ![tapped[w]] = cluster[w]]
<1> USE DEF claimHistory, logVars
<1>1. CASE DeltaOp(w)
  BY <1>1 DEF DeltaOp, Begin
<1>2. CASE MapClaim(w)
  BY <1>2 DEF MapClaim
<1>3. CASE \/ TakeClaimLock(w) \/ Link(w) \/ Assign(w) \/ AssignConflicts(w) \/ AppendUnreadable(w)
           \/ AppendClaim(w) \/ Reread(w) \/ Truncate(w) \/ Rewrite(w) \/ KillScribe(w)
  BY <1>3 DEF TakeClaimLock, Link, Assign, AssignConflicts, AppendUnreadable, AppendClaim,
              Reread, Truncate, Rewrite, KillScribe
<1>4. QED
  BY <1>1, <1>2, <1>3 DEF ScribeStep

\* Who leaves the place where the claim is mapped has mapped it, or was killed.
LEMMA MapIsDone ==
  ASSUME ClaimsInv, NEW w \in Scribe, ScribeStep(w), place[w] = "map"
  PROVE  \/ member' = [member EXCEPT ![tapped[w]] = cluster[w]]
         \/ cutShort' = cutShort \cup {tapped[w]}
<1>1. ~(\E c, p, e : Begin(w, c, p, e))
  BY DEF Begin, Idle
<1>2. MapClaim(w) \/ KillScribe(w)
  BY <1>1 DEF ScribeStep, DeltaOp, TakeClaimLock, Link, Assign, AssignConflicts, AppendClaim,
              AppendUnreadable, Reread, Truncate, Rewrite
<1>3. QED
  BY <1>2 DEF MapClaim, KillScribe

\* A pair that a record may hold stays one.
LEMMA ReachedGrows ==
  ASSUME ClaimsInv, NEW w \in Scribe, ScribeStep(w)
  PROVE  Reached \subseteq Reached'
<1> SUFFICES ASSUME NEW c \in Claim, NEW d \in Claim, <<c, d>> \in Reached
             PROVE  <<c, d>> \in Reached'
  BY DEF Reached
<1>1. centroid'[d] /= Nobody
  BY HistoryGrows DEF Reached
<1>2. /\ member[c] = d \/ c \in cutShort
           \/ \E u \in Scribe : place[u] = "map" /\ tapped[u] = c /\ cluster[u] = d
  BY DEF Reached
<1>3. SUFFICES \/ member'[c] = d
               \/ c \in cutShort'
               \/ \E u \in Scribe : place'[u] = "map" /\ tapped'[u] = c /\ cluster'[u] = d
  BY <1>1 DEF Reached
<1>4. ClaimsTypeOK
  BY DEF ClaimsInv
<1>5. CASE member[c] = d
  <2>1. CASE UNCHANGED member
    BY <1>5, <2>1
  <2>2. CASE place[w] = "map" /\ member' = [member EXCEPT ![tapped[w]] = cluster[w]]
    <3>1. tapped[w] \in Claim
      BY <2>2 DEF ClaimsInv, ScribeOK, Idle
    <3>2. tapped[w] = c => cluster[w] = d
      BY <1>5, <2>2, ClaimsAssumption DEF ClaimsInv, ScribeOK
    <3>3. QED
      BY <1>4, <1>5, <2>2, <3>1, <3>2 DEF ClaimsTypeOK
  <2>3. QED
    BY <2>1, <2>2, MapIsWritten
<1>6. CASE c \in cutShort
  BY <1>6, HistoryGrows
<1>7. ASSUME NEW u \in Scribe, place[u] = "map", tapped[u] = c, cluster[u] = d
      PROVE  \/ member'[c] = d
             \/ c \in cutShort'
             \/ \E v \in Scribe : place'[v] = "map" /\ tapped'[v] = c /\ cluster'[v] = d
  <2>1. CASE u = w
    BY <1>4, <1>7, <2>1, MapIsDone DEF ClaimsTypeOK
  <2>2. CASE u /= w
    <3>1. place'[u] = "map" /\ tapped'[u] = c /\ cluster'[u] = d
      BY <1>4, <1>7, <2>2, OthersStay
    <3>2. QED
      BY <3>1
  <2>3. QED
    BY <2>1, <2>2
<1>8. QED
  BY <1>2, <1>5, <1>6, <1>7

\* A list that was sound before a step is after it.
LEMMA SoundStays ==
  ASSUME ClaimsInv, NEW w \in Scribe, ScribeStep(w),
         NEW records, Sound(records, recorded, Reached, emptied)
  PROVE  Sound(records, recorded', Reached', emptied')
BY HistoryGrows, ReachedGrows, SoundGrows

\* The other scribes are where they were, with what they need there.
LEMMA OthersOK ==
  ASSUME ClaimsInv, NEW w \in Scribe, ScribeStep(w), NEW u \in Scribe \ {w}
  PROVE  ScribeOK(u)'
<1>1. ClaimsTypeOK /\ ScribeOK(u)
  BY DEF ClaimsInv
<1>2. /\ place'[u] = place[u] /\ tapped'[u] = tapped[u] /\ edges'[u] = edges[u]
      /\ cluster'[u] = cluster[u] /\ rewritten'[u] = rewritten[u]
  BY <1>1, OthersStay
<1>3. edges'[u] \subseteq recorded'
  BY <1>1, <1>2, HistoryGrows DEF ScribeOK
<1>4. place[u] \in UnderClaimLock => UNCHANGED <<log, member>>
  BY WritersAreLocked DEF ClaimsInv, LockInv
<1>5. ASSUME place[u] \in {"append", "map"}
      PROVE  /\ cluster[u] \in Claim /\ centroid'[cluster[u]] /= Nobody
             /\ member'[tapped[u]] /= Nobody => member'[tapped[u]] = cluster[u]
  BY <1>1, <1>4, <1>5, HistoryGrows DEF ScribeOK, UnderClaimLock
<1>6. ASSUME place[u] \in {"truncate", "rewrite"}
      PROVE  Sound(rewritten[u], recorded', Reached', emptied')
  BY <1>1, <1>6, SoundStays DEF ScribeOK
<1>7. ASSUME place[u] \in {"truncate", "rewrite"}
      PROVE  Ids(log') \subseteq Ids(rewritten[u])
  BY <1>1, <1>4, <1>7 DEF ScribeOK, UnderClaimLock
<1>8. place[u] /= Idle => tapped[u] \in Claim
  BY <1>1 DEF ScribeOK
<1>9. QED
  BY <1>2, <1>3, <1>5, <1>6, <1>7, <1>8 DEF ScribeOK

\* The clusters of the map are there.
LEMMA StepMembers ==
  ASSUME ClaimsInv, NEW w \in Scribe, ScribeStep(w)
  PROVE  MembersInv'
<1>1. ClaimsTypeOK /\ MembersInv /\ ScribeOK(w)
  BY DEF ClaimsInv
<1> SUFFICES ASSUME NEW c \in Claim, member'[c] /= Nobody
             PROVE  centroid'[member'[c]] /= Nobody
  BY DEF MembersInv
<1>2. CASE UNCHANGED member
  BY <1>1, <1>2, HistoryGrows DEF MembersInv, ClaimsTypeOK
<1>3. CASE place[w] = "map" /\ member' = [member EXCEPT ![tapped[w]] = cluster[w]]
  <2>1. tapped[w] \in Claim /\ cluster[w] \in Claim /\ centroid[cluster[w]] /= Nobody
    BY <1>1, <1>3 DEF ScribeOK, Idle
  <2>2. member'[c] = member[c] \/ member'[c] = cluster[w]
    BY <1>1, <1>3, <2>1 DEF ClaimsTypeOK
  <2>3. QED
    BY <1>1, <2>1, <2>2, HistoryGrows DEF MembersInv, ClaimsTypeOK
<1>4. QED
  BY <1>2, <1>3, MapIsWritten

-----------------------------------------------------------------------------
(* What a scribe's step does.                                              *)

\* The ids of the log were recorded.
LEMMA LogIsRecorded ==
  ASSUME ClaimsInv
  PROVE  Ids(log) \subseteq recorded
<1>1. Ids(log) = {log[i].id : i \in DOMAIN log}
  BY IdsOfList DEF ClaimsInv, ClaimsTypeOK
<1>2. \A i \in DOMAIN log : log[i].id \in recorded
  BY DEF ClaimsInv, Sound
<1>3. QED
  BY <1>1, <1>2

\* Who has stopped needs nothing.
LEMMA StoppedOK ==
  ASSUME ClaimsTypeOK, NEW w \in Scribe, Stop(w), Unlock(w)
  PROVE  ScribeOK(w)'
<1>1. place'[w] = Idle /\ edges'[w] = {}
  BY StopTypes
<1>2. QED
  BY <1>1 DEF ScribeOK, Idle

\* The scribe gets to its next place with what it needs there.
LEMMA StepOwn ==
  ASSUME ClaimsInv, NEW w \in Scribe, ScribeStep(w)
  PROVE  ScribeOK(w)'
<1> USE DEF Idle, claimHistory, logVars
<1>1. ClaimsTypeOK /\ MembersInv /\ ScribeOK(w)
  BY DEF ClaimsInv
<1>2. Ids(log) \subseteq recorded /\ recorded \subseteq recorded'
  BY LogIsRecorded, HistoryGrows
<1>3. CASE DeltaOp(w)
  <2>1. PICK c \in Claim, p \in {"tap", "confirm"}, e \in SUBSET Ids(log) : Begin(w, c, p, e)
    BY <1>1, <1>3, DeltaOpBegins
  <2>2. place'[w] = p /\ tapped'[w] = c /\ edges'[w] = e
    BY <1>1, <2>1 DEF Begin, GoTo, ClaimsTypeOK
  <2>3. QED
    BY <1>2, <2>2 DEF ScribeOK
<1>4. CASE TakeClaimLock(w)
  <2>1. place'[w] \in {"link", "assign", "reread"} /\ place[w] /= Idle
    BY <1>1, <1>4 DEF TakeClaimLock, GoTo, ClaimsTypeOK
  <2>2. QED
    BY <1>1, <1>2, <1>4, <2>1 DEF TakeClaimLock, ScribeOK
<1>5. CASE Link(w)
  <2>1. place'[w] = "assign" /\ edges'[w] \subseteq Ids(log)
    BY <1>1, <1>5 DEF Link, GoTo, ClaimsTypeOK
  <2>2. QED
    BY <1>1, <1>2, <1>5, <2>1 DEF Link, ScribeOK
<1>6. CASE Assign(w)
  <2>1. place'[w] = "append" /\ tapped[w] \in Claim
    BY <1>1, <1>6 DEF Assign, GoTo, ClaimsTypeOK, ScribeOK
  <2>2. /\ cluster'[w] \in Claim /\ centroid'[cluster'[w]] /= Nobody
        /\ member[tapped[w]] /= Nobody => cluster'[w] = member[tapped[w]]
    <3>1. CASE /\ member[tapped[w]] /= Nobody /\ UNCHANGED centroid
               /\ cluster' = [cluster EXCEPT ![w] = member[tapped[w]]]
      BY <1>1, <2>1, <3>1 DEF ClaimsTypeOK, MembersInv
    <3>2. ASSUME member[tapped[w]] = Nobody,
                 NEW d \in Nearest(tapped[w]), cluster' = [cluster EXCEPT ![w] = d]
          PROVE  /\ cluster'[w] \in Claim /\ centroid'[cluster'[w]] /= Nobody
                 /\ member[tapped[w]] /= Nobody => cluster'[w] = member[tapped[w]]
      <4>1. d \in Claim /\ centroid[d] /= Nobody /\ cluster'[w] = d
        BY <1>1, <3>2 DEF Nearest, Matching, ClaimsTypeOK
      <4>2. QED
        BY <3>2, <4>1, HistoryGrows
    <3>3. CASE /\ member[tapped[w]] = Nobody
               /\ cluster' = [cluster EXCEPT ![w] = tapped[w]]
               /\ centroid' = [centroid EXCEPT ![tapped[w]] = 60 * Point[tapped[w]]]
      <4>1. 60 * Point[tapped[w]] \in Int
        BY <2>1, ClaimsAssumption
      <4>2. QED
        BY <1>1, <2>1, <3>3, <4>1, ClaimsAssumption DEF ClaimsTypeOK
    <3>4. QED
      BY <1>6, <3>1, <3>2, <3>3 DEF Assign
  <2>3. QED
    BY <1>1, <1>2, <1>6, <2>1, <2>2 DEF Assign, ScribeOK
<1>7. CASE AppendClaim(w)
  <2>1. place'[w] = "map" /\ UNCHANGED <<tapped, edges, cluster, centroid, member>>
    BY <1>1, <1>7 DEF AppendClaim, GoTo, ClaimsTypeOK
  <2>2. QED
    BY <1>1, <1>2, <1>7, <2>1 DEF AppendClaim, ScribeOK
<1>8. CASE Reread(w) /\ ~(Stop(w) /\ Unlock(w))
  <2> DEFINE t == [i \in DOMAIN log |->
                     IF log[i].id = tapped[w] THEN [log[i] EXCEPT !.confirmed = TRUE]
                                              ELSE log[i]]
  <2>1. Sound(t, recorded, Reached, emptied) /\ Ids(t) = Ids(log)
    BY SoundConfirmed DEF ClaimsInv, ClaimsTypeOK
  <2> HIDE DEF t
  <2>2. rewritten' = [rewritten EXCEPT ![w] = t] /\ UNCHANGED <<tapped, edges, log>>
        /\ place[w] = "reread" /\ place' = [place EXCEPT ![w] = "truncate"]
    BY <1>8 DEF Reread, GoTo, t
  <2>3. place'[w] = "truncate" /\ rewritten'[w] = t
    BY <1>1, <2>2 DEF ClaimsTypeOK
  <2>4. Sound(t, recorded', Reached', emptied')
    BY <2>1, SoundStays
  <2>5. QED
    BY <1>1, <1>2, <2>1, <2>2, <2>3, <2>4 DEF ScribeOK
<1>9. CASE Truncate(w)
  <2>1. place'[w] = "rewrite" /\ place[w] = "truncate" /\ UNCHANGED <<tapped, edges, rewritten>>
    BY <1>1, <1>9 DEF Truncate, GoTo, ClaimsTypeOK
  <2>2. Sound(rewritten[w], recorded', Reached', emptied')
    BY <1>1, <2>1, SoundStays DEF ScribeOK
  <2>3. Ids(log') = {}
    BY <1>9 DEF Truncate, Ids, ToSet
  <2>4. QED
    BY <1>1, <1>2, <2>1, <2>2, <2>3 DEF ScribeOK
<1>10. CASE Stop(w) /\ Unlock(w)
  BY <1>1, <1>10, StoppedOK
<1>11. QED
  BY <1>3, <1>4, <1>5, <1>6, <1>7, <1>8, <1>9, <1>10
     DEF ScribeStep, AssignConflicts, AppendUnreadable, MapClaim, Rewrite, KillScribe

\* Whoever has the lock is the only one to write the file anew.
LEMMA AloneWrites ==
  ASSUME ClaimsInv, NEW w \in Scribe, place[w] \in UnderClaimLock
  PROVE  BeingWritten = IF place[w] = "rewrite" THEN Ids(rewritten[w]) ELSE {}
<1>1. \A u \in Scribe \ {w} : place[u] /= "rewrite"
  BY DEF ClaimsInv, LockInv, UnderClaimLock
<1>2. QED
  BY <1>1 DEF BeingWritten

\* The targets of a claim that is appended are in the log.
LEMMA TargetsAreInLog ==
  ASSUME ClaimsInv, NEW w \in Scribe, place[w] = "append", emptied = 0
  PROVE  edges[w] \subseteq Ids(log)
<1>1. BeingWritten = {}
  BY AloneWrites DEF UnderClaimLock
<1>2. recorded \subseteq Ids(log)
  BY <1>1 DEF ClaimsInv, KeptInv
<1>3. QED
  BY <1>2 DEF ClaimsInv, ScribeOK

\* An append to a whole file.
LEMMA AppendIsSound ==
  ASSUME ClaimsInv, NEW w \in Scribe, AppendClaim(w), tail = "whole", tapped[w] \notin Ids(log)
  PROVE  /\ Sound(log', recorded', Reached', emptied')
         /\ Ids(log') = Ids(log) \cup {tapped[w]}
<1> DEFINE r == [id |-> tapped[w], cluster |-> cluster[w], supersedes |-> edges[w],
                 confirmed |-> FALSE]
<1>1. ScribeStep(w) /\ ClaimsTypeOK
  BY DEF ScribeStep, ClaimsInv
<1>2. tapped[w] \in Claim /\ cluster[w] \in Claim /\ centroid[cluster[w]] /= Nobody
  BY DEF AppendClaim, ClaimsInv, ScribeOK, Idle
<1>3. r \in Record
  BY <1>1, <1>2 DEF Record, ClaimsTypeOK
<1>4. /\ log' = Append(log, r) /\ tapped[w] \in recorded'
      /\ place[w] = "append" /\ place' = [place EXCEPT ![w] = "map"]
      /\ UNCHANGED <<centroid, tapped, cluster, emptied>>
  BY DEF AppendClaim, GoTo
<1>5. /\ r.id = tapped[w] /\ r.cluster = cluster[w] /\ r.supersedes = edges[w]
  OBVIOUS
<1> HIDE DEF r
<1>6. <<tapped[w], cluster[w]>> \in Reached'
  <2>1. place'[w] = "map"
    BY <1>1, <1>4 DEF ClaimsTypeOK
  <2>2. \E u \in Scribe : place'[u] = "map" /\ tapped'[u] = tapped[w] /\ cluster'[u] = cluster[w]
    BY <1>4, <2>1
  <2>3. QED
    BY <1>2, <1>4, <2>2 DEF Reached
<1>7. Sound(log, recorded', Reached', emptied')
  BY <1>1, SoundStays DEF ClaimsInv
<1>8. emptied' = 0 => edges[w] \subseteq Ids(log)
  BY <1>4, TargetsAreInLog
<1>9. log \in Seq(Record)
  BY <1>1 DEF ClaimsTypeOK
<1>10. QED
  BY <1>3, <1>4, <1>5, <1>6, <1>7, <1>8, <1>9, SoundAppend

\* The log stays sound.
LEMMA StepSound ==
  ASSUME ClaimsInv, NEW w \in Scribe, ScribeStep(w)
  PROVE  Sound(log', recorded', Reached', emptied')
<1> USE DEF claimHistory, logVars
<1>1. ClaimsTypeOK /\ ScribeOK(w) /\ Sound(log, recorded, Reached, emptied)
  BY DEF ClaimsInv
<1>2. CASE UNCHANGED log
  BY <1>1, <1>2, SoundStays
<1>3. CASE AppendClaim(w) /\ ~ UNCHANGED log
  <2>1. tail = "whole" /\ tapped[w] \notin Ids(log)
    BY <1>3 DEF AppendClaim
  <2>2. QED
    BY <1>3, <2>1, AppendIsSound
<1>4. CASE Truncate(w)
  BY <1>4, SoundEmpty DEF Truncate
<1>5. CASE Rewrite(w)
  <2>1. log' = rewritten[w] /\ Sound(rewritten[w], recorded, Reached, emptied)
    BY <1>1, <1>5 DEF Rewrite, ScribeOK
  <2>2. QED
    BY <2>1, SoundStays
<1>6. CASE KillScribe(w) /\ ~ UNCHANGED log
  <2>1. PICK n \in 0..(Len(rewritten[w]) - 1) : log' = SubSeq(rewritten[w], 1, n)
    BY <1>6 DEF KillScribe, HalfWritten
  <2>2. rewritten[w] \in Seq(Record) /\ Sound(rewritten[w], recorded, Reached, emptied)
    BY <1>1, <1>6 DEF KillScribe, HalfWritten, ScribeOK, ClaimsTypeOK
  <2>3. Sound(SubSeq(rewritten[w], 1, n), recorded, Reached, emptied)
    BY <2>2, SoundPrefix
  <2>4. QED
    BY <2>1, <2>3, SoundStays
<1>7. QED
  <2>1. CASE DeltaOp(w)
    BY <1>2, <2>1 DEF DeltaOp, Begin
  <2>2. CASE \/ TakeClaimLock(w) \/ Link(w) \/ Assign(w) \/ AssignConflicts(w)
             \/ AppendUnreadable(w) \/ MapClaim(w) \/ Reread(w)
    BY <1>2, <2>2 DEF TakeClaimLock, Link, Assign, AssignConflicts, AppendUnreadable, MapClaim,
                      Reread
  <2>3. QED
    BY <1>2, <1>3, <1>4, <1>5, <1>6, <2>1, <2>2 DEF ScribeStep

\* What a scribe is not about to write leaves what others are.
LEMMA BeingWrittenStays ==
  ASSUME ClaimsInv, NEW w \in Scribe, ScribeStep(w), place[w] /= "rewrite"
  PROVE  BeingWritten \subseteq BeingWritten'
<1> SUFFICES ASSUME NEW u \in Scribe, place[u] = "rewrite", NEW c \in Ids(rewritten[u])
             PROVE  c \in BeingWritten'
  BY DEF BeingWritten
<1>1. ClaimsTypeOK
  BY DEF ClaimsInv
<1>2. place'[u] = "rewrite" /\ rewritten'[u] = rewritten[u]
  BY <1>1, OthersStay
<1>3. QED
  BY <1>2 DEF BeingWritten

\* What was recorded is kept.
LEMMA StepKept ==
  ASSUME ClaimsInv, NEW w \in Scribe, ScribeStep(w)
  PROVE  KeptInv'
<1> USE DEF claimHistory, logVars
<1>1. ClaimsTypeOK /\ ScribeOK(w) /\ KeptInv /\ emptied \in Nat
  BY DEF ClaimsInv, ClaimsTypeOK
<1> SUFFICES ASSUME emptied' = 0
             PROVE  recorded' \subseteq Ids(log') \cup BeingWritten'
  BY DEF KeptInv
<1>2. recorded \subseteq Ids(log) \cup BeingWritten
  BY <1>1, HistoryGrows DEF KeptInv
<1>3. CASE UNCHANGED <<log, recorded>> /\ place[w] /= "rewrite"
  BY <1>2, <1>3, BeingWrittenStays
<1>4. CASE AppendClaim(w) /\ ~ UNCHANGED <<log, recorded>>
  <2>1. /\ tail = "whole" /\ tapped[w] \notin Ids(log) /\ place[w] = "append"
        /\ recorded' = recorded \cup {tapped[w]}
    BY <1>4 DEF AppendClaim
  <2>2. Ids(log') = Ids(log) \cup {tapped[w]}
    BY <1>4, <2>1, AppendIsSound
  <2>3. QED
    BY <1>2, <2>1, <2>2, BeingWrittenStays
<1>5. CASE Truncate(w)
  <2>1. place[w] = "truncate" /\ UNCHANGED <<rewritten, recorded>>
        /\ place'[w] = "rewrite"
    BY <1>1, <1>5 DEF Truncate, GoTo, ClaimsTypeOK
  <2>2. Ids(log) \subseteq Ids(rewritten[w])
    BY <1>1, <2>1 DEF ScribeOK
  <2>3. Ids(log) \subseteq BeingWritten'
    BY <2>1, <2>2 DEF BeingWritten
  <2>4. QED
    BY <1>2, <2>1, <2>3, BeingWrittenStays
<1>6. CASE Rewrite(w)
  <2>1. place[w] = "rewrite" /\ log' = rewritten[w] /\ UNCHANGED recorded
    BY <1>6 DEF Rewrite
  <2>2. BeingWritten = Ids(rewritten[w])
    BY <2>1, AloneWrites DEF UnderClaimLock
  <2>3. Ids(log) \subseteq Ids(log')
    BY <1>1, <2>1 DEF ScribeOK
  <2>4. QED
    BY <1>2, <2>1, <2>2, <2>3
<1>7. CASE KillScribe(w)
  <2>1. place[w] /= "rewrite"
    BY <1>1, <1>7 DEF KillScribe
  <2>2. UNCHANGED <<log, recorded>>
    BY <1>7, <2>1 DEF KillScribe, HalfWritten
  <2>3. QED
    BY <1>3, <2>1, <2>2
<1>8. QED
  <2>1. CASE DeltaOp(w)
    BY <1>3, <2>1 DEF DeltaOp, Begin, Idle
  <2>2. CASE \/ TakeClaimLock(w) \/ Link(w) \/ Assign(w) \/ AssignConflicts(w)
             \/ AppendUnreadable(w) \/ MapClaim(w) \/ Reread(w)
    BY <1>3, <2>2 DEF TakeClaimLock, Link, Assign, AssignConflicts, AppendUnreadable, MapClaim,
                      Reread
  <2>3. AppendClaim(w) => place[w] /= "rewrite"
    BY DEF AppendClaim
  <2>4. QED
    BY <1>3, <1>4, <1>5, <1>6, <1>7, <2>1, <2>2, <2>3 DEF ScribeStep

-----------------------------------------------------------------------------
(* Theorems.                                                               *)

\* The claims invariant holds initially.
LEMMA InitClaims ==
  ASSUME ClaimsInit
  PROVE  ClaimsInv
<1>1. <<>> \in Seq(Record)
  BY EmptySeq
<1>2. ClaimsTypeOK
  BY <1>1, ClaimsAssumption DEF ClaimsInit, ClaimsTypeOK
<1>3. \A w \in Scribe : place[w] = Idle /\ edges[w] = {}
  BY DEF ClaimsInit
<1>4. LockInv
  BY <1>3, ClaimsAssumption DEF ClaimsInit, LockInv, UnderClaimLock, Idle
<1>5. MembersInv
  BY DEF ClaimsInit, MembersInv
<1>6. Sound(log, recorded, Reached, emptied)
  BY SoundEmpty DEF ClaimsInit
<1>7. \A w \in Scribe : ScribeOK(w)
  BY <1>3 DEF ScribeOK, Idle
<1>8. KeptInv
  BY DEF ClaimsInit, KeptInv
<1>9. QED
  BY <1>2, <1>4, <1>5, <1>6, <1>7, <1>8 DEF ClaimsInv

\* The claims invariant holds where nothing moves.
LEMMA ClaimsUnchanged ==
  ASSUME ClaimsInv, UNCHANGED claimsVars
  PROVE  ClaimsInv'
<1> USE DEF claimsVars, logVars, scribeVars, claimHistory
<1>1. ClaimsTypeOK'
  BY DEF ClaimsInv, ClaimsTypeOK
<1>2. Reached' = Reached
  BY DEF Reached
<1>3. Sound(log', recorded', Reached', emptied')
  BY <1>2 DEF ClaimsInv
<1>4. LockInv' /\ MembersInv'
  BY DEF ClaimsInv, LockInv, MembersInv
<1>5. \A w \in Scribe : ScribeOK(w)'
  BY <1>2 DEF ClaimsInv, ScribeOK
<1>6. KeptInv'
  BY DEF ClaimsInv, KeptInv, BeingWritten
<1>7. QED
  BY <1>1, <1>3, <1>4, <1>5, <1>6 DEF ClaimsInv

\* The invariant holds in every reachable state.
THEOREM ClaimsInvariance == ClaimsSpec => []ClaimsInv
<1>1. ClaimsInit => ClaimsInv
  BY InitClaims
<1>2. ClaimsInv /\ [ClaimsNext]_claimsVars => ClaimsInv'
  <2> SUFFICES ASSUME ClaimsInv, [ClaimsNext]_claimsVars
               PROVE  ClaimsInv'
    OBVIOUS
  <2>1. ASSUME NEW w \in Scribe, ScribeStep(w)
        PROVE  ClaimsInv'
    <3>1. \A u \in Scribe : ScribeOK(u)'
      BY <2>1, StepOwn, OthersOK
    <3>2. ClaimsTypeOK' /\ LockInv' /\ MembersInv' /\ KeptInv'
      BY <2>1, StepKeepsTypes, LockStays, StepMembers, StepKept
    <3>3. Sound(log', recorded', Reached', emptied')
      BY <2>1, StepSound
    <3>4. QED
      BY <3>1, <3>2, <3>3 DEF ClaimsInv
  <2>2. CASE ClaimsNext
    BY <2>1, <2>2 DEF ClaimsNext
  <2>3. CASE UNCHANGED claimsVars
    BY <2>3, ClaimsUnchanged
  <2>4. QED
    BY <2>2, <2>3
<1>3. QED
  BY <1>1, <1>2, PTL DEF ClaimsSpec

\* The variables keep their types.
THEOREM ClaimsTypes == ClaimsSpec => []ClaimsTypeOK
<1>1. ClaimsInv => ClaimsTypeOK
  BY DEF ClaimsInv
<1>2. QED
  BY <1>1, ClaimsInvariance, PTL

\* What an earlier record has recorded is among the ids before a record.
LEMMA EarlierIds ==
  ASSUME NEW records \in Seq(Record), NEW i \in DOMAIN records, NEW j \in 1..(i - 1)
  PROVE  records[j].id \in Ids(SubSeq(records, 1, i - 1))
<1> DEFINE t == SubSeq(records, 1, i - 1)
<1>1. Len(records) \in Nat /\ DOMAIN records = 1..Len(records)
  BY LenProperties
<1>2. \A k \in 1..(i - 1) : records[k] \in Record
  BY <1>1, ElementOfSeq
<1>3. /\ t \in Seq(Record) /\ DOMAIN t = 1..(i - 1)
      /\ \A k \in 1..(i - 1) : t[k] = records[k]
  BY <1>1, <1>2, SubSeqProperties, LenProperties
<1> HIDE DEF t
<1>4. records[j].id \in Ids(t)
  BY <1>3, IdsOfList
<1>5. QED
  BY <1>4 DEF t

\* claims.rs: whatever captures tap, repeat and confirm, and wherever they are
\* killed, a claim is in the log once and stays there unless a confirmation was
\* killed while it wrote the file; every record leads to a cluster that is
\* there, and to the one the map names; what is superseded was recorded before.
THEOREM ClaimsAreSafe == ClaimsSpec => []ClaimsSafe
<1>1. ClaimsInv => LogKeepsClaims
  BY DEF ClaimsInv, Sound, KeptInv, BeingWritten, LogKeepsClaims
<1>2. ClaimsInv => RecordsReachable
  <2> SUFFICES ASSUME ClaimsInv, NEW r \in ToSet(log)
               PROVE  /\ centroid[r.cluster] /= Nobody
                      /\ (member[r.id] /= Nobody /\ r.id \notin cutShort) => member[r.id] = r.cluster
    BY DEF RecordsReachable
  <2>1. PICK i \in DOMAIN log : r = log[i]
    BY DEF ToSet
  <2>2. <<r.id, r.cluster>> \in Reached
    BY <2>1 DEF ClaimsInv, Sound
  <2>3. /\ centroid[r.cluster] /= Nobody
        /\ \/ member[r.id] = r.cluster
           \/ r.id \in cutShort
           \/ \E w \in Scribe : place[w] = "map" /\ tapped[w] = r.id /\ cluster[w] = r.cluster
    BY <2>2 DEF Reached
  <2>4. ASSUME NEW w \in Scribe, place[w] = "map", tapped[w] = r.id, cluster[w] = r.cluster,
               member[r.id] /= Nobody
        PROVE  member[r.id] = r.cluster
    BY <2>4 DEF ClaimsInv, ScribeOK
  <2>5. QED
    BY <2>3, <2>4
<1>3. ClaimsInv => SupersedesPointsBack
  <2> SUFFICES ASSUME ClaimsInv, emptied = 0, NEW i \in DOMAIN log, NEW c \in log[i].supersedes
               PROVE  c \in Ids(SubSeq(log, 1, i - 1))
    BY DEF SupersedesPointsBack
  <2>1. PICK j \in 1..(i - 1) : log[j].id = c
    BY DEF ClaimsInv, Sound, PointsBack
  <2>2. QED
    BY <2>1, EarlierIds DEF ClaimsInv, ClaimsTypeOK
<1>4. ClaimsInv => ClaimsSafe
  BY <1>1, <1>2, <1>3 DEF ClaimsSafe
<1>5. QED
  BY <1>4, ClaimsInvariance, PTL

-----------------------------------------------------------------------------
(* GuideWiki: sequences.                                                   *)

\* The least number of a set, as Min chooses it.
LEMMA MinIsLeast ==
  ASSUME NEW T \in SUBSET Nat, T # {}
  PROVE  Min(T) \in T
<1>1. \E m \in T : \A n \in T : m =< n
  BY LeastNumber
<1> QED
  BY <1>1 DEF Min

\* A finite set is listed, each element once.
LEMMA SetToSeqLists ==
  ASSUME NEW S, IsFiniteSet(S)
  PROVE  /\ SetToSeq(S) \in Seq(S)
         /\ \A e \in S : \E i \in 1..Len(SetToSeq(S)) : SetToSeq(S)[i] = e
<1> DEFINE n == Cardinality(S)
           f == SetToSeq(S)
<1>1. n \in Nat /\ ExistsBijection(1..n, S)
  BY FS_CardinalityType
<1>2. PICK b \in Bijection(1..n, S) : TRUE
  BY <1>1 DEF ExistsBijection
<1>3. b \in [1..n -> S] /\ IsInjective(b)
  BY <1>2 DEF Bijection, Injection
<1>4. f \in [1..n -> S] /\ IsInjective(f)
  BY <1>3 DEF SetToSeq
<1> HIDE DEF f
<1>5. f \in Injection(1..n, S)
  BY <1>4 DEF Injection
<1>6. Cardinality(1..n) = n /\ IsFiniteSet(1..n)
  BY <1>1, FS_Interval
<1>7. f \in Surjection(1..n, S)
  BY <1>5, <1>6, FS_Injection
<1>8. f \in Seq(S) /\ Len(f) = n
  <2> HIDE DEF n
  <2> QED BY <1>1, <1>4
<1>9. \A e \in S : \E i \in 1..n : f[i] = e
  BY <1>7 DEF Surjection
<1> QED
  BY <1>8, <1>9 DEF f

-----------------------------------------------------------------------------
(* The markers of a body.                                                  *)

\* A marker is in a body if it is in one of its sections.
LEMMA MarkersAre ==
  ASSUME NEW body \in Seq(Section)
  PROVE  /\ MarkersIn(body) \in SUBSET Marker
         /\ \A m : m \in MarkersIn(body) <=>
                \E i \in 1..Len(body) : m \in body[i].said \cup body[i].cited
<1>1. DOMAIN body = 1..Len(body)
  OBVIOUS
<1>2. \A i \in 1..Len(body) : body[i] \in Section
  OBVIOUS
<1>3. \A i \in 1..Len(body) : body[i].said \cup body[i].cited \subseteq Marker
  BY <1>2 DEF Section
<1> QED
  BY <1>1, <1>3 DEF MarkersIn

\* The markers of a section.
LEMMA MarkersOfOne ==
  ASSUME NEW x \in Section
  PROVE  <<x>> \in Seq(Section) /\ MarkersIn(<<x>>) = x.said \cup x.cited
<1> DEFINE s == <<x>>
<1>1. s \in Seq(Section) /\ Len(s) = 1 /\ s[1] = x
  OBVIOUS
<1> HIDE DEF s
<1>2. \A m : m \in MarkersIn(s) <=> \E i \in 1..Len(s) : m \in s[i].said \cup s[i].cited
  BY <1>1, MarkersAre
<1>3. 1..Len(s) = {1}
  BY <1>1
<1>4. \A m : m \in MarkersIn(s) <=> m \in x.said \cup x.cited
  BY <1>1, <1>2, <1>3
<1>5. MarkersIn(s) = x.said \cup x.cited
  BY <1>4
<1> QED
  BY <1>1, <1>5 DEF s

\* Nothing is lost where two pieces are put together.
LEMMA MarkersOfBoth ==
  ASSUME NEW s \in Seq(Section), NEW t \in Seq(Section)
  PROVE  s \o t \in Seq(Section) /\ MarkersIn(s \o t) = MarkersIn(s) \cup MarkersIn(t)
<1> DEFINE u == s \o t
<1>1. u \in Seq(Section) /\ Len(u) = Len(s) + Len(t)
  OBVIOUS
<1>2. /\ \A i \in 1..Len(s) : u[i] = s[i]
      /\ \A i \in 1..Len(t) : u[Len(s) + i] = t[i]
      /\ \A i \in 1..Len(u) : i \in 1..Len(s) \/ (i - Len(s) \in 1..Len(t) /\ u[i] = t[i - Len(s)])
  OBVIOUS
<1>3. Len(s) \in Nat /\ Len(t) \in Nat
  OBVIOUS
<1> HIDE DEF u
<1>4. ASSUME NEW m PROVE m \in MarkersIn(u) <=> m \in MarkersIn(s) \cup MarkersIn(t)
  <2>1. ASSUME m \in MarkersIn(u) PROVE m \in MarkersIn(s) \cup MarkersIn(t)
    <3>1. PICK i \in 1..Len(u) : m \in u[i].said \cup u[i].cited
      BY <1>1, <2>1, MarkersAre
    <3>2. CASE i \in 1..Len(s)
      BY <1>2, <3>1, <3>2, MarkersAre
    <3>3. CASE i - Len(s) \in 1..Len(t) /\ u[i] = t[i - Len(s)]
      BY <3>1, <3>3, MarkersAre
    <3> QED
      BY <1>2, <3>2, <3>3
  <2>2. ASSUME m \in MarkersIn(s) PROVE m \in MarkersIn(u)
    <3>1. PICK i \in 1..Len(s) : m \in s[i].said \cup s[i].cited
      BY <2>2, MarkersAre
    <3>2. i \in 1..Len(u) /\ u[i] = s[i]
      BY <1>1, <1>2, <1>3
    <3> QED
      BY <1>1, <3>1, <3>2, MarkersAre
  <2>3. ASSUME m \in MarkersIn(t) PROVE m \in MarkersIn(u)
    <3>1. PICK i \in 1..Len(t) : m \in t[i].said \cup t[i].cited
      BY <2>3, MarkersAre
    <3>2. Len(s) + i \in 1..Len(u) /\ u[Len(s) + i] = t[i]
      BY <1>1, <1>2, <1>3
    <3> QED
      BY <1>1, <3>1, <3>2, MarkersAre
  <2> QED
    BY <2>1, <2>2, <2>3
<1> QED
  BY <1>1, <1>4 DEF u

\* A piece of a body holds nothing else.
LEMMA Piece ==
  ASSUME NEW body \in Seq(Section), NEW i \in 1..(Len(body) + 1), NEW j \in (i - 1)..Len(body)
  PROVE  /\ SubSeq(body, i, j) \in Seq(Section)
         /\ Len(SubSeq(body, i, j)) = j - i + 1
         /\ \A k \in 1..(j - i + 1) : SubSeq(body, i, j)[k] = body[i + k - 1]
<1>1. Len(body) \in Nat /\ i \in Int /\ j \in Int
  OBVIOUS
<1>2. SubSeq(body, i, j) = [k \in 1..(j - i + 1) |-> body[i + k - 1]]
  BY <1>1
<1>3. \A k \in 1..(j - i + 1) : i + k - 1 \in 1..Len(body)
  BY <1>1
<1>4. \A k \in 1..(j - i + 1) : body[i + k - 1] \in Section
  BY <1>3
<1>5. j - i + 1 \in Nat
  BY <1>1
<1> QED
  BY <1>2, <1>4, <1>5

\* Where sections i to j are cut out and others put in, only the markers of
\* those cut out may be missing afterwards.
LEMMA CutKeeps ==
  ASSUME NEW body \in Seq(Section), NEW i \in 1..(Len(body) + 1),
         NEW j \in (i - 1)..Len(body), NEW new \in Seq(Section)
  PROVE  /\ Cut(body, i, j, new) \in Seq(Section)
         /\ MarkersIn(body) \subseteq MarkersIn(Cut(body, i, j, new)) \cup MarkersIn(SubSeq(body, i, j))
         /\ MarkersIn(new) \subseteq MarkersIn(Cut(body, i, j, new))
<1> DEFINE a == SubSeq(body, 1, i - 1)
           b == SubSeq(body, i, j)
           c == SubSeq(body, j + 1, Len(body))
<1>0. Len(body) \in Nat /\ i \in Int /\ j \in Int /\ i >= 1 /\ j >= i - 1 /\ j <= Len(body)
  OBVIOUS
<1>1. /\ a \in Seq(Section) /\ Len(a) = i - 1
      /\ \A k \in 1..(i - 1) : a[k] = body[k]
  <2>1. 1 \in 1..(Len(body) + 1) /\ i - 1 \in (1 - 1)..Len(body)
    BY <1>0
  <2> QED
    BY <1>0, <2>1, Piece
<1>2. /\ b \in Seq(Section) /\ Len(b) = j - i + 1
      /\ \A k \in 1..(j - i + 1) : b[k] = body[i + k - 1]
  BY Piece
<1>3. /\ c \in Seq(Section) /\ Len(c) = Len(body) - j
      /\ \A k \in 1..(Len(body) - j) : c[k] = body[j + k]
  <2>1. j + 1 \in 1..(Len(body) + 1) /\ Len(body) \in ((j + 1) - 1)..Len(body)
    BY <1>0
  <2>2. Len(body) - (j + 1) + 1 = Len(body) - j
    BY <1>0
  <2>3. \A k \in 1..(Len(body) - j) : (j + 1) + k - 1 = j + k
    BY <1>0
  <2>4. /\ c \in Seq(Section) /\ Len(c) = Len(body) - (j + 1) + 1
        /\ \A k \in 1..(Len(body) - (j + 1) + 1) : c[k] = body[(j + 1) + k - 1]
    BY <2>1, Piece
  <2> HIDE DEF c
  <2> QED
    BY <2>2, <2>3, <2>4
<1> HIDE DEF a, b, c
<1>4. /\ a \o new \in Seq(Section) /\ MarkersIn(a \o new) = MarkersIn(a) \cup MarkersIn(new)
      /\ (a \o new) \o c \in Seq(Section)
      /\ MarkersIn((a \o new) \o c) = MarkersIn(a \o new) \cup MarkersIn(c)
  BY <1>1, <1>3, MarkersOfBoth
<1>5. Cut(body, i, j, new) = (a \o new) \o c
  BY DEF Cut, a, c
<1>6. MarkersIn(body) \subseteq MarkersIn(a) \cup MarkersIn(b) \cup MarkersIn(c)
  <2> SUFFICES ASSUME NEW m \in MarkersIn(body)
               PROVE  m \in MarkersIn(a) \cup MarkersIn(b) \cup MarkersIn(c)
    OBVIOUS
  <2>1. PICK k \in 1..Len(body) : m \in body[k].said \cup body[k].cited
    BY MarkersAre
  <2>2. CASE k <= i - 1
    <3>1. k \in 1..Len(a) /\ a[k] = body[k]
      BY <1>0, <1>1, <2>2
    <3> QED
      BY <1>1, <2>1, <3>1, MarkersAre
  <2>3. CASE k > i - 1 /\ k <= j
    <3>1. k - i + 1 \in 1..(j - i + 1) /\ i + (k - i + 1) - 1 = k
      BY <1>0, <2>3
    <3>2. k - i + 1 \in 1..Len(b) /\ b[k - i + 1] = body[k]
      BY <1>2, <3>1
    <3> QED
      BY <1>2, <2>1, <3>2, MarkersAre
  <2>4. CASE k > j
    <3>1. k - j \in 1..(Len(body) - j) /\ j + (k - j) = k
      BY <1>0, <2>4
    <3>2. k - j \in 1..Len(c) /\ c[k - j] = body[k]
      BY <1>3, <3>1
    <3> QED
      BY <1>3, <2>1, <3>2, MarkersAre
  <2> QED
    BY <1>0, <2>2, <2>3, <2>4
<1> QED
  BY <1>4, <1>5, <1>6 DEF b

-----------------------------------------------------------------------------
(* The operations on guides.                                               *)

\* Find returns 0 or the place of a section.
LEMMA FindIsPlace ==
  ASSUME NEW body \in Seq(Section), NEW h
  PROVE  Find(body, h) \in 0..Len(body)
<1> DEFINE at == {i \in DOMAIN body : body[i].head = h}
<1>1. at \in SUBSET (1..Len(body)) /\ at \in SUBSET Nat
  OBVIOUS
<1>2. Find(body, h) = IF at = {} THEN 0 ELSE Min(at)
  BY DEF Find
<1> HIDE DEF at
<1>3. CASE at = {}
  BY <1>2, <1>3
<1>4. CASE at # {}
  <2>1. Min(at) \in 1..Len(body)
    BY <1>1, <1>4, MinIsLeast
  <2> QED
    BY <1>2, <1>4, <2>1
<1> QED
  BY <1>3, <1>4

\* A section reaches to itself at least, and to the end of the body at most.
LEMMA ExtentIsPlace ==
  ASSUME NEW body \in Seq(Section), NEW i \in 1..Len(body), NEW full
  PROVE  Extent(body, i, full) \in i..Len(body)
<1> DEFINE ends == {k \in (i + 1)..Len(body) :
                      /\ LevelOf[body[k].head] > 0
                      /\ full => LevelOf[body[k].head] <= LevelOf[body[i].head]}
<1>1. ends \in SUBSET ((i + 1)..Len(body)) /\ ends \in SUBSET Nat
  OBVIOUS
<1>2. Extent(body, i, full) = IF ends = {} THEN Len(body) ELSE Min(ends) - 1
  BY DEF Extent
<1> HIDE DEF ends
<1>3. CASE ends = {}
  BY <1>2, <1>3
<1>4. CASE ends # {}
  <2>1. Min(ends) \in (i + 1)..Len(body)
    BY <1>1, <1>4, MinIsLeast
  <2>2. Min(ends) - 1 \in i..Len(body)
    BY <2>1
  <2> QED
    BY <1>2, <1>4, <2>2
<1> QED
  BY <1>3, <1>4

\* A guide keeps what another holds.
Keeps(new, g) == MarkersIn(g.body) \subseteq MarkersIn(new.body)

\* A statement is added and none is lost.
LEMMA AddKeeps ==
  ASSUME NEW g \in GuideText, NEW h \in GuideHeading, NEW m \in Marker
  PROVE  Add(g, h, m) \in GuideText /\ Keeps(Add(g, h, m), g)
<1> DEFINE i == Find(g.body, h)
           see == Find(g.body, SeeAlso)
           at == IF see = 0 THEN Len(g.body) + 1 ELSE see
           s == <<Sect(h, {m}, {})>>
           b == [g.body EXCEPT ![i].said = @ \cup {m}]
           c == Cut(g.body, at, at - 1, s)
<1>1. g.body \in Seq(Section) /\ g.sees \in SUBSET Slug
  BY DEF GuideText
<1>2. i \in 0..Len(g.body) /\ see \in 0..Len(g.body)
  BY <1>1, FindIsPlace
<1>3. ASSUME i /= 0 PROVE b \in Seq(Section) /\ MarkersIn(g.body) \subseteq MarkersIn(b)
  <2> HIDE DEF i
  <2> DEFINE x == [g.body[i] EXCEPT !.said = @ \cup {m}]
  <2>1. i \in 1..Len(g.body) /\ g.body[i] \in Section
    BY <1>1, <1>2, <1>3
  <2>2. x \in Section /\ x.said = g.body[i].said \cup {m} /\ x.cited = g.body[i].cited
    BY <2>1 DEF Section
  <2>3. b = [g.body EXCEPT ![i] = x]
    OBVIOUS
  <2> HIDE DEF x, b
  <2>4. /\ b \in Seq(Section) /\ Len(b) = Len(g.body) /\ b[i] = x
        /\ \A k \in 1..Len(g.body) : k /= i => b[k] = g.body[k]
    BY <1>1, <2>1, <2>2, <2>3
  <2>5. ASSUME NEW n \in MarkersIn(g.body) PROVE n \in MarkersIn(b)
    <3>1. PICK k \in 1..Len(g.body) : n \in g.body[k].said \cup g.body[k].cited
      BY <1>1, <2>5, MarkersAre
    <3>2. k \in 1..Len(b) /\ n \in b[k].said \cup b[k].cited
      BY <2>2, <2>4, <3>1
    <3> QED
      BY <2>4, <3>2, MarkersAre
  <2> QED
    BY <2>4, <2>5
<1>4. c \in Seq(Section) /\ MarkersIn(g.body) \subseteq MarkersIn(c)
  <2>1. at \in 1..(Len(g.body) + 1) /\ at - 1 \in (at - 1)..Len(g.body)
    BY <1>1, <1>2
  <2>2. s \in Seq(Section)
    <3> DEFINE x == Sect(h, {m}, {})
    <3>1. x \in Section
      BY DEF Sect, Section
    <3> QED
      BY <3>1, MarkersOfOne
  <2>3. /\ c \in Seq(Section)
        /\ MarkersIn(g.body) \subseteq MarkersIn(c) \cup MarkersIn(SubSeq(g.body, at, at - 1))
    <3> HIDE DEF at, s
    <3> QED BY <1>1, <2>1, <2>2, CutKeeps
  <2>4. MarkersIn(SubSeq(g.body, at, at - 1)) = {}
    <3> HIDE DEF at
    <3>1. /\ SubSeq(g.body, at, at - 1) \in Seq(Section)
          /\ Len(SubSeq(g.body, at, at - 1)) = (at - 1) - at + 1
      BY <1>1, <2>1, Piece
    <3>2. (at - 1) - at + 1 = 0
      BY <2>1
    <3>3. 1..Len(SubSeq(g.body, at, at - 1)) = {}
      BY <3>1, <3>2
    <3>4. \A n : n \notin MarkersIn(SubSeq(g.body, at, at - 1))
      BY <3>1, <3>3, MarkersAre
    <3> QED
      BY <3>4
  <2> QED
    BY <2>3, <2>4
<1>5. Add(g, h, m) = IF i /= 0 THEN [g EXCEPT !.body = b] ELSE [g EXCEPT !.body = c]
  BY <1>1 DEF Add, GuideText
<1> HIDE DEF i, b, c
<1>6. \A y \in Seq(Section) : [g EXCEPT !.body = y] \in GuideText /\ [g EXCEPT !.body = y].body = y
  BY DEF GuideText
<1> QED
  BY <1>3, <1>4, <1>5, <1>6 DEF Keeps

\* A section is reworded; its markers go to its trailer.
LEMMA ReviseKeeps ==
  ASSUME NEW g \in GuideText, NEW h \in GuideHeading, NEW m \in Marker
  PROVE  Revise(g, h, m) \in GuideText /\ Keeps(Revise(g, h, m), g)
<1> DEFINE i == Find(g.body, h)
           j == Extent(g.body, i, FALSE)
           old == MarkersIn(SubSeq(g.body, i, j))
           x == Sect(h, {m}, old \cup {m})
           s == <<x>>
           c == Cut(g.body, i, j, s)
<1>1. g.body \in Seq(Section) /\ g.sees \in SUBSET Slug
  BY DEF GuideText
<1>2. i \in 0..Len(g.body)
  BY <1>1, FindIsPlace
<1>3. CASE i = 0
  BY <1>3, AddKeeps DEF Revise
<1>4. CASE i /= 0
  <2> HIDE DEF i
  <2>1. i \in 1..Len(g.body) /\ j \in i..Len(g.body)
    <3>1. i \in 1..Len(g.body)
      BY <1>1, <1>2, <1>4
    <3> QED
      BY <1>1, <3>1, ExtentIsPlace
  <2> HIDE DEF j
  <2>2. i \in 1..(Len(g.body) + 1) /\ j \in (i - 1)..Len(g.body)
    BY <1>1, <2>1
  <2>3. SubSeq(g.body, i, j) \in Seq(Section)
    BY <1>1, <2>2, Piece
  <2>4. old \in SUBSET Marker
    BY <2>3, MarkersAre
  <2> HIDE DEF old
  <2>5. s \in Seq(Section) /\ MarkersIn(s) = {m} \cup (old \cup {m})
    <3>1. x \in Section /\ x.said = {m} /\ x.cited = old \cup {m}
      BY <2>4 DEF Sect, Section
    <3> HIDE DEF x
    <3>2. <<x>> \in Seq(Section) /\ MarkersIn(<<x>>) = x.said \cup x.cited
      BY <3>1, MarkersOfOne
    <3> QED
      BY <3>1, <3>2
  <2> HIDE DEF s
  <2>6. /\ c \in Seq(Section)
        /\ MarkersIn(g.body) \subseteq MarkersIn(c) \cup old
        /\ MarkersIn(s) \subseteq MarkersIn(c)
    BY <1>1, <2>2, <2>5, CutKeeps DEF old
  <2>7. Revise(g, h, m) = [g EXCEPT !.body = c]
    BY <1>4 DEF Revise, i, j, old, s
  <2> HIDE DEF c
  <2>8. [g EXCEPT !.body = c] \in GuideText /\ [g EXCEPT !.body = c].body = c
    BY <2>6 DEF GuideText
  <2> QED
    BY <2>5, <2>6, <2>7, <2>8 DEF Keeps
<1> QED
  BY <1>3, <1>4

\* A section is retired; its markers are quoted at the end.
LEMMA RetireKeeps ==
  ASSUME NEW g \in GuideText, NEW h \in GuideHeading, NEW m \in Marker, Find(g.body, h) /= 0
  PROVE  RetireSection(g, h, m) \in GuideText /\ Keeps(RetireSection(g, h, m), g)
<1> DEFINE i == Find(g.body, h)
           j == Extent(g.body, i, TRUE)
           gone == SubSeq(g.body, i, j)
           x == Sect(Retired, {m}, MarkersIn(gone))
           c == Cut(g.body, i, j, <<>>)
           links == IF Find(gone, SeeAlso) = 0 THEN g.sees ELSE {}
<1>1. g.body \in Seq(Section) /\ g.sees \in SUBSET Slug
  BY DEF GuideText
<1>2. i \in 1..Len(g.body)
  <2>1. i \in 0..Len(g.body)
    BY <1>1, FindIsPlace
  <2> HIDE DEF i
  <2>2. i /= 0
    BY DEF i
  <2> QED
    BY <1>1, <2>1, <2>2
<1> HIDE DEF i
<1>3. j \in i..Len(g.body)
  BY <1>1, <1>2, ExtentIsPlace
<1> HIDE DEF j
<1>4. i \in 1..(Len(g.body) + 1) /\ j \in (i - 1)..Len(g.body)
  BY <1>1, <1>2, <1>3
<1>5. gone \in Seq(Section)
  BY <1>1, <1>4, Piece
<1> HIDE DEF gone
<1>6. MarkersIn(gone) \in SUBSET Marker
  BY <1>5, MarkersAre
<1>7. <<x>> \in Seq(Section) /\ MarkersIn(<<x>>) = {m} \cup MarkersIn(gone)
  <2>1. x \in Section /\ x.said = {m} /\ x.cited = MarkersIn(gone)
    BY <1>6, WikiAssumption DEF Sect, Section
  <2> HIDE DEF x
  <2> QED
    BY <2>1, MarkersOfOne
<1>8. x \in Section
  BY <1>6, WikiAssumption DEF Sect, Section
<1>9. c \in Seq(Section) /\ MarkersIn(g.body) \subseteq MarkersIn(c) \cup MarkersIn(gone)
  <2>1. <<>> \in Seq(Section)
    OBVIOUS
  <2> QED
    BY <1>1, <1>4, <2>1, CutKeeps DEF gone
<1>10. links \in SUBSET Slug
  BY <1>1
<1>11. RetireSection(g, h, m) = [body |-> Append(c, x), sees |-> links]
  <2>1. RetireSection(g, h, m) = [g EXCEPT !.body = Append(c, x), !.sees = links]
    BY DEF RetireSection, i, j, gone
  <2> HIDE DEF c, x, links
  <2> QED
    BY <2>1 DEF GuideText
<1> HIDE DEF c, x, links
<1>12. Append(c, x) = c \o <<x>>
  BY <1>8, <1>9
<1>13. /\ c \o <<x>> \in Seq(Section)
       /\ MarkersIn(c \o <<x>>) = MarkersIn(c) \cup MarkersIn(<<x>>)
  BY <1>7, <1>9, MarkersOfBoth
<1> QED
  BY <1>7, <1>9, <1>10, <1>11, <1>12, <1>13 DEF Keeps, GuideText

\* What an operation makes of a guide is a guide that keeps what it holds, or,
\* of a guide there is not, nothing or a new one.
LEMMA AppliedKeeps ==
  ASSUME NEW o \in Op, NEW g \in GuideText \cup {NoFile}
  PROVE  /\ Applied(o, g) \in GuideText \cup {NoFile}
         /\ g \in GuideText => Applied(o, g) \in GuideText /\ Keeps(Applied(o, g), g)
<1>1. o.head \in GuideHeading /\ o.claim \in Marker /\ o.op \in {"add", "revise", "remove"}
  BY DEF Op, Marker
<1>2. CASE g = NoFile
  <2>1. <<Sect(o.head, {o.claim}, {})>> \in Seq(Section)
    <3>1. Sect(o.head, {o.claim}, {}) \in Section
      BY <1>1 DEF Sect, Section
    <3> QED
      BY <3>1, MarkersOfOne
  <2>2. [body |-> <<Sect(o.head, {o.claim}, {})>>, sees |-> {}] \in GuideText
    BY <2>1 DEF GuideText
  <2> QED
    BY <1>2, <2>2, WikiAssumption DEF Applied
<1>3. CASE g \in GuideText
  <2>1. g /= NoFile
    BY <1>3, WikiAssumption
  <2>2. CASE o.op = "add"
    BY <1>1, <1>3, <2>1, <2>2, AddKeeps DEF Applied
  <2>3. CASE o.op = "revise"
    BY <1>1, <1>3, <2>1, <2>3, ReviseKeeps DEF Applied
  <2>4. CASE o.op = "remove"
    <3>1. Applied(o, g) = IF Find(g.body, o.head) = 0 THEN g ELSE RetireSection(g, o.head, o.claim)
      BY <2>1, <2>4 DEF Applied
    <3>2. Keeps(g, g)
      BY DEF Keeps
    <3> QED
      BY <1>1, <1>3, <3>1, <3>2, RetireKeeps
  <2> QED
    BY <1>1, <2>2, <2>3, <2>4
<1> QED
  BY <1>2, <1>3

-----------------------------------------------------------------------------
(* The invariant.                                                          *)

\* Where an attempt is, and what the operation at the head has done.
AttemptInv ==
  /\ stage \in {"reconcile", "save", "receipt"} => admitted \subseteq DOMAIN route
  /\ stage \in {"save", "receipt"} => edits /= <<>>
  /\ stage = "save" => latest[CaptureJob] \subseteq {Head(edits).slug}
  /\ stage = "receipt" => Head(edits).claim \in written
  /\ stage /= "links" => plan[CaptureJob] = <<>>

\* Where a pass is, it has planned or not.
PassInv ==
  /\ \A p \in Pass : passAt[p] \in {"off", "loaded"} => plan[p] = <<>>
  /\ \A p \in Pass : passAt[p] /= "write" => dropped[p] = {}
  /\ passes = 0 => \A p \in Pass : passAt[p] = "off"

\* What is the latest is what is on disk.
LatestInv == \A w \in Writer : \A s \in latest[w] : loaded[w][s] = guide[s]

\* What is going to be written keeps the markers of what was read.
PlanInv ==
  \A w \in Writer : \A s \in DOMAIN plan[w] :
    loaded[w][s] \in GuideText /\ Keeps(plan[w][s], loaded[w][s])

\* A pass is going to delete guide d as it read it, and has no guide left to
\* write that takes its markers over.
Carried(p, d) == \E c \in DOMAIN plan[p] : Keeps(plan[p][c], loaded[p][d])
Doomed(p, d) == d \in dropped[p] /\ d \in latest[p] /\ ~Carried(p, d)

\* A marker is in a guide that is not doomed.
ConservedInv ==
  /\ receipts \subseteq written
  /\ ~overwritten =>
       \A m \in written : \E d \in Present(guide) :
         m \in MarkersIn(guide[d].body) /\ \A p \in Pass : ~Doomed(p, d)

\* Where the claims are that the capture owes: admitted, among the operations
\* still to apply, or written.
InEdits == {edits[i].claim : i \in DOMAIN edits}
OwedInv ==
  /\ stage \in {"extract", "route", "reconcile", "save", "receipt"} => ~failed
  /\ stage = "route" => owed \subseteq admitted
  /\ stage \in {"reconcile", "save", "receipt"} => owed \subseteq admitted \cup InEdits \cup written
  /\ stage \in {"maintain", "links", "finish"} => failed \/ owed \subseteq written
  /\ committed => stage = "off" /\ owed \subseteq written

\* The wiki as it is when the mending of its links is done.
Mended(g) == [s \in Slug |-> IF s \in DOMAIN LinkedBack(g) THEN LinkedBack(g)[s] ELSE g[s]]
Mutual(g) ==
  \A s \in Present(g) : \A t \in g[s].sees \cap Present(g) : s \in g[t].sees

\* Undisturbed, the mending has been done for all guides but those of the plan.
LinksInv ==
  passes = 0 /\ faults = 0 =>
    /\ stage = "links" =>
         \A s \in Slug : IF s \in DOMAIN plan[CaptureJob]
                         THEN plan[CaptureJob][s] = Mended(loaded[CaptureJob])[s]
                         ELSE guide[s] = Mended(loaded[CaptureJob])[s]
    /\ stage = "finish" => Mutual(guide)

Plans == UNION {[some -> GuideText] : some \in SUBSET Slug}

\* The parts of the type invariant.
AttemptTypes ==
  /\ wikiLock \in BOOLEAN
  /\ stage \in {"off", "extract", "route", "reconcile", "save", "receipt",
                "maintain", "links", "finish"}
  /\ admitted \subseteq WikiClaim
  /\ DOMAIN route \subseteq WikiClaim /\ \A c \in DOMAIN route : route[c] \in Slug
  /\ edits \in Seq(Op)
  /\ failed \in BOOLEAN /\ committed \in BOOLEAN
TextTypes ==
  /\ guide \in Guides
  /\ overwritten \in BOOLEAN
  /\ receipts \subseteq Marker /\ written \subseteq Marker /\ owed \subseteq WikiClaim
PassTypes ==
  /\ passAt \in [Pass -> {"off", "loaded", "write", "links"}]
  /\ loaded \in [Writer -> Guides]
  /\ latest \in [Writer -> SUBSET Slug]
  /\ plan \in [Writer -> Plans]
  /\ dropped \in [Writer -> SUBSET Slug]
BoundTypes ==
  attempts \in 0..MaxAttempts /\ passes \in 0..MaxPasses /\ faults \in 0..MaxFaults

WikiInv ==
  /\ AttemptTypes /\ TextTypes /\ PassTypes /\ BoundTypes
  /\ AttemptInv /\ PassInv /\ LatestInv /\ PlanInv
  /\ ConservedInv /\ OwedInv /\ LinksInv

\* The types are parts of the invariant.
LEMMA TypeParts == WikiInv => WikiTypeOK
<1> SUFFICES ASSUME WikiInv PROVE WikiTypeOK
  OBVIOUS
<1>1. PassTypes
  BY DEF WikiInv
<1>2. plan \in [Writer -> Plans]
  BY <1>1 DEF PassTypes
<1>3. plan = [w \in Writer |-> plan[w]]
  BY <1>2
<1>4. \A w \in Writer : IsPlan(plan[w])
  BY <1>2 DEF Plans, IsPlan
<1> QED
  BY <1>3, <1>4 DEF WikiInv, WikiTypeOK, AttemptTypes, TextTypes, PassTypes, BoundTypes

-----------------------------------------------------------------------------
(* Plans, and the mending of links.                                        *)

\* A plan is a function from some guides to their new texts.
LEMMA PlanIs ==
  ASSUME NEW x
  PROVE  x \in Plans <=> DOMAIN x \in SUBSET Slug /\ x \in [DOMAIN x -> GuideText]
<1>1. ASSUME x \in Plans PROVE DOMAIN x \in SUBSET Slug /\ x \in [DOMAIN x -> GuideText]
  <2>1. PICK some \in SUBSET Slug : x \in [some -> GuideText]
    BY <1>1 DEF Plans
  <2>2. DOMAIN x = some
    BY <2>1
  <2> QED
    BY <2>1, <2>2
<1>2. ASSUME DOMAIN x \in SUBSET Slug, x \in [DOMAIN x -> GuideText] PROVE x \in Plans
  BY <1>2 DEF Plans
<1> QED
  BY <1>1, <1>2

\* There is a plan to write nothing.
LEMMA NoPlan == <<>> \in Plans /\ DOMAIN <<>> = {}
<1>1. <<>> \in [{} -> GuideText]
  OBVIOUS
<1>2. {} \in SUBSET Slug
  OBVIOUS
<1> QED
  BY <1>1, <1>2 DEF Plans

\* The guides that link to t and are not linked to by it.
Back(g, t) == {s \in Present(g) \ {t} : t \in g[s].sees} \ g[t].sees

\* The guides mended are guides there were, and keep what they hold.
LEMMA LinkedBackKeeps ==
  ASSUME NEW g \in Guides
  PROVE  /\ LinkedBack(g) \in Plans
         /\ \A t \in DOMAIN LinkedBack(g) :
              /\ t \in Present(g) /\ g[t] \in GuideText
              /\ LinkedBack(g)[t].sees = g[t].sees \cup Back(g, t)
              /\ Keeps(LinkedBack(g)[t], g[t])
         /\ \A t \in Present(g) : t \notin DOMAIN LinkedBack(g) => Back(g, t) = {}
<1> DEFINE D == {u \in Present(g) : Back(g, u) /= {}}
           x == Sect(SeeAlso, {}, {})
<1>1. LinkedBack(g) = [t \in D |-> SeeBack(g[t], Back(g, t))]
  BY DEF LinkedBack, Back
<1>2. \A t \in Present(g) : t \in Slug /\ g[t] \in GuideText
  BY DEF Present, Guides
<1>3. x \in Section /\ x.said = {} /\ x.cited = {}
  BY WikiAssumption DEF Sect, Section
<1> HIDE DEF x
<1>4. <<x>> \in Seq(Section) /\ MarkersIn(<<x>>) = {}
  BY <1>3, MarkersOfOne
<1>5. ASSUME NEW t \in Present(g)
      PROVE  /\ SeeBack(g[t], Back(g, t)) \in GuideText
             /\ SeeBack(g[t], Back(g, t)).sees = g[t].sees \cup Back(g, t)
             /\ Keeps(SeeBack(g[t], Back(g, t)), g[t])
  <2>1. g[t].body \in Seq(Section) /\ g[t].sees \in SUBSET Slug
    BY <1>2 DEF GuideText
  <2>2. Back(g, t) \in SUBSET Slug
    BY DEF Back, Present
  <2> DEFINE b == IF Find(g[t].body, SeeAlso) = 0 THEN Append(g[t].body, x) ELSE g[t].body
  <2>3. Append(g[t].body, x) = g[t].body \o <<x>>
    BY <1>3, <2>1
  <2>4. /\ g[t].body \o <<x>> \in Seq(Section)
        /\ MarkersIn(g[t].body \o <<x>>) = MarkersIn(g[t].body) \cup MarkersIn(<<x>>)
    BY <1>4, <2>1, MarkersOfBoth
  <2>5. b \in Seq(Section) /\ MarkersIn(g[t].body) \subseteq MarkersIn(b)
    BY <2>1, <2>3, <2>4
  <2>6. SeeBack(g[t], Back(g, t)) = [body |-> b, sees |-> g[t].sees \cup Back(g, t)]
    BY DEF SeeBack, x
  <2> HIDE DEF b
  <2> QED
    BY <2>1, <2>2, <2>5, <2>6 DEF Keeps, GuideText
<1>6. DOMAIN LinkedBack(g) = D /\ D \subseteq Present(g) /\ D \in SUBSET Slug
  BY <1>1, <1>2
<1>7. LinkedBack(g) \in Plans
  <2>1. LinkedBack(g) \in [D -> GuideText]
    BY <1>1, <1>5, <1>6
  <2> QED
    BY <1>6, <2>1, PlanIs
<1>8. \A t \in D : LinkedBack(g)[t] = SeeBack(g[t], Back(g, t))
  BY <1>1
<1>9. \A t \in Present(g) : t \notin D => Back(g, t) = {}
  OBVIOUS
<1> HIDE DEF D
<1> QED
  BY <1>2, <1>5, <1>6, <1>7, <1>8, <1>9

\* Once all of them are written, every link is answered.
LEMMA MendedIsMutual ==
  ASSUME NEW g \in Guides
  PROVE  Mended(g) \in Guides /\ Mutual(Mended(g))
<1> DEFINE f == Mended(g)
<1>1. /\ f \in [Slug -> GuideText \cup {NoFile}]
      /\ \A s \in Slug : f[s] = IF s \in DOMAIN LinkedBack(g) THEN LinkedBack(g)[s] ELSE g[s]
  <2>1. LinkedBack(g) \in [DOMAIN LinkedBack(g) -> GuideText]
    BY LinkedBackKeeps, PlanIs
  <2> QED
    BY <2>1 DEF Mended, Guides
<1> HIDE DEF f
<1>2. \A s \in Slug : f[s] /= NoFile <=> g[s] /= NoFile
  <2>1. LinkedBack(g) \in [DOMAIN LinkedBack(g) -> GuideText]
    BY LinkedBackKeeps, PlanIs
  <2> QED
    BY <1>1, <2>1, LinkedBackKeeps, WikiAssumption DEF Present
<1>3. Present(f) = Present(g)
  BY <1>2 DEF Present
<1>4. \A s \in Present(g) : f[s].sees = g[s].sees \cup Back(g, s)
  <2> SUFFICES ASSUME NEW s \in Present(g) PROVE f[s].sees = g[s].sees \cup Back(g, s)
    OBVIOUS
  <2>1. s \in Slug
    BY DEF Present
  <2>2. CASE s \in DOMAIN LinkedBack(g)
    BY <1>1, <2>1, <2>2, LinkedBackKeeps
  <2>3. CASE s \notin DOMAIN LinkedBack(g)
    <3>1. Back(g, s) = {}
      BY <2>3, LinkedBackKeeps
    <3> QED
      BY <1>1, <2>1, <2>3, <3>1
  <2> QED
    BY <2>2, <2>3
<1>5. ASSUME NEW s \in Present(g), NEW t \in Present(g), t \in g[s].sees \cup Back(g, s)
      PROVE  s \in g[t].sees \cup Back(g, t)
  <2>1. CASE s = t
    BY <1>5, <2>1
  <2>2. CASE s /= t
    BY <1>5, <2>2 DEF Back
  <2> QED
    BY <2>1, <2>2
<1>6. Mutual(f)
  BY <1>3, <1>4, <1>5 DEF Mutual
<1> QED
  BY <1>1, <1>6 DEF f, Guides

-----------------------------------------------------------------------------
(* What the parts of actions do.                                           *)

\* The writers are the capture and the maintenance passes.
LEMMA Writers == CaptureJob \in Writer /\ Pass \subseteq Writer /\ CaptureJob \notin Pass
  BY WikiAssumption DEF Writer

\* Who loads guides has read their latest versions.
LEMMA LoadEffect ==
  ASSUME TextTypes, PassTypes, NEW w \in Writer, NEW some \in SUBSET Slug, Load(w, some)
  PROVE  /\ loaded' \in [Writer -> Guides] /\ latest' \in [Writer -> SUBSET Slug]
         /\ latest'[w] = some /\ \A s \in some : loaded'[w][s] = guide[s]
         /\ \A v \in Writer \ {w} : loaded'[v] = loaded[v] /\ latest'[v] = latest[v]
<1> DEFINE g == [s \in Slug |-> IF s \in some THEN guide[s] ELSE NoFile]
<1>1. g \in Guides /\ \A s \in some : g[s] = guide[s]
  BY DEF TextTypes, Guides
<1>2. loaded' = [loaded EXCEPT ![w] = g] /\ latest' = [latest EXCEPT ![w] = some]
  BY DEF Load
<1> HIDE DEF g
<1> QED
  BY <1>1, <1>2 DEF PassTypes

\* Who drops what he loaded leaves the other writers what they loaded.
LEMMA CloseEffect ==
  ASSUME PassTypes, NEW w \in Writer, Close(w)
  PROVE  /\ loaded' \in [Writer -> Guides]
         /\ \A v \in Writer \ {w} : loaded'[v] = loaded[v]
<1> DEFINE g == [s \in Slug |-> NoFile]
<1>1. g \in Guides
  BY DEF Guides
<1>2. loaded' = [loaded EXCEPT ![w] = g]
  BY DEF Close
<1> HIDE DEF g
<1> QED
  BY <1>1, <1>2 DEF PassTypes

\* Who forgets what he read leaves the other writers what they read.
LEMMA ForgetEffect ==
  ASSUME PassTypes, NEW w \in Writer, Forget(w)
  PROVE  /\ loaded' \in [Writer -> Guides] /\ latest' \in [Writer -> SUBSET Slug]
         /\ latest'[w] = {}
         /\ \A v \in Writer \ {w} : loaded'[v] = loaded[v] /\ latest'[v] = latest[v]
<1>1. loaded' \in [Writer -> Guides] /\ \A v \in Writer \ {w} : loaded'[v] = loaded[v]
  BY CloseEffect DEF Forget
<1> QED
  BY <1>1 DEF Forget, PassTypes

\* A guide that is written is nobody's latest reading any more.
LEMMA PutEffect ==
  ASSUME TextTypes, PassTypes, NEW w, NEW s \in Slug, NEW new \in GuideText \cup {NoFile},
         Put(w, s, new)
  PROVE  /\ guide' \in Guides /\ guide'[s] = new
         /\ \A t \in Slug \ {s} : guide'[t] = guide[t]
         /\ latest' \in [Writer -> SUBSET Slug]
         /\ \A v \in Writer : latest'[v] = latest[v] \ {s}
         /\ overwritten' = (overwritten \/ s \notin latest[w])
  BY DEF Put, TextTypes, PassTypes, Guides

\* A writer makes no plan but his own.
LEMMA PlanEffect ==
  ASSUME PassTypes, NEW w \in Writer, NEW x \in Plans, plan' = [plan EXCEPT ![w] = x]
  PROVE  /\ plan' \in [Writer -> Plans] /\ plan'[w] = x
         /\ \A v \in Writer \ {w} : plan'[v] = plan[v]
  BY DEF PassTypes

\* One guide of a plan is written at a time, and leaves the plan.
LEMMA WriteEffect ==
  ASSUME TextTypes, PassTypes, NEW w \in Writer, WritePlanned(w)
  PROVE  \E s \in DOMAIN plan[w] :
           /\ s \in Slug /\ plan[w][s] \in GuideText
           /\ Put(w, s, plan[w][s])
           /\ written' = written \cup MarkersIn(plan[w][s].body)
           /\ plan' \in [Writer -> Plans]
           /\ DOMAIN plan'[w] = DOMAIN plan[w] \ {s}
           /\ \A t \in DOMAIN plan[w] \ {s} : plan'[w][t] = plan[w][t]
           /\ \A v \in Writer \ {w} : plan'[v] = plan[v]
<1>1. PICK s \in DOMAIN plan[w] :
        /\ Put(w, s, plan[w][s])
        /\ written' = written \cup MarkersIn(plan[w][s].body)
        /\ plan' = [plan EXCEPT ![w] = Restrict(@, DOMAIN @ \ {s})]
  BY DEF WritePlanned
<1> DEFINE x == [t \in DOMAIN plan[w] \ {s} |-> plan[w][t]]
<1>2. plan[w] \in Plans
  BY DEF PassTypes
<1>3. DOMAIN plan[w] \in SUBSET Slug /\ plan[w] \in [DOMAIN plan[w] -> GuideText]
  BY <1>2, PlanIs
<1>4. DOMAIN x = DOMAIN plan[w] \ {s} /\ \A t \in DOMAIN plan[w] \ {s} : x[t] = plan[w][t]
  OBVIOUS
<1>5. x \in Plans
  <2>1. DOMAIN x \in SUBSET Slug /\ x \in [DOMAIN x -> GuideText]
    BY <1>3
  <2> HIDE DEF x
  <2> QED
    BY <2>1, PlanIs
<1>6. plan' = [plan EXCEPT ![w] = x]
  BY <1>1 DEF Restrict
<1> HIDE DEF x
<1>7. /\ plan' \in [Writer -> Plans] /\ plan'[w] = x
      /\ \A v \in Writer \ {w} : plan'[v] = plan[v]
  BY <1>5, <1>6, PlanEffect
<1>8. s \in Slug /\ plan[w][s] \in GuideText
  BY <1>3
<1> QED
  BY <1>1, <1>4, <1>7, <1>8

\* The operations that RECONCILE lists: theirs are the claims told.
Told(s, told, kind, head) ==
  {[slug |-> s, op |-> kind[c], head |-> head[c], claim |-> c] : c \in told}

\* Every claim told of is among the operations on its guide.
LEMMA Listed ==
  ASSUME NEW told \in SUBSET WikiClaim, NEW s \in Slug,
         NEW kind \in [told -> {"add", "revise", "remove"}],
         NEW head \in [told -> GuideHeading \ {SeeAlso}],
         NEW list, list = SetToSeq(Told(s, told, kind, head))
  PROVE  /\ list \in Seq(Op)
         /\ \A c \in told : \E i \in DOMAIN list : list[i].claim = c
<1> DEFINE Make(c) == [slug |-> s, op |-> kind[c], head |-> head[c], claim |-> c]
           f == [c \in told |-> Make(c)]
           S == {Make(c) : c \in told}
<1>1. IsFiniteSet(told)
  BY WikiAssumption, FS_Subset
<1>2. \A c \in told : Make(c) \in Op /\ Make(c).claim = c
  BY DEF Op
<1> HIDE DEF Make
<1>3. f \in Surjection(told, S)
  BY DEF Surjection
<1>4. S \in SUBSET Op /\ \A c \in told : Make(c) \in S
  BY <1>2
<1>5. IsFiniteSet(S)
  <2> HIDE DEF f, S
  <2> QED
    BY <1>1, <1>3, FS_Surjection
<1>6. list = SetToSeq(S)
  BY DEF Make, Told
<1> HIDE DEF S
<1>7. list \in Seq(S) /\ \A e \in S : \E i \in 1..Len(list) : list[i] = e
  BY <1>5, <1>6, SetToSeqLists
<1>8. list \in Seq(Op) /\ DOMAIN list = 1..Len(list)
  BY <1>4, <1>7
<1>9. ASSUME NEW c \in told PROVE \E i \in DOMAIN list : list[i].claim = c
  <2>1. PICK i \in 1..Len(list) : list[i] = Make(c)
    BY <1>4, <1>7
  <2> QED
    BY <1>2, <1>8, <2>1
<1> QED
  BY <1>8, <1>9

-----------------------------------------------------------------------------
(* The types.                                                              *)

\* The wiki invariant holds initially.
LEMMA InitWiki == WikiInit => WikiInv
<1> SUFFICES ASSUME WikiInit PROVE WikiInv
  OBVIOUS
<1> USE DEF WikiInit
<1>1. guide \in Guides
  BY WikiAssumption
<1>2. \A s \in Present(guide) : guide[s].body \in Seq(Section)
  BY <1>1 DEF Guides, Present, GuideText
<1>3. written \subseteq Marker
  BY <1>2, MarkersAre DEF Markers
<1>4. TextTypes
  BY <1>1, <1>3 DEF TextTypes
<1>5. AttemptTypes
  <2>1. DOMAIN route = {} /\ edits \in Seq(Op)
    BY NoPlan
  <2> QED
    BY <2>1 DEF AttemptTypes
<1>6. PassTypes
  BY NoPlan DEF PassTypes, Guides
<1>7. BoundTypes
  BY WikiAssumption DEF BoundTypes
<1>8. AttemptInv /\ PassInv /\ LatestInv /\ PlanInv
  BY Writers, NoPlan DEF AttemptInv, PassInv, LatestInv, PlanInv
<1>9. ConservedInv
  <2>1. \A m \in written : \E d \in Present(guide) : m \in MarkersIn(guide[d].body)
    BY DEF Markers
  <2>2. \A p \in Pass : \A d : ~Doomed(p, d)
    BY Writers DEF Doomed
  <2> QED
    BY <2>1, <2>2 DEF ConservedInv
<1>10. OwedInv /\ LinksInv
  BY DEF OwedInv, LinksInv
<1> QED
  BY <1>4, <1>5, <1>6, <1>7, <1>8, <1>9, <1>10 DEF WikiInv

\* What an operation makes of what the capture has read.
LEMMA SavedIs ==
  ASSUME AttemptTypes, TextTypes, PassTypes, AttemptInv, stage = "save",
         NEW o, o = Head(edits), NEW new, new = Applied(o, loaded[CaptureJob][o.slug])
  PROVE  /\ o \in Op /\ o.slug \in Slug /\ o.claim \in WikiClaim
         /\ new \in GuideText \cup {NoFile}
         /\ new /= NoFile => new \in GuideText /\ MarkersIn(new.body) \in SUBSET Marker
         /\ loaded[CaptureJob][o.slug] \in GuideText =>
              Keeps(new, loaded[CaptureJob][o.slug])
         /\ loaded[CaptureJob][o.slug] \in GuideText \cup {NoFile}
         /\ Tail(edits) \in Seq(Op)
<1>1. edits \in Seq(Op) /\ edits /= <<>>
  BY DEF AttemptTypes, AttemptInv
<1>2. o \in Op /\ Tail(edits) \in Seq(Op)
  BY <1>1
<1>3. o.slug \in Slug /\ o.claim \in WikiClaim
  BY <1>2 DEF Op
<1>4. loaded[CaptureJob][o.slug] \in GuideText \cup {NoFile}
  BY <1>3, Writers DEF PassTypes, Guides
<1>5. /\ new \in GuideText \cup {NoFile}
      /\ loaded[CaptureJob][o.slug] \in GuideText => Keeps(new, loaded[CaptureJob][o.slug])
  BY <1>2, <1>4, AppliedKeeps
<1>6. ASSUME new \in GuideText PROVE MarkersIn(new.body) \in SUBSET Marker
  <2>1. new.body \in Seq(Section)
    BY <1>6 DEF GuideText
  <2> QED
    BY <2>1, MarkersAre
<1> QED
  BY <1>2, <1>3, <1>4, <1>5, <1>6

\* The markers of a planned guide.
LEMMA PlannedMarkers ==
  ASSUME NEW g \in GuideText
  PROVE  MarkersIn(g.body) \in SUBSET Marker
<1>1. g.body \in Seq(Section)
  BY DEF GuideText
<1> QED
  BY <1>1, MarkersAre

\* The counters stay within their bounds.
LEMMA Bounded ==
  ASSUME BoundTypes,
         attempts' = attempts \/ (attempts < MaxAttempts /\ attempts' = attempts + 1),
         passes' = passes \/ (passes < MaxPasses /\ passes' = passes + 1),
         faults' = faults \/ (faults < MaxFaults /\ faults' = faults + 1)
  PROVE  BoundTypes'
  BY WikiAssumption DEF BoundTypes

\* Where no claim is routed, every routing is to a guide.
LEMMA Unrouted ==
  ASSUME NEW x, x = <<>>
  PROVE  DOMAIN x \subseteq WikiClaim /\ \A c \in DOMAIN x : x[c] \in Slug
  BY NoPlan

\* What RECONCILE takes from the admitted claims it lists or passes over.
LEMMA ReconcileEffect ==
  ASSUME AttemptTypes, AttemptInv, Reconcile
  PROVE  /\ edits' \in Seq(Op)
         /\ admitted' \subseteq admitted /\ owed' \subseteq owed
         /\ owed' \cap admitted \subseteq admitted' \cup InEdits'
         /\ UNCHANGED <<guide, wikiLock, stage, route, failed, committed, receipts,
                         passVars, written, overwritten, wikiBounds>>
<1>1. PICK s \in {route[c] : c \in admitted} :
        /\ \E told \in SUBSET {c \in admitted : route[c] = s} :
             /\ \E kind \in [told -> {"add", "revise", "remove"}],
                   head \in [told -> GuideHeading \ {SeeAlso}] :
                  edits' = SetToSeq(Told(s, told, kind, head))
             /\ owed' = owed \ ({c \in admitted : route[c] = s} \ told)
        /\ admitted' = admitted \ {c \in admitted : route[c] = s}
  BY DEF Reconcile, Told
<1> DEFINE mine == {c \in admitted : route[c] = s}
<1>2. PICK told \in SUBSET mine :
        /\ \E kind \in [told -> {"add", "revise", "remove"}],
              head \in [told -> GuideHeading \ {SeeAlso}] :
             edits' = SetToSeq(Told(s, told, kind, head))
        /\ owed' = owed \ (mine \ told)
  BY <1>1
<1>3. PICK kind \in [told -> {"add", "revise", "remove"}],
           head \in [told -> GuideHeading \ {SeeAlso}] :
        edits' = SetToSeq(Told(s, told, kind, head))
  BY <1>2
<1>4. s \in Slug /\ told \in SUBSET WikiClaim
  BY <1>1, <1>2 DEF Reconcile, AttemptInv, AttemptTypes
<1>5. edits' \in Seq(Op) /\ \A c \in told : \E i \in DOMAIN edits' : edits'[i].claim = c
  BY <1>3, <1>4, Listed
<1>6. told \subseteq InEdits'
  BY <1>5 DEF InEdits
<1>7. UNCHANGED <<guide, wikiLock, stage, route, failed, committed, receipts,
                  passVars, written, overwritten, wikiBounds>>
  BY DEF Reconcile
<1> QED
  BY <1>1, <1>2, <1>5, <1>6, <1>7

\* A step of the capture keeps the types.
LEMMA CaptureTypes ==
  ASSUME WikiInv, CaptureWrites
  PROVE  AttemptTypes' /\ TextTypes' /\ PassTypes' /\ BoundTypes'
<1>0. /\ AttemptTypes /\ TextTypes /\ PassTypes /\ BoundTypes /\ AttemptInv
      /\ CaptureJob \in Writer
  BY Writers DEF WikiInv
<1> USE DEF attemptVars, passVars, wikiHistory, wikiBounds, NextOp
<1>1. CASE StartAttempt
  <2>1. BoundTypes'
    BY <1>0, <1>1, Bounded DEF StartAttempt
  <2> QED
    BY <1>0, <1>1, <2>1 DEF StartAttempt, AttemptTypes, TextTypes, PassTypes
<1>2. CASE Extract
  BY <1>0, <1>2 DEF Extract, AttemptTypes, TextTypes, PassTypes, BoundTypes
<1>3. CASE RouteClaims
  BY <1>0, <1>3 DEF RouteClaims, Routed, AttemptTypes, TextTypes, PassTypes, BoundTypes
<1>4. CASE Reconcile
  BY <1>0, <1>4, ReconcileEffect DEF AttemptTypes, TextTypes, PassTypes, BoundTypes
<1>5. CASE Reconciled
  BY <1>0, <1>5 DEF Reconciled, AttemptTypes, TextTypes, PassTypes, BoundTypes
<1>6. CASE StageFails
  BY <1>0, <1>6 DEF StageFails, AttemptTypes, TextTypes, PassTypes, BoundTypes
<1>7. CASE ReadGuide
  <2>1. Head(edits).slug \in Slug
    <3>1. edits \in Seq(Op) /\ edits /= <<>>
      BY <1>0, <1>7 DEF ReadGuide, AttemptTypes
    <3>2. Head(edits) \in Op
      BY <3>1
    <3> QED
      BY <3>2 DEF Op
  <2>2. loaded' \in [Writer -> Guides] /\ latest' \in [Writer -> SUBSET Slug]
    BY <1>0, <1>7, <2>1, LoadEffect DEF ReadGuide
  <2> QED
    BY <1>0, <1>7, <2>2 DEF ReadGuide, AttemptTypes, TextTypes, PassTypes, BoundTypes
<1>8. CASE SaveGuide
  <2> DEFINE o == Head(edits)
             new == Applied(o, loaded[CaptureJob][o.slug])
  <2>1. /\ o.slug \in Slug /\ new \in GuideText /\ MarkersIn(new.body) \in SUBSET Marker
        /\ Tail(edits) \in Seq(Op)
        /\ Put(CaptureJob, o.slug, new) /\ written' = written \cup MarkersIn(new.body)
    BY <1>0, <1>8, SavedIs DEF SaveGuide
  <2>2. /\ \/ stage' = "receipt" /\ UNCHANGED <<edits, owed>>
           \/ edits' = Tail(edits) /\ stage' = "reconcile" /\ owed' \subseteq owed
        /\ Close(CaptureJob) /\ wikiLock' = FALSE
        /\ UNCHANGED <<admitted, route, failed, committed, receipts, passAt, plan, dropped,
                       wikiBounds>>
    BY <1>8 DEF SaveGuide
  <2> HIDE DEF o, new
  <2>3. guide' \in Guides /\ latest' \in [Writer -> SUBSET Slug] /\ overwritten' \in BOOLEAN
    BY <1>0, <2>1, PutEffect DEF TextTypes
  <2>4. loaded' \in [Writer -> Guides]
    BY <1>0, <2>2, CloseEffect
  <2>5. AttemptTypes'
    BY <1>0, <2>1, <2>2 DEF AttemptTypes
  <2> QED
    BY <1>0, <2>1, <2>2, <2>3, <2>4, <2>5 DEF TextTypes, PassTypes, BoundTypes
<1>9. CASE SaveFails
  <2> DEFINE o == Head(edits)
             new == Applied(o, loaded[CaptureJob][o.slug])
  <2>1. Tail(edits) \in Seq(Op)
    BY <1>0, <1>9, SavedIs DEF SaveFails
  <2>2. /\ edits' = Tail(edits) /\ stage' = "reconcile" /\ owed' \subseteq owed
        /\ wikiLock' = FALSE /\ Forget(CaptureJob)
        /\ UNCHANGED <<guide, admitted, route, failed, committed, receipts, passAt, plan,
                       dropped, written, overwritten, attempts, passes>>
        /\ faults' = faults \/ (faults < MaxFaults /\ faults' = faults + 1)
    BY <1>9 DEF SaveFails
  <2>3. loaded' \in [Writer -> Guides] /\ latest' \in [Writer -> SUBSET Slug]
    BY <1>0, <2>2, ForgetEffect
  <2>4. AttemptTypes'
    BY <1>0, <2>1, <2>2 DEF AttemptTypes
  <2>5. BoundTypes'
    BY <1>0, <2>2, Bounded
  <2> QED
    BY <1>0, <2>2, <2>3, <2>4, <2>5 DEF TextTypes, PassTypes
<1>10. CASE Receipt
  <2>1. edits \in Seq(Op) /\ edits /= <<>>
    BY <1>0, <1>10 DEF Receipt, AttemptInv, AttemptTypes
  <2>2. Tail(edits) \in Seq(Op) /\ Head(edits) \in Op
    BY <2>1
  <2>3. Head(edits).claim \in Marker
    BY <2>2 DEF Op, Marker
  <2>4. AttemptTypes'
    BY <1>0, <1>10, <2>2 DEF Receipt, AttemptTypes
  <2>5. BoundTypes'
    BY <1>0, <1>10, Bounded DEF Receipt
  <2> QED
    BY <1>0, <1>10, <2>3, <2>4, <2>5 DEF Receipt, TextTypes, PassTypes
<1>11. CASE Maintain
  <2>1. LinkedBack(guide) \in Plans
    BY <1>0, LinkedBackKeeps DEF TextTypes
  <2>2. plan' \in [Writer -> Plans]
    BY <1>0, <1>11, <2>1, PlanEffect DEF Maintain
  <2>3. loaded' \in [Writer -> Guides] /\ latest' \in [Writer -> SUBSET Slug]
    BY <1>0, <1>11, LoadEffect DEF Maintain
  <2> QED
    BY <1>0, <1>11, <2>2, <2>3 DEF Maintain, AttemptTypes, TextTypes, PassTypes, BoundTypes
<1>12. CASE LinkGuide
  <2>1. PICK s \in DOMAIN plan[CaptureJob] :
          /\ s \in Slug /\ plan[CaptureJob][s] \in GuideText
          /\ Put(CaptureJob, s, plan[CaptureJob][s])
          /\ written' = written \cup MarkersIn(plan[CaptureJob][s].body)
          /\ plan' \in [Writer -> Plans]
    BY <1>0, <1>12, WriteEffect DEF LinkGuide
  <2>2. guide' \in Guides /\ latest' \in [Writer -> SUBSET Slug] /\ overwritten' \in BOOLEAN
    BY <1>0, <2>1, PutEffect DEF TextTypes
  <2>3. MarkersIn(plan[CaptureJob][s].body) \in SUBSET Marker
    BY <2>1, PlannedMarkers
  <2> QED
    BY <1>0, <1>12, <2>1, <2>2, <2>3 DEF LinkGuide, AttemptTypes, TextTypes, PassTypes, BoundTypes
<1>13. CASE LinksEnd
  <2>1. plan' \in [Writer -> Plans]
    BY <1>0, <1>13, NoPlan, PlanEffect DEF LinksEnd
  <2>2. loaded' \in [Writer -> Guides] /\ latest' \in [Writer -> SUBSET Slug]
    BY <1>0, <1>13, ForgetEffect DEF LinksEnd
  <2>3. BoundTypes'
    BY <1>0, <1>13, Bounded DEF LinksEnd
  <2> QED
    BY <1>0, <1>13, <2>1, <2>2, <2>3 DEF LinksEnd, AttemptTypes, TextTypes, PassTypes
<1>14. CASE FinishAttempt
  <2>1. BoundTypes'
    BY <1>0, <1>14, Bounded DEF FinishAttempt
  <2>2. AttemptTypes'
    <3>1. DOMAIN route' \subseteq WikiClaim /\ \A c \in DOMAIN route' : route'[c] \in Slug
      BY <1>14, Unrouted DEF FinishAttempt
    <3> QED
      BY <1>0, <1>14, <3>1 DEF FinishAttempt, AttemptTypes
  <2> QED
    BY <1>0, <1>14, <2>1, <2>2 DEF FinishAttempt, TextTypes, PassTypes
<1>15. CASE KillCapture
  <2>1. plan' \in [Writer -> Plans]
    BY <1>0, <1>15, NoPlan, PlanEffect DEF KillCapture
  <2>2. loaded' \in [Writer -> Guides] /\ latest' \in [Writer -> SUBSET Slug]
    BY <1>0, <1>15, ForgetEffect DEF KillCapture
  <2>3. AttemptTypes'
    <3>1. DOMAIN route' \subseteq WikiClaim /\ \A c \in DOMAIN route' : route'[c] \in Slug
      BY <1>15, Unrouted DEF KillCapture
    <3>2. edits' \in Seq(Op)
      BY <1>15 DEF KillCapture
    <3> QED
      BY <1>0, <1>15, <3>1, <3>2 DEF KillCapture, AttemptTypes
  <2>4. BoundTypes'
    BY <1>0, <1>15, Bounded DEF KillCapture
  <2> QED
    BY <1>0, <1>15, <2>1, <2>2, <2>3, <2>4 DEF KillCapture, TextTypes, PassTypes
<1> QED
  BY <1>1, <1>2, <1>3, <1>4, <1>5, <1>6, <1>7, <1>8, <1>9, <1>10, <1>11, <1>12,
     <1>13, <1>14, <1>15 DEF CaptureWrites

\* What the doctor is going to write keeps what it has read, of the guides
\* that it is going to delete too.
LEMMA DoctorEffect ==
  ASSUME TextTypes, PassTypes, NEW p \in Pass, DoctorPlans(p)
  PROVE  \E x \in Plans, gone \in SUBSET Slug :
           /\ plan' = [plan EXCEPT ![p] = x] /\ dropped' = [dropped EXCEPT ![p] = gone]
           /\ \A s \in DOMAIN x : loaded[p][s] \in GuideText /\ Keeps(x[s], loaded[p][s])
           /\ \A d \in gone : \E c \in DOMAIN x : Keeps(x[c], loaded[p][d])
<1> DEFINE g == loaded[p]
<1>1. g \in Guides
  BY Writers DEF PassTypes
<1>2. PICK group \in {k \in SUBSET Present(g) : Cardinality(k) /= 1} :
        \E c \in IF group = {} THEN Present(g) ELSE group,
           h \in GuideHeading \ {SeeAlso, Retired} :
          /\ plan' = [plan EXCEPT ![p] =
               [s \in Present(g) \ (group \ {c}) |->
                  Remapped(IF s = c /\ group /= {} THEN Merged(g, c, group, h) ELSE g[s],
                           group \ {c}, c)]]
          /\ dropped' = [dropped EXCEPT ![p] = group \ {c}]
  BY DEF DoctorPlans
<1>3. PICK c \in IF group = {} THEN Present(g) ELSE group,
           h \in GuideHeading \ {SeeAlso, Retired} :
          /\ plan' = [plan EXCEPT ![p] =
               [s \in Present(g) \ (group \ {c}) |->
                  Remapped(IF s = c /\ group /= {} THEN Merged(g, c, group, h) ELSE g[s],
                           group \ {c}, c)]]
          /\ dropped' = [dropped EXCEPT ![p] = group \ {c}]
  BY <1>2
<1> DEFINE gone == group \ {c}
           D == Present(g) \ gone
           m == Merged(g, c, group, h)
           y == [s \in D |-> IF s = c /\ group /= {} THEN m ELSE g[s]]
           x == [s \in D |-> Remapped(y[s], gone, c)]
<1>4. group \subseteq Present(g) /\ c \in Present(g) /\ (group /= {} => c \in group)
  BY <1>2, <1>3
<1>5. \A s \in Present(g) : s \in Slug /\ g[s] \in GuideText
  BY <1>1 DEF Present, Guides
<1>6. \A s \in Present(g) :
        g[s].body \in Seq(Section) /\ g[s].sees \in SUBSET Slug /\ MarkersIn(g[s].body) \in SUBSET Marker
  BY <1>5, MarkersAre DEF GuideText
<1>7. m \in GuideText /\ \A s \in group : Keeps(m, g[s])
  <2> DEFINE all == UNION {MarkersIn(g[s].body) : s \in group}
             e == Sect(h, {}, all)
  <2>1. all \in SUBSET Marker /\ \A s \in group : MarkersIn(g[s].body) \subseteq all
    BY <1>4, <1>6
  <2> HIDE DEF all
  <2>2. e \in Section /\ e.said = {} /\ e.cited = all
    BY <2>1 DEF Sect, Section
  <2> HIDE DEF e
  <2>3. <<e>> \in Seq(Section) /\ MarkersIn(<<e>>) = all
    BY <2>2, MarkersOfOne
  <2>4. m = [body |-> <<e>>, sees |-> g[c].sees]
    BY DEF Merged, e, all
  <2> HIDE DEF m
  <2> QED
    BY <1>4, <1>6, <2>1, <2>3, <2>4 DEF Keeps, GuideText
<1> HIDE DEF m
<1>8. \A s \in D : y[s] \in GuideText /\ Keeps(y[s], g[s])
  <2>1. \A s \in D : y[s] = IF s = c /\ group /= {} THEN m ELSE g[s]
    OBVIOUS
  <2>2. \A s \in D : s \in Present(g)
    OBVIOUS
  <2>3. \A s \in D : Keeps(g[s], g[s])
    BY DEF Keeps
  <2> HIDE DEF y, D
  <2> QED
    BY <1>4, <1>5, <1>7, <2>1, <2>2, <2>3
<1>9. \A d \in gone : Keeps(y[c], g[d])
  <2>1. \A d \in gone : d \in group /\ c \in D /\ y[c] = m
    BY <1>4
  <2> HIDE DEF y, D
  <2> QED
    BY <1>7, <2>1
<1>10. DOMAIN x = D /\ D \in SUBSET Slug /\ gone \in SUBSET Slug
  BY <1>4, <1>5
<1>11. \A s \in D : x[s] = Remapped(y[s], gone, c)
  BY DEF y
<1>12. plan' = [plan EXCEPT ![p] = x] /\ dropped' = [dropped EXCEPT ![p] = gone]
  <2>1. \A s \in D : y[s] = IF s = c /\ group /= {} THEN Merged(g, c, group, h) ELSE g[s]
    BY DEF m
  <2>2. x = [s \in Present(g) \ (group \ {c}) |->
               Remapped(IF s = c /\ group /= {} THEN Merged(g, c, group, h) ELSE g[s],
                        group \ {c}, c)]
    BY <2>1
  <2> HIDE DEF x
  <2> QED
    BY <1>3, <2>2
<1>13. c \in gone \/ c \in D
  BY <1>4
<1>14. \A d \in gone : c \in D
  BY <1>4
<1>15. c \in Slug
  BY <1>4, <1>5
<1> HIDE DEF x, y, D, gone
<1>16. ASSUME NEW s \in D PROVE x[s] \in GuideText /\ x[s].body = y[s].body
  <2>1. x[s] = [y[s] EXCEPT !.sees = IF @ \cap gone = {} THEN @ ELSE (@ \ gone) \cup {c}]
    BY <1>11 DEF Remapped
  <2>2. y[s] \in GuideText
    BY <1>8
  <2> QED
    BY <1>15, <2>1, <2>2 DEF GuideText
<1>17. x \in Plans
  <2>1. x \in [DOMAIN x -> GuideText]
    BY <1>10, <1>16 DEF x
  <2> QED
    BY <1>10, <2>1, PlanIs
<1>18. \A s \in D : g[s] \in GuideText /\ Keeps(x[s], g[s])
  <2>1. \A s \in D : g[s] \in GuideText
    BY <1>5 DEF D
  <2> QED
    BY <1>8, <1>16, <2>1 DEF Keeps
<1>19. \A d \in gone : c \in D /\ Keeps(x[c], g[d])
  BY <1>9, <1>14, <1>16 DEF Keeps
<1> QED
  BY <1>10, <1>12, <1>17, <1>18, <1>19

\* A maintenance pass that rewords guides keeps their markers.
LEMMA RewordEffect ==
  ASSUME TextTypes, PassTypes, NEW p \in Pass, RewordPlans(p)
  PROVE  \E x \in Plans :
           /\ plan' = [plan EXCEPT ![p] = x]
           /\ \A s \in DOMAIN x : loaded[p][s] \in GuideText /\ Keeps(x[s], loaded[p][s])
<1>1. PICK some \in SUBSET Present(loaded[p]) :
        plan' = [plan EXCEPT ![p] = [s \in some |-> loaded[p][s]]]
  BY DEF RewordPlans
<1>2. \A s \in some : s \in Slug /\ loaded[p][s] \in GuideText
  BY <1>1, Writers DEF PassTypes, Guides, Present
<1> DEFINE x == [s \in some |-> loaded[p][s]]
<1>3. DOMAIN x = some /\ \A s \in some : x[s] = loaded[p][s]
  OBVIOUS
<1>4. x \in Plans
  <2>1. DOMAIN x \in SUBSET Slug /\ x \in [DOMAIN x -> GuideText]
    BY <1>2
  <2> HIDE DEF x
  <2> QED
    BY <2>1, PlanIs
<1> HIDE DEF x
<1> QED
  BY <1>1, <1>2, <1>3, <1>4 DEF Keeps, x

\* A step of a pass keeps the types.
LEMMA PassStepTypes ==
  ASSUME WikiInv, NEW p \in Pass, PassStep(p)
  PROVE  AttemptTypes' /\ TextTypes' /\ PassTypes' /\ BoundTypes'
<1>0. /\ AttemptTypes /\ TextTypes /\ PassTypes /\ BoundTypes
      /\ p \in Writer
  BY Writers DEF WikiInv
<1> USE DEF attemptVars, passVars, wikiHistory, wikiBounds, PassGoto
<1>1. /\ UNCHANGED <<attemptVars, committed, receipts, owed>>
      /\ attempts' = attempts
      /\ passes' = passes \/ (passes < MaxPasses /\ passes' = passes + 1)
      /\ faults' = faults \/ (faults < MaxFaults /\ faults' = faults + 1)
  BY DEF PassStep, PassLoads, DoctorPlans, RewordPlans, PassWrites, PassDeletes, PassLinks, PassEnds
<1>2. AttemptTypes' /\ BoundTypes'
  <2>1. BoundTypes'
    BY <1>0, <1>1, Bounded
  <2> QED
    BY <1>0, <1>1, <2>1 DEF AttemptTypes
<1>3. CASE PassLoads(p)
  <2>1. loaded' \in [Writer -> Guides] /\ latest' \in [Writer -> SUBSET Slug]
    BY <1>0, <1>3, LoadEffect DEF PassLoads
  <2> QED
    BY <1>0, <1>2, <1>3, <2>1 DEF PassLoads, TextTypes, PassTypes
<1>4. CASE DoctorPlans(p)
  <2>1. PICK x \in Plans, gone \in SUBSET Slug :
          plan' = [plan EXCEPT ![p] = x] /\ dropped' = [dropped EXCEPT ![p] = gone]
    BY <1>0, <1>4, DoctorEffect
  <2> QED
    BY <1>0, <1>2, <1>4, <2>1 DEF DoctorPlans, TextTypes, PassTypes
<1>5. CASE RewordPlans(p)
  <2>1. PICK x \in Plans : plan' = [plan EXCEPT ![p] = x]
    BY <1>0, <1>5, RewordEffect
  <2> QED
    BY <1>0, <1>2, <1>5, <2>1 DEF RewordPlans, TextTypes, PassTypes
<1>6. CASE PassWrites(p)
  <2>1. PICK s \in DOMAIN plan[p] :
          /\ s \in Slug /\ plan[p][s] \in GuideText
          /\ Put(p, s, plan[p][s])
          /\ written' = written \cup MarkersIn(plan[p][s].body)
          /\ plan' \in [Writer -> Plans]
    BY <1>0, <1>6, WriteEffect DEF PassWrites
  <2>2. guide' \in Guides /\ latest' \in [Writer -> SUBSET Slug] /\ overwritten' \in BOOLEAN
    BY <1>0, <2>1, PutEffect DEF TextTypes
  <2>3. MarkersIn(plan[p][s].body) \in SUBSET Marker
    BY <2>1, PlannedMarkers
  <2> QED
    BY <1>0, <1>1, <1>2, <1>6, <2>1, <2>2, <2>3 DEF PassWrites, TextTypes, PassTypes
<1>7. CASE PassDeletes(p)
  <2>1. PICK s \in dropped[p] :
       /\ guide' = [guide EXCEPT ![s] = NoFile]
       /\ overwritten' = (overwritten \/ (guide[s] /= NoFile /\ s \notin latest[p]))
       /\ latest' = [v \in Writer |-> latest[v] \ {s}]
       /\ dropped' = [dropped EXCEPT ![p] = @ \ {s}]
    BY <1>7 DEF PassDeletes
  <2>2. guide' \in Guides
    BY <1>0, <2>1 DEF TextTypes, Guides
  <2> QED
    BY <1>0, <1>1, <1>2, <1>7, <2>1, <2>2 DEF PassDeletes, TextTypes, PassTypes
<1>8. CASE PassLinks(p)
  <2>1. loaded' \in [Writer -> Guides] /\ latest' \in [Writer -> SUBSET Slug]
    BY <1>0, <1>8, LoadEffect DEF PassLinks
  <2>2. LinkedBack(guide) \in Plans
    BY <1>0, LinkedBackKeeps DEF TextTypes
  <2>3. plan' \in [Writer -> Plans]
    BY <1>0, <1>8, <2>2, PlanEffect DEF PassLinks
  <2> QED
    BY <1>0, <1>2, <1>8, <2>1, <2>3 DEF PassLinks, TextTypes, PassTypes
<1>9. CASE PassEnds(p)
  <2>1. loaded' \in [Writer -> Guides] /\ latest' \in [Writer -> SUBSET Slug]
    BY <1>0, <1>9, ForgetEffect DEF PassEnds
  <2>2. plan' \in [Writer -> Plans]
    BY <1>0, <1>9, NoPlan, PlanEffect DEF PassEnds
  <2> QED
    BY <1>0, <1>2, <1>9, <2>1, <2>2 DEF PassEnds, TextTypes, PassTypes
<1> QED
  BY <1>3, <1>4, <1>5, <1>6, <1>7, <1>8, <1>9 DEF PassStep

-----------------------------------------------------------------------------
(* What a step of one writer leaves to the others.                         *)

\* Of the others, what is read, planned and doomed stays; a guide stays their
\* latest only if it is not written.
Leaves(w) ==
  /\ \A v \in Writer \ {w} :
       /\ loaded'[v] = loaded[v] /\ plan'[v] = plan[v] /\ dropped'[v] = dropped[v]
       /\ \A s \in latest'[v] : s \in latest[v] /\ guide'[s] = guide[s]
  /\ written \subseteq written'

\* What is the writer's latest is on disk.
OwnLatest(w) == \A s \in latest'[w] : loaded'[w][s] = guide'[s]

\* It is, if it was and nothing is read.
LEMMA SameLatest ==
  ASSUME LatestInv, NEW w \in Writer, loaded'[w] = loaded[w],
         \A s \in latest'[w] : s \in latest[w] /\ guide'[s] = guide[s]
  PROVE  OwnLatest(w)
  BY DEF LatestInv, OwnLatest

\* The guide that is written is nobody's latest.
LEMMA PutLeaves ==
  ASSUME TextTypes, PassTypes, NEW w, NEW s \in Slug, NEW new \in GuideText \cup {NoFile},
         Put(w, s, new), NEW v \in Writer
  PROVE  \A t \in latest'[v] : t \in latest[v] /\ guide'[t] = guide[t]
<1>1. latest'[v] = latest[v] \ {s} /\ \A t \in Slug \ {s} : guide'[t] = guide[t]
  BY PutEffect
<1>2. latest[v] \in SUBSET Slug
  BY DEF PassTypes
<1> QED
  BY <1>1, <1>2

\* A step of the capture leaves the passes where they are.
LEMMA CaptureLeaves ==
  ASSUME WikiInv, CaptureWrites
  PROVE  Leaves(CaptureJob) /\ OwnLatest(CaptureJob) /\ passAt' = passAt /\ passes' = passes
<1>0. /\ AttemptTypes /\ TextTypes /\ PassTypes /\ AttemptInv /\ LatestInv
      /\ CaptureJob \in Writer
  BY Writers DEF WikiInv
<1> USE DEF attemptVars, passVars, wikiHistory, wikiBounds
<1>1. passAt' = passAt /\ passes' = passes
  BY DEF CaptureWrites, StartAttempt, Extract, RouteClaims, Reconcile, Reconciled, StageFails,
         ReadGuide, SaveGuide, SaveFails, Receipt, Maintain, LinkGuide, LinksEnd,
         FinishAttempt, KillCapture
<1>2. CASE UNCHANGED <<guide, passVars, written>>
  BY <1>0, <1>1, <1>2, SameLatest DEF Leaves
<1>3. CASE ReadGuide
  <2>1. Head(edits).slug \in Slug
    <3>1. edits \in Seq(Op) /\ edits /= <<>>
      BY <1>0, <1>3 DEF ReadGuide, AttemptTypes
    <3>2. Head(edits) \in Op
      BY <3>1
    <3> QED
      BY <3>2 DEF Op
  <2> DEFINE some == {Head(edits).slug}
  <2>2. some \in SUBSET Slug /\ Load(CaptureJob, some) /\ UNCHANGED <<guide, plan, dropped, written>>
    BY <1>3, <2>1 DEF ReadGuide
  <2> HIDE DEF some
  <2>3. /\ latest'[CaptureJob] = some /\ \A s \in some : loaded'[CaptureJob][s] = guide[s]
        /\ \A v \in Writer \ {CaptureJob} : loaded'[v] = loaded[v] /\ latest'[v] = latest[v]
    BY <1>0, <2>2, LoadEffect
  <2> QED
    BY <1>1, <2>2, <2>3 DEF Leaves, OwnLatest
<1>4. CASE SaveGuide
  <2> DEFINE o == Head(edits)
             new == Applied(o, loaded[CaptureJob][o.slug])
             s == o.slug
  <2>1. /\ s \in Slug /\ new \in GuideText \cup {NoFile}
        /\ Put(CaptureJob, s, new) /\ written' = written \cup MarkersIn(new.body)
        /\ Close(CaptureJob) /\ UNCHANGED <<plan, dropped>>
    BY <1>0, <1>4, SavedIs DEF SaveGuide
  <2>2. latest[CaptureJob] \subseteq {s}
    BY <1>0, <1>4 DEF SaveGuide, AttemptInv
  <2> HIDE DEF o, new, s
  <2>3. \A v \in Writer : \A t \in latest'[v] : t \in latest[v] /\ guide'[t] = guide[t]
    BY <1>0, <2>1, PutLeaves
  <2>4. latest'[CaptureJob] = latest[CaptureJob] \ {s}
    BY <1>0, <2>1, PutEffect
  <2>5. \A v \in Writer \ {CaptureJob} : loaded'[v] = loaded[v]
    BY <1>0, <2>1, CloseEffect
  <2> QED
    BY <1>1, <2>1, <2>2, <2>3, <2>4, <2>5 DEF Leaves, OwnLatest
<1>5. CASE SaveFails
  <2>1. Forget(CaptureJob) /\ UNCHANGED <<guide, plan, dropped, written>>
    BY <1>5 DEF SaveFails
  <2>2. /\ latest'[CaptureJob] = {}
        /\ \A v \in Writer \ {CaptureJob} : loaded'[v] = loaded[v] /\ latest'[v] = latest[v]
    BY <1>0, <2>1, ForgetEffect
  <2> QED
    BY <1>1, <2>1, <2>2 DEF Leaves, OwnLatest
<1>6. CASE Maintain
  <2>1. /\ Load(CaptureJob, Slug) /\ UNCHANGED <<guide, dropped, written>>
        /\ plan' = [plan EXCEPT ![CaptureJob] = LinkedBack(guide)]
    BY <1>6 DEF Maintain
  <2>2. /\ latest'[CaptureJob] = Slug /\ \A s \in Slug : loaded'[CaptureJob][s] = guide[s]
        /\ \A v \in Writer \ {CaptureJob} : loaded'[v] = loaded[v] /\ latest'[v] = latest[v]
    BY <1>0, <2>1, LoadEffect
  <2>3. \A v \in Writer \ {CaptureJob} : plan'[v] = plan[v]
    BY <1>0, <2>1 DEF PassTypes
  <2> QED
    BY <1>1, <2>1, <2>2, <2>3 DEF Leaves, OwnLatest
<1>7. CASE LinkGuide
  <2>1. PICK s \in DOMAIN plan[CaptureJob] :
          /\ s \in Slug /\ plan[CaptureJob][s] \in GuideText
          /\ Put(CaptureJob, s, plan[CaptureJob][s])
          /\ written' = written \cup MarkersIn(plan[CaptureJob][s].body)
          /\ \A v \in Writer \ {CaptureJob} : plan'[v] = plan[v]
    BY <1>0, <1>7, WriteEffect DEF LinkGuide
  <2>2. \A v \in Writer : \A t \in latest'[v] : t \in latest[v] /\ guide'[t] = guide[t]
    BY <1>0, <2>1, PutLeaves
  <2>3. UNCHANGED <<loaded, dropped>>
    BY <1>7 DEF LinkGuide
  <2> QED
    BY <1>0, <1>1, <2>1, <2>2, <2>3, SameLatest DEF Leaves
<1>8. CASE LinksEnd \/ KillCapture
  <2>1. /\ Forget(CaptureJob) /\ UNCHANGED <<guide, dropped, written>>
        /\ plan' = [plan EXCEPT ![CaptureJob] = <<>>]
    BY <1>8 DEF LinksEnd, KillCapture
  <2>2. /\ latest'[CaptureJob] = {}
        /\ \A v \in Writer \ {CaptureJob} : loaded'[v] = loaded[v] /\ latest'[v] = latest[v]
    BY <1>0, <2>1, ForgetEffect
  <2>3. \A v \in Writer \ {CaptureJob} : plan'[v] = plan[v]
    BY <1>0, <2>1 DEF PassTypes
  <2> QED
    BY <1>1, <2>1, <2>2, <2>3 DEF Leaves, OwnLatest
<1>9. CASE StartAttempt \/ Extract \/ RouteClaims \/ Reconcile \/ Reconciled \/ StageFails
           \/ Receipt \/ FinishAttempt
  BY <1>2, <1>9 DEF StartAttempt, Extract, RouteClaims, Reconcile, Reconciled, StageFails,
                    Receipt, FinishAttempt
<1> QED
  BY <1>3, <1>4, <1>5, <1>6, <1>7, <1>8, <1>9 DEF CaptureWrites

\* A step of a pass leaves the capture and the other passes where they are.
LEMMA PassLeaves ==
  ASSUME WikiInv, NEW p \in Pass, PassStep(p)
  PROVE  /\ Leaves(p) /\ OwnLatest(p)
         /\ \A q \in Pass \ {p} : passAt'[q] = passAt[q]
         /\ UNCHANGED <<attemptVars, committed, receipts, owed>>
<1>0. TextTypes /\ PassTypes /\ LatestInv /\ p \in Writer
  BY Writers DEF WikiInv
<1> USE DEF attemptVars, passVars, wikiHistory, wikiBounds, PassGoto
<1>1. /\ UNCHANGED <<attemptVars, committed, receipts, owed>>
      /\ \A q \in Pass \ {p} : passAt'[q] = passAt[q]
  BY <1>0 DEF PassStep, PassLoads, DoctorPlans, RewordPlans, PassWrites, PassDeletes, PassLinks,
              PassEnds, PassTypes
<1>2. CASE PassLoads(p) \/ PassLinks(p)
  <2>1. /\ Load(p, Slug) /\ UNCHANGED <<guide, dropped, written>>
        /\ plan' = plan \/ plan' = [plan EXCEPT ![p] = LinkedBack(guide)]
    BY <1>2 DEF PassLoads, PassLinks
  <2>2. /\ latest'[p] = Slug /\ \A s \in Slug : loaded'[p][s] = guide[s]
        /\ \A v \in Writer \ {p} : loaded'[v] = loaded[v] /\ latest'[v] = latest[v]
    BY <1>0, <2>1, LoadEffect
  <2>3. \A v \in Writer \ {p} : plan'[v] = plan[v]
    BY <1>0, <2>1 DEF PassTypes
  <2> QED
    BY <1>1, <2>1, <2>2, <2>3 DEF Leaves, OwnLatest
<1>3. CASE DoctorPlans(p) \/ RewordPlans(p)
  <2>1. /\ UNCHANGED <<guide, loaded, latest, written>>
        /\ \E x : plan' = [plan EXCEPT ![p] = x]
        /\ dropped' = dropped \/ \E x : dropped' = [dropped EXCEPT ![p] = x]
    BY <1>3 DEF DoctorPlans, RewordPlans
  <2>2. \A v \in Writer \ {p} : plan'[v] = plan[v] /\ dropped'[v] = dropped[v]
    BY <1>0, <2>1 DEF PassTypes
  <2> QED
    BY <1>0, <1>1, <2>1, <2>2, SameLatest DEF Leaves
<1>4. CASE PassWrites(p)
  <2>1. PICK s \in DOMAIN plan[p] :
          /\ s \in Slug /\ plan[p][s] \in GuideText
          /\ Put(p, s, plan[p][s])
          /\ written' = written \cup MarkersIn(plan[p][s].body)
          /\ \A v \in Writer \ {p} : plan'[v] = plan[v]
    BY <1>0, <1>4, WriteEffect DEF PassWrites
  <2>2. \A v \in Writer : \A t \in latest'[v] : t \in latest[v] /\ guide'[t] = guide[t]
    BY <1>0, <2>1, PutLeaves
  <2>3. UNCHANGED <<loaded, dropped>>
    BY <1>4 DEF PassWrites
  <2> QED
    BY <1>0, <1>1, <2>1, <2>2, <2>3, SameLatest DEF Leaves
<1>5. CASE PassDeletes(p)
  <2>1. PICK s \in dropped[p] :
       /\ guide' = [guide EXCEPT ![s] = NoFile]
       /\ latest' = [v \in Writer |-> latest[v] \ {s}]
       /\ dropped' = [dropped EXCEPT ![p] = @ \ {s}]
    BY <1>5 DEF PassDeletes
  <2>2. UNCHANGED <<loaded, plan, written>>
    BY <1>5 DEF PassDeletes
  <2>3. \A v \in Writer : \A t \in latest'[v] : t \in latest[v] /\ guide'[t] = guide[t]
    BY <1>0, <2>1 DEF TextTypes, PassTypes, Guides
  <2>4. \A v \in Writer \ {p} : dropped'[v] = dropped[v]
    BY <1>0, <2>1 DEF PassTypes
  <2> QED
    BY <1>0, <1>1, <2>2, <2>3, <2>4, SameLatest DEF Leaves
<1>6. CASE PassEnds(p)
  <2>1. /\ Forget(p) /\ UNCHANGED <<guide, written>>
        /\ plan' = [plan EXCEPT ![p] = <<>>] /\ dropped' = [dropped EXCEPT ![p] = {}]
    BY <1>6 DEF PassEnds
  <2>2. /\ latest'[p] = {}
        /\ \A v \in Writer \ {p} : loaded'[v] = loaded[v] /\ latest'[v] = latest[v]
    BY <1>0, <2>1, ForgetEffect
  <2>3. \A v \in Writer \ {p} : plan'[v] = plan[v] /\ dropped'[v] = dropped[v]
    BY <1>0, <2>1 DEF PassTypes
  <2> QED
    BY <1>1, <2>1, <2>2, <2>3 DEF Leaves, OwnLatest
<1> QED
  BY <1>2, <1>3, <1>4, <1>5, <1>6 DEF PassStep

\* A reading that is called the latest is what is on disk, after every step.
LEMMA LatestStep ==
  ASSUME WikiInv, NEW w \in Writer, Leaves(w), OwnLatest(w)
  PROVE  LatestInv'
<1>1. ASSUME NEW v \in Writer \ {w}, NEW s \in latest'[v] PROVE loaded'[v][s] = guide'[s]
  <2>1. loaded'[v] = loaded[v] /\ s \in latest[v] /\ guide'[s] = guide[s]
    BY <1>1 DEF Leaves
  <2> QED
    BY <1>1, <2>1 DEF WikiInv, LatestInv
<1> QED
  BY <1>1 DEF LatestInv, OwnLatest

-----------------------------------------------------------------------------
(* Where attempts and passes are, and what they plan.                      *)

\* A step of the capture takes it, and leaves the passes, where it may be.
LEMMA AttemptStep ==
  ASSUME WikiInv, CaptureWrites
  PROVE  AttemptInv' /\ PassInv'
<1>0. /\ AttemptTypes /\ TextTypes /\ PassTypes /\ AttemptInv
      /\ CaptureJob \in Writer
  BY Writers DEF WikiInv
<1> USE DEF attemptVars, passVars, wikiHistory, wikiBounds, NextOp
<1>1. PassInv'
  <2>1. \A p \in Pass : p \in Writer \ {CaptureJob}
    BY Writers
  <2> QED
    BY <2>1, CaptureLeaves DEF Leaves, WikiInv, PassInv
<1>2. ASSUME UNCHANGED passVars, UNCHANGED written, stage \notin {"save", "receipt"},
             stage /= "links", stage' /= "links",
             stage' = "reconcile" => admitted' \subseteq DOMAIN route',
             stage' \notin {"save", "receipt"}
      PROVE  AttemptInv'
  BY <1>0, <1>2 DEF AttemptInv
<1>3. ASSUME StartAttempt \/ Extract \/ RouteClaims \/ Reconciled \/ StageFails \/ FinishAttempt
      PROVE  AttemptInv'
  <2>1. /\ UNCHANGED passVars /\ UNCHANGED written /\ stage \notin {"save", "receipt"}
        /\ stage /= "links" /\ stage' /= "links" /\ stage' \notin {"save", "receipt"}
    BY <1>3 DEF StartAttempt, Extract, RouteClaims, Reconciled, StageFails, FinishAttempt
  <2>2. stage' = "reconcile" => admitted' \subseteq DOMAIN route'
    BY <1>0, <1>3 DEF StartAttempt, Extract, RouteClaims, Routed, Reconciled, StageFails,
                      FinishAttempt
  <2> QED
    BY <1>2, <2>1, <2>2
<1>4. ASSUME Reconcile PROVE AttemptInv'
  <2>1. /\ stage = "reconcile" /\ admitted' \subseteq admitted
        /\ UNCHANGED <<stage, route, passVars, written>>
    BY <1>0, <1>4, ReconcileEffect DEF Reconcile
  <2> QED
    BY <1>0, <1>2, <2>1 DEF AttemptInv
<1>5. ASSUME ReadGuide PROVE AttemptInv'
  <2>1. /\ stage = "reconcile" /\ stage' = "save" /\ edits /= <<>>
        /\ latest'[CaptureJob] = {Head(edits).slug}
        /\ UNCHANGED <<admitted, route, edits, plan>>
    BY <1>0, <1>5 DEF ReadGuide, Load, PassTypes
  <2> QED
    BY <1>0, <2>1 DEF AttemptInv
<1>6. ASSUME SaveGuide PROVE AttemptInv'
  <2> DEFINE o == Head(edits)
             new == Applied(o, loaded[CaptureJob][o.slug])
  <2>1. /\ stage = "save" /\ UNCHANGED <<admitted, route, plan>>
        /\ written' = written \cup MarkersIn(new.body)
        /\ \/ o.claim \in MarkersIn(new.body) /\ stage' = "receipt" /\ UNCHANGED edits
           \/ stage' = "reconcile"
    BY <1>6 DEF SaveGuide
  <2> QED
    BY <1>0, <2>1 DEF AttemptInv
<1>7. ASSUME SaveFails PROVE AttemptInv'
  <2>1. stage = "save" /\ stage' = "reconcile" /\ UNCHANGED <<admitted, route, plan>>
    BY <1>7 DEF SaveFails
  <2> QED
    BY <1>0, <2>1 DEF AttemptInv
<1>8. ASSUME Receipt PROVE AttemptInv'
  <2>1. stage = "receipt" /\ stage' = "reconcile" /\ UNCHANGED <<admitted, route, plan>>
    BY <1>8 DEF Receipt
  <2> QED
    BY <1>0, <2>1 DEF AttemptInv
<1>9. ASSUME Maintain \/ LinkGuide PROVE AttemptInv'
  <2>1. stage' = "links"
    BY <1>9 DEF Maintain, LinkGuide
  <2> QED
    BY <2>1 DEF AttemptInv
<1>10. ASSUME LinksEnd \/ KillCapture PROVE AttemptInv'
  <2>1. stage' \in {"finish", "off"} /\ plan'[CaptureJob] = <<>>
    BY <1>0, <1>10 DEF LinksEnd, KillCapture, PassTypes
  <2> QED
    BY <2>1 DEF AttemptInv
<1> QED
  BY <1>1, <1>3, <1>4, <1>5, <1>6, <1>7, <1>8, <1>9, <1>10 DEF CaptureWrites

\* A step of a pass takes it, and leaves the capture, where it may be.
LEMMA PassAtStep ==
  ASSUME WikiInv, NEW p \in Pass, PassStep(p)
  PROVE  AttemptInv' /\ PassInv'
<1>0. /\ TextTypes /\ PassTypes /\ BoundTypes /\ AttemptInv /\ PassInv
      /\ CaptureJob \in Writer \ {p} /\ \A q \in Pass \ {p} : q \in Writer \ {p}
      /\ p \in Writer
  BY Writers DEF WikiInv
<1> USE DEF attemptVars, passVars, wikiHistory, wikiBounds, PassGoto
<1>1. AttemptInv'
  <2>1. /\ UNCHANGED <<stage, admitted, route, edits>> /\ written \subseteq written'
        /\ plan'[CaptureJob] = plan[CaptureJob]
        /\ \A s \in latest'[CaptureJob] : s \in latest[CaptureJob]
    BY <1>0, PassLeaves DEF Leaves
  <2> QED
    BY <1>0, <2>1 DEF AttemptInv
<1>2. ASSUME NEW q \in Pass \ {p}
      PROVE  passAt'[q] = passAt[q] /\ plan'[q] = plan[q] /\ dropped'[q] = dropped[q]
  BY <1>0, <1>2, PassLeaves DEF Leaves
<1>3. /\ passAt'[p] \in {"off", "loaded"} => plan'[p] = <<>>
      /\ passAt'[p] /= "write" => dropped'[p] = {}
  <2>1. CASE PassLoads(p)
    BY <1>0, <2>1 DEF PassLoads, PassInv, PassTypes
  <2>2. CASE DoctorPlans(p) \/ RewordPlans(p)
    BY <1>0, <2>2 DEF DoctorPlans, RewordPlans, PassTypes
  <2>3. CASE PassWrites(p)
    BY <1>0, <2>3 DEF PassWrites, PassInv
  <2>4. CASE PassDeletes(p)
    BY <1>0, <2>4 DEF PassDeletes
  <2>5. CASE PassLinks(p)
    BY <1>0, <2>5 DEF PassLinks, PassTypes
  <2>6. CASE PassEnds(p)
    BY <1>0, <2>6 DEF PassEnds, PassTypes
  <2> QED
    BY <2>1, <2>2, <2>3, <2>4, <2>5, <2>6 DEF PassStep
<1>4. passes' /= 0
  <2>1. passAt[p] = "off" => PassLoads(p)
    BY <1>0 DEF PassStep, DoctorPlans, RewordPlans, PassWrites, PassDeletes, PassLinks, PassEnds
  <2>2. passes' = passes \/ passes' = passes + 1
    BY DEF PassStep, PassLoads, DoctorPlans, RewordPlans, PassWrites, PassDeletes, PassLinks,
           PassEnds
  <2>3. PassLoads(p) => passes' = passes + 1
    BY DEF PassLoads
  <2> QED
    BY <1>0, <2>1, <2>2, <2>3 DEF PassInv, BoundTypes
<1> QED
  BY <1>0, <1>1, <1>2, <1>3, <1>4 DEF PassInv

\* A plan made of the wiki as it was just read.
LEMMA LinksPlanned ==
  ASSUME TextTypes, PassTypes, NEW w \in Writer, Load(w, Slug),
         plan' = [plan EXCEPT ![w] = LinkedBack(guide)]
  PROVE  \A s \in DOMAIN plan'[w] :
           loaded'[w][s] \in GuideText /\ Keeps(plan'[w][s], loaded'[w][s])
<1>1. plan'[w] = LinkedBack(guide) /\ LinkedBack(guide) \in Plans
  BY LinkedBackKeeps DEF TextTypes, PassTypes
<1>2. \A s \in Slug : loaded'[w][s] = guide[s]
  BY LoadEffect
<1>3. DOMAIN LinkedBack(guide) \in SUBSET Slug
  BY <1>1, PlanIs
<1> QED
  BY <1>1, <1>2, <1>3, LinkedBackKeeps DEF TextTypes

\* Plans keep the markers of what was read, after every step.
LEMMA PlanStep ==
  ASSUME WikiInv, WikiNext
  PROVE  PlanInv'
<1>0. TextTypes /\ PassTypes /\ PlanInv /\ AttemptInv /\ PassInv
  BY DEF WikiInv
<1> DEFINE Good(w) == \A s \in DOMAIN plan'[w] :
                        loaded'[w][s] \in GuideText /\ Keeps(plan'[w][s], loaded'[w][s])
<1> USE DEF attemptVars, passVars, wikiHistory, wikiBounds, PassGoto
<1>1. ASSUME NEW w \in Writer, Leaves(w), Good(w) PROVE PlanInv'
  BY <1>0, <1>1 DEF Leaves, PlanInv
<1>2. ASSUME NEW w \in Writer, plan'[w] = <<>> PROVE Good(w)
  BY <1>2, NoPlan
<1>3. ASSUME NEW w \in Writer, WritePlanned(w), loaded' = loaded PROVE Good(w)
  <2>1. PICK s \in DOMAIN plan[w] :
          /\ DOMAIN plan'[w] = DOMAIN plan[w] \ {s}
          /\ \A t \in DOMAIN plan[w] \ {s} : plan'[w][t] = plan[w][t]
    BY <1>0, <1>3, WriteEffect
  <2> QED
    BY <1>0, <1>3, <2>1 DEF PlanInv
<1>4. CASE CaptureWrites
  <2>0. CaptureJob \in Writer
    BY Writers
  <2>1. ASSUME Maintain PROVE Good(CaptureJob)
    BY <1>0, <2>0, <2>1, LinksPlanned DEF Maintain
  <2>2. ASSUME LinkGuide PROVE Good(CaptureJob)
    BY <1>3, <2>0, <2>2 DEF LinkGuide
  <2>3. ASSUME LinksEnd \/ KillCapture PROVE Good(CaptureJob)
    <3>1. plan'[CaptureJob] = <<>>
      BY <1>0, <2>0, <2>3 DEF LinksEnd, KillCapture, PassTypes
    <3> QED
      BY <1>2, <2>0, <3>1
  <2>4. ASSUME StartAttempt \/ Extract \/ RouteClaims \/ Reconcile \/ Reconciled \/ StageFails
               \/ ReadGuide \/ SaveGuide \/ SaveFails \/ Receipt \/ FinishAttempt
        PROVE  Good(CaptureJob)
    <3>1. stage /= "links" /\ plan' = plan
      BY <2>4 DEF StartAttempt, Extract, RouteClaims, Reconcile, Reconciled, StageFails,
                  ReadGuide, SaveGuide, SaveFails, Receipt, FinishAttempt
    <3>2. plan'[CaptureJob] = <<>>
      BY <1>0, <3>1 DEF AttemptInv
    <3> QED
      BY <1>2, <2>0, <3>2
  <2> HIDE DEF Good
  <2>5. Good(CaptureJob)
    BY <1>4, <2>1, <2>2, <2>3, <2>4 DEF CaptureWrites
  <2> QED
    BY <1>1, <1>4, <2>0, <2>5, CaptureLeaves
<1>5. ASSUME NEW p \in Pass, PassStep(p) PROVE PlanInv'
  <2>0. p \in Writer
    BY Writers
  <2>1. ASSUME PassLoads(p) PROVE Good(p)
    <3>1. plan'[p] = <<>>
      BY <1>0, <2>1 DEF PassLoads, PassInv
    <3> QED
      BY <1>2, <2>0, <3>1
  <2>2. ASSUME DoctorPlans(p) \/ RewordPlans(p) PROVE Good(p)
    <3>1. \E x \in Plans :
            /\ plan' = [plan EXCEPT ![p] = x]
            /\ \A s \in DOMAIN x : loaded[p][s] \in GuideText /\ Keeps(x[s], loaded[p][s])
      BY <1>0, <2>2, DoctorEffect, RewordEffect
    <3>2. loaded' = loaded
      BY <2>2 DEF DoctorPlans, RewordPlans
    <3> QED
      BY <1>0, <2>0, <3>1, <3>2 DEF PassTypes
  <2>3. ASSUME PassWrites(p) PROVE Good(p)
    BY <1>3, <2>0, <2>3 DEF PassWrites
  <2>4. ASSUME PassDeletes(p) PROVE Good(p)
    <3>1. plan' = plan /\ loaded' = loaded
      BY <2>4 DEF PassDeletes
    <3> QED
      BY <1>0, <2>0, <3>1 DEF PlanInv
  <2>5. ASSUME PassLinks(p) PROVE Good(p)
    BY <1>0, <2>0, <2>5, LinksPlanned DEF PassLinks
  <2>6. ASSUME PassEnds(p) PROVE Good(p)
    <3>1. plan'[p] = <<>>
      BY <1>0, <2>0, <2>6 DEF PassEnds, PassTypes
    <3> QED
      BY <1>2, <2>0, <3>1
  <2> HIDE DEF Good
  <2>7. Good(p)
    BY <1>5, <2>1, <2>2, <2>3, <2>4, <2>5, <2>6 DEF PassStep
  <2> QED
    BY <1>1, <1>5, <2>0, <2>7, PassLeaves
<1> QED
  BY <1>4, <1>5 DEF WikiNext

-----------------------------------------------------------------------------
(* No marker is lost.                                                      *)

\* A marker stays where it is while guides stay and no more are doomed.
LEMMA StillConserved ==
  ASSUME ConservedInv, guide' = guide, written' = written, overwritten' = overwritten,
         receipts' \subseteq written', \A p \in Pass : \A d : Doomed(p, d)' => Doomed(p, d)
  PROVE  ConservedInv'
<1> SUFFICES ASSUME ~overwritten', NEW m \in written'
             PROVE  \E d \in Present(guide') :
                      m \in MarkersIn(guide'[d].body) /\ \A p \in Pass : ~Doomed(p, d)'
  BY DEF ConservedInv
<1>1. PICK d \in Present(guide) : m \in MarkersIn(guide[d].body) /\ \A p \in Pass : ~Doomed(p, d)
  BY DEF ConservedInv
<1> QED
  BY <1>1

\* A guide that was not written since it was read is replaced by one that keeps
\* its markers; if a pass writes it, the guides it is to take over are kept too.
LEMMA PutConserves ==
  ASSUME WikiInv, NEW w \in Writer, NEW s \in Slug, NEW new \in GuideText,
         Put(w, s, new), written' = written \cup MarkersIn(new.body),
         receipts' \subseteq written', dropped' = dropped,
         loaded[w][s] \in GuideText => Keeps(new, loaded[w][s]),
         \A p \in Pass : loaded'[p] = loaded[p],
         \A p \in Pass : \/ plan'[p] = plan[p]
                         \/ /\ new = plan[p][s]
                            /\ DOMAIN plan'[p] = DOMAIN plan[p] \ {s}
                            /\ \A t \in DOMAIN plan[p] \ {s} : plan'[p][t] = plan[p][t]
  PROVE  ConservedInv'
<1>0. TextTypes /\ PassTypes /\ LatestInv /\ ConservedInv
  BY DEF WikiInv
<1>1. /\ guide'[s] = new /\ \A t \in Slug \ {s} : guide'[t] = guide[t]
      /\ \A v \in Writer : latest'[v] = latest[v] \ {s}
      /\ overwritten' = (overwritten \/ s \notin latest[w])
  BY <1>0, PutEffect
<1>2. new /= NoFile /\ s \in Present(guide')
  BY <1>1, WikiAssumption DEF Present
<1> SUFFICES ASSUME ~overwritten', NEW m \in written'
             PROVE  \E d \in Present(guide') :
                      m \in MarkersIn(guide'[d].body) /\ \A p \in Pass : ~Doomed(p, d)'
  BY DEF ConservedInv
<1>3. ~overwritten /\ s \in latest[w] /\ loaded[w][s] = guide[s]
  BY <1>0, <1>1 DEF LatestInv, TextTypes
<1>4. \A p \in Pass : ~Doomed(p, s)'
  BY <1>1, Writers DEF Doomed
<1>5. CASE m \in MarkersIn(new.body)
  BY <1>1, <1>2, <1>4, <1>5
<1>6. CASE m \notin MarkersIn(new.body)
  <2>1. PICK d \in Present(guide) : m \in MarkersIn(guide[d].body) /\ \A p \in Pass : ~Doomed(p, d)
    BY <1>0, <1>3, <1>6 DEF ConservedInv
  <2>2. d /= s
    <3>1. ASSUME d = s PROVE FALSE
      <4>1. guide[s] \in GuideText
        BY <1>0, <2>1, <3>1 DEF TextTypes, Guides, Present
      <4> QED
        BY <1>3, <1>6, <2>1, <3>1, <4>1 DEF Keeps
    <3> QED
      BY <3>1
  <2>3. d \in Present(guide') /\ guide'[d] = guide[d]
    BY <1>1, <2>1, <2>2 DEF Present
  <2>4. ASSUME NEW p \in Pass, Doomed(p, d)' PROVE FALSE
    <3>1. p \in Writer /\ d \in dropped[p] /\ d \in latest[p] /\ ~Carried(p, d)'
      BY <1>1, <2>4, Writers DEF Doomed
    <3>2. PICK c \in DOMAIN plan[p] : Keeps(plan[p][c], loaded[p][d])
      BY <2>1, <3>1 DEF Doomed, Carried
    <3>3. loaded'[p] = loaded[p]
      OBVIOUS
    <3>4. plan'[p] /= plan[p]
      BY <3>1, <3>2, <3>3 DEF Carried
    <3>5. /\ new = plan[p][s]
          /\ DOMAIN plan'[p] = DOMAIN plan[p] \ {s}
          /\ \A t \in DOMAIN plan[p] \ {s} : plan'[p][t] = plan[p][t]
      BY <3>4
    <3>6. c = s
      BY <3>1, <3>2, <3>3, <3>5 DEF Carried
    <3>7. loaded[p][d] = guide[d]
      BY <1>0, <3>1 DEF LatestInv
    <3> QED
      BY <1>6, <2>1, <3>2, <3>5, <3>6, <3>7 DEF Keeps
  <2> QED
    BY <2>1, <2>3, <2>4
<1> QED
  BY <1>5, <1>6

\* A guide that is deleted was doomed, or had been written since it was read.
LEMMA DeleteConserves ==
  ASSUME WikiInv, NEW p \in Pass, PassDeletes(p)
  PROVE  ConservedInv'
<1>0. TextTypes /\ PassTypes /\ ConservedInv /\ p \in Writer
  BY Writers DEF WikiInv
<1>1. PICK s \in dropped[p] :
       /\ guide' = [guide EXCEPT ![s] = NoFile]
       /\ overwritten' = (overwritten \/ (guide[s] /= NoFile /\ s \notin latest[p]))
       /\ latest' = [v \in Writer |-> latest[v] \ {s}]
       /\ dropped' = [dropped EXCEPT ![p] = @ \ {s}]
  BY DEF PassDeletes
<1>2. plan[p] = <<>> /\ UNCHANGED <<receipts, loaded, plan, written>>
  BY DEF PassDeletes
<1>3. receipts' \subseteq written'
  BY <1>0, <1>2 DEF ConservedInv
<1> SUFFICES ASSUME ~overwritten', NEW m \in written'
             PROVE  \E d \in Present(guide') :
                      m \in MarkersIn(guide'[d].body) /\ \A q \in Pass : ~Doomed(q, d)'
  BY <1>3 DEF ConservedInv
<1>4. PICK d \in Present(guide) : m \in MarkersIn(guide[d].body) /\ \A q \in Pass : ~Doomed(q, d)
  BY <1>0, <1>1, <1>2 DEF ConservedInv
<1>5. d /= s
  <2>1. ASSUME d = s PROVE FALSE
    <3>1. s \in latest[p]
      BY <1>1, <1>4, <2>1 DEF Present
    <3>2. ~Carried(p, s)
      BY <1>2, NoPlan DEF Carried
    <3> QED
      BY <1>1, <1>4, <2>1, <3>1, <3>2 DEF Doomed
  <2> QED
    BY <2>1
<1>6. d \in Present(guide') /\ guide'[d] = guide[d]
  BY <1>0, <1>1, <1>4, <1>5 DEF Present, TextTypes, Guides
<1>7. ASSUME NEW q \in Pass, Doomed(q, d)' PROVE Doomed(q, d)
  <2>1. q \in Writer /\ d \in dropped'[q] /\ d \in latest'[q] /\ ~Carried(q, d)'
    BY <1>7, Writers DEF Doomed
  <2>2. d \in dropped[q] /\ d \in latest[q]
    BY <1>0, <1>1, <2>1 DEF PassTypes
  <2>3. ~Carried(q, d)
    BY <1>2, <2>1 DEF Carried
  <2> QED
    BY <2>2, <2>3 DEF Doomed
<1> QED
  BY <1>4, <1>6, <1>7

\* The others' guides are doomed no more often after a step of w that leaves
\* the guides alone.
LEMMA OthersDoomed ==
  ASSUME NEW w \in Writer, Leaves(w), NEW q \in Pass \ {w}, NEW d
  PROVE  Doomed(q, d)' => Doomed(q, d)
<1>1. q \in Writer \ {w}
  BY Writers
<1>2. /\ loaded'[q] = loaded[q] /\ plan'[q] = plan[q] /\ dropped'[q] = dropped[q]
      /\ \A s \in latest'[q] : s \in latest[q]
  BY <1>1 DEF Leaves
<1> QED
  BY <1>2 DEF Doomed, Carried

\* A step of the capture loses no marker of a guide it has read.
LEMMA CaptureConserves ==
  ASSUME WikiInv, CaptureWrites
  PROVE  ConservedInv'
<1>0. /\ AttemptTypes /\ TextTypes /\ PassTypes /\ AttemptInv /\ PlanInv /\ ConservedInv
      /\ CaptureJob \in Writer /\ \A p \in Pass : p \in Writer \ {CaptureJob}
  BY Writers DEF WikiInv
<1> USE DEF attemptVars, passVars, wikiHistory, wikiBounds
<1>1. Leaves(CaptureJob)
  BY CaptureLeaves
<1>2. \A p \in Pass : loaded'[p] = loaded[p] /\ plan'[p] = plan[p]
  BY <1>0, <1>1 DEF Leaves
<1>3. \A p \in Pass : \A d : Doomed(p, d)' => Doomed(p, d)
  BY <1>0, <1>1, OthersDoomed
<1>4. CASE SaveGuide
  <2> DEFINE o == Head(edits)
             old == loaded[CaptureJob][o.slug]
             new == Applied(o, old)
             s == o.slug
  <2>1. /\ s \in Slug /\ new \in GuideText /\ (old \in GuideText => Keeps(new, old))
        /\ Put(CaptureJob, s, new) /\ written' = written \cup MarkersIn(new.body)
    BY <1>0, <1>4, SavedIs DEF SaveGuide
  <2>2. receipts' = receipts /\ dropped' = dropped
    BY <1>4 DEF SaveGuide
  <2>3. receipts' \subseteq written'
    BY <1>0, <2>1, <2>2 DEF ConservedInv
  <2>4. old = loaded[CaptureJob][s]
    OBVIOUS
  <2> HIDE DEF o, old, new, s
  <2> QED
    BY <1>0, <1>2, <2>1, <2>2, <2>3, <2>4, PutConserves
<1>5. CASE LinkGuide
  <2>1. PICK s \in DOMAIN plan[CaptureJob] :
          /\ s \in Slug /\ plan[CaptureJob][s] \in GuideText
          /\ Put(CaptureJob, s, plan[CaptureJob][s])
          /\ written' = written \cup MarkersIn(plan[CaptureJob][s].body)
    BY <1>0, <1>5, WriteEffect DEF LinkGuide
  <2>2. Keeps(plan[CaptureJob][s], loaded[CaptureJob][s])
    BY <1>0, <2>1 DEF PlanInv
  <2>3. receipts' = receipts /\ dropped' = dropped
    BY <1>5 DEF LinkGuide
  <2>4. receipts' \subseteq written'
    BY <1>0, <2>1, <2>3 DEF ConservedInv
  <2> QED
    BY <1>0, <1>2, <2>1, <2>2, <2>3, <2>4, PutConserves
<1>6. CASE Receipt
  <2>1. /\ receipts' = receipts \/ receipts' = receipts \cup {Head(edits).claim}
        /\ Head(edits).claim \in written /\ UNCHANGED <<guide, written, overwritten>>
    BY <1>0, <1>6 DEF Receipt, AttemptInv
  <2>2. receipts' \subseteq written'
    BY <1>0, <2>1 DEF ConservedInv
  <2> QED
    BY <1>0, <1>3, <2>1, <2>2, StillConserved
<1>7. CASE StartAttempt \/ Extract \/ RouteClaims \/ Reconcile \/ Reconciled \/ StageFails
           \/ ReadGuide \/ SaveFails \/ Maintain \/ LinksEnd \/ FinishAttempt \/ KillCapture
  <2>1. UNCHANGED <<guide, written, overwritten, receipts>>
    BY <1>7 DEF StartAttempt, Extract, RouteClaims, Reconcile, Reconciled, StageFails,
                ReadGuide, SaveFails, Maintain, LinksEnd, FinishAttempt, KillCapture
  <2>2. receipts' \subseteq written'
    BY <1>0, <2>1 DEF ConservedInv
  <2> QED
    BY <1>0, <1>3, <2>1, <2>2, StillConserved
<1> QED
  BY <1>4, <1>5, <1>6, <1>7 DEF CaptureWrites

\* A step of a pass loses no marker of a guide it has read.
LEMMA PassConserves ==
  ASSUME WikiInv, NEW p \in Pass, PassStep(p)
  PROVE  ConservedInv'
<1>0. /\ TextTypes /\ PassTypes /\ PassInv /\ PlanInv /\ ConservedInv
      /\ p \in Writer /\ \A q \in Pass : q \in Writer
  BY Writers DEF WikiInv
<1> USE DEF attemptVars, passVars, wikiHistory, wikiBounds, PassGoto
<1>1. Leaves(p) /\ receipts' = receipts
  BY PassLeaves
<1>2. receipts' \subseteq written'
  BY <1>0, <1>1 DEF Leaves, ConservedInv
<1>3. ASSUME UNCHANGED <<guide, written, overwritten>>, \A d : ~Doomed(p, d)'
      PROVE  ConservedInv'
  <2>1. \A q \in Pass : \A d : Doomed(q, d)' => Doomed(q, d)
    BY <1>0, <1>1, <1>3, OthersDoomed
  <2> QED
    BY <1>0, <1>2, <1>3, <2>1, StillConserved
<1>4. CASE DoctorPlans(p)
  <2>1. PICK x \in Plans, gone \in SUBSET Slug :
           /\ plan' = [plan EXCEPT ![p] = x] /\ dropped' = [dropped EXCEPT ![p] = gone]
           /\ \A d \in gone : \E c \in DOMAIN x : Keeps(x[c], loaded[p][d])
    BY <1>0, <1>4, DoctorEffect
  <2>2. plan'[p] = x /\ dropped'[p] = gone /\ UNCHANGED <<guide, written, overwritten, loaded>>
    BY <1>0, <1>4, <2>1 DEF PassTypes, DoctorPlans
  <2>3. \A d : ~Doomed(p, d)'
    BY <2>1, <2>2 DEF Doomed, Carried
  <2> QED
    BY <1>3, <2>2, <2>3
<1>5. CASE PassLoads(p) \/ RewordPlans(p) \/ PassLinks(p) \/ PassEnds(p)
  <2>1. dropped'[p] = {} /\ UNCHANGED <<guide, written, overwritten>>
    BY <1>0, <1>5 DEF PassLoads, RewordPlans, PassLinks, PassEnds, PassInv, PassTypes
  <2>2. \A d : ~Doomed(p, d)'
    BY <2>1 DEF Doomed
  <2> QED
    BY <1>3, <2>1, <2>2
<1>6. CASE PassWrites(p)
  <2>1. PICK s \in DOMAIN plan[p] :
          /\ s \in Slug /\ plan[p][s] \in GuideText
          /\ Put(p, s, plan[p][s])
          /\ written' = written \cup MarkersIn(plan[p][s].body)
          /\ DOMAIN plan'[p] = DOMAIN plan[p] \ {s}
          /\ \A t \in DOMAIN plan[p] \ {s} : plan'[p][t] = plan[p][t]
          /\ \A v \in Writer \ {p} : plan'[v] = plan[v]
    BY <1>0, <1>6, WriteEffect DEF PassWrites
  <2>2. Keeps(plan[p][s], loaded[p][s])
    BY <1>0, <2>1 DEF PlanInv
  <2>3. loaded' = loaded /\ dropped' = dropped
    BY <1>6 DEF PassWrites
  <2> DEFINE new == plan[p][s]
  <2>4. \A q \in Pass : \/ plan'[q] = plan[q]
                        \/ /\ new = plan[q][s]
                           /\ DOMAIN plan'[q] = DOMAIN plan[q] \ {s}
                           /\ \A t \in DOMAIN plan[q] \ {s} : plan'[q][t] = plan[q][t]
    BY <1>0, <2>1
  <2>5. /\ new \in GuideText /\ Put(p, s, new) /\ written' = written \cup MarkersIn(new.body)
        /\ Keeps(new, loaded[p][s])
    BY <2>1, <2>2
  <2> HIDE DEF new
  <2> QED
    BY <1>0, <1>2, <2>1, <2>3, <2>4, <2>5, PutConserves
<1>7. CASE PassDeletes(p)
  BY <1>7, DeleteConserves
<1> QED
  BY <1>4, <1>5, <1>6, <1>7 DEF PassStep

-----------------------------------------------------------------------------
(* The capture owes nothing that is not on its way.                        *)

\* What is done with the operation at the head is not among those left.
LEMMA HeadTail ==
  ASSUME AttemptTypes, edits /= <<>>, edits' = Tail(edits)
  PROVE  InEdits \subseteq {Head(edits).claim} \cup InEdits'
<1>1. edits \in Seq(Op)
  BY DEF AttemptTypes
<1>2. ASSUME NEW i \in DOMAIN edits
      PROVE  edits[i].claim \in {Head(edits).claim} \cup InEdits'
  <2>1. i \in 1..Len(edits)
    BY <1>1, <1>2
  <2>2. CASE i = 1
    <3>1. Head(edits) = edits[1]
      BY <1>1
    <3> QED
      BY <2>2, <3>1
  <2>3. CASE i /= 1
    <3>1. i - 1 \in DOMAIN Tail(edits) /\ Tail(edits)[i - 1] = edits[i]
      BY <1>1, <2>1, <2>3
    <3> QED
      BY <3>1 DEF InEdits
  <2> QED
    BY <2>2, <2>3
<1> QED
  BY <1>2 DEF InEdits

\* What the capture owes stays on its way.
LEMMA OwedStep ==
  ASSUME WikiInv, WikiNext
  PROVE  OwedInv'
<1>0. AttemptTypes /\ TextTypes /\ PassTypes /\ AttemptInv /\ OwedInv
  BY DEF WikiInv
<1> USE DEF attemptVars, passVars, wikiHistory, wikiBounds, NextOp
<1>1. ASSUME NEW p \in Pass, PassStep(p) PROVE OwedInv'
  <2>1. UNCHANGED <<stage, admitted, edits, failed, committed, owed>> /\ written \subseteq written'
    BY <1>1, PassLeaves DEF Leaves
  <2>2. InEdits' = InEdits
    BY <2>1 DEF InEdits
  <2> QED
    BY <1>0, <2>1, <2>2 DEF OwedInv
<1>2. CASE StartAttempt
  BY <1>2 DEF StartAttempt, OwedInv
<1>3. ASSUME stage /= "off" PROVE ~committed
  BY <1>0, <1>3 DEF OwedInv
<1>4. CASE Extract
  <2>1. /\ stage = "extract" /\ failed' = failed /\ committed' = committed
        /\ owed' = admitted'
        /\ (stage' = "maintain" /\ owed' = {}) \/ stage' = "route"
    BY <1>4 DEF Extract
  <2> QED
    BY <1>0, <1>3, <2>1 DEF OwedInv
<1>5. CASE RouteClaims
  <2>1. /\ stage = "route" /\ stage' = "reconcile"
        /\ UNCHANGED <<admitted, failed, committed, owed>>
    BY <1>5 DEF RouteClaims
  <2> QED
    BY <1>0, <1>3, <2>1 DEF OwedInv
<1>6. CASE Reconcile
  <2>1. /\ stage = "reconcile" /\ edits = <<>> /\ owed' \subseteq owed
        /\ owed' \cap admitted \subseteq admitted' \cup InEdits'
        /\ UNCHANGED <<stage, failed, committed, written>>
    BY <1>0, <1>6, ReconcileEffect DEF Reconcile
  <2>2. InEdits = {}
    BY <2>1, NoPlan DEF InEdits
  <2>3. owed' \subseteq admitted' \cup InEdits' \cup written'
    BY <1>0, <2>1, <2>2 DEF OwedInv
  <2> QED
    BY <1>0, <1>3, <2>1, <2>3 DEF OwedInv
<1>7. CASE Reconciled
  <2>1. /\ stage = "reconcile" /\ stage' = "maintain" /\ edits = <<>> /\ admitted = {}
        /\ UNCHANGED <<failed, committed, owed, written>>
    BY <1>7 DEF Reconciled
  <2>2. InEdits = {}
    BY <2>1, NoPlan DEF InEdits
  <2> QED
    BY <1>0, <1>3, <2>1, <2>2 DEF OwedInv
<1>8. CASE StageFails
  <2>1. stage /= "off" /\ stage' = "maintain" /\ failed' = TRUE /\ committed' = committed
    BY <1>8 DEF StageFails
  <2> QED
    BY <1>3, <2>1 DEF OwedInv
<1>9. CASE ReadGuide
  <2>1. /\ stage = "reconcile" /\ stage' = "save"
        /\ UNCHANGED <<admitted, edits, failed, committed, owed, written>>
    BY <1>9 DEF ReadGuide
  <2>2. InEdits' = InEdits
    BY <2>1 DEF InEdits
  <2> QED
    BY <1>0, <1>3, <2>1, <2>2 DEF OwedInv
<1>10. CASE SaveGuide
  <2> DEFINE o == Head(edits)
             new == Applied(o, loaded[CaptureJob][o.slug])
  <2>1. /\ stage = "save" /\ UNCHANGED <<admitted, failed, committed>>
        /\ written \subseteq written'
    BY <1>10 DEF SaveGuide
  <2>2. ASSUME stage' = "receipt", UNCHANGED <<edits, owed>> PROVE OwedInv'
    <3>1. InEdits' = InEdits
      BY <2>2 DEF InEdits
    <3> QED
      BY <1>0, <1>3, <2>1, <2>2, <3>1 DEF OwedInv
  <2>3. ASSUME NextOp, owed' = owed \ {o.claim} PROVE OwedInv'
    <3>1. InEdits \subseteq {o.claim} \cup InEdits'
      BY <1>0, <2>1, <2>3, HeadTail DEF AttemptInv
    <3> QED
      BY <1>0, <1>3, <2>1, <2>3, <3>1 DEF OwedInv
  <2>4. \/ stage' = "receipt" /\ UNCHANGED <<edits, owed>>
        \/ NextOp /\ owed' = owed \ {o.claim}
    BY <1>10 DEF SaveGuide
  <2> QED
    BY <2>2, <2>3, <2>4
<1>11. CASE SaveFails
  <2>1. /\ stage = "save" /\ stage' = "reconcile" /\ edits' = Tail(edits)
        /\ owed' = owed \ {Head(edits).claim}
        /\ UNCHANGED <<admitted, failed, committed, written>>
    BY <1>11 DEF SaveFails
  <2>2. InEdits \subseteq {Head(edits).claim} \cup InEdits'
    BY <1>0, <2>1, HeadTail DEF AttemptInv
  <2> QED
    BY <1>0, <1>3, <2>1, <2>2 DEF OwedInv
<1>12. CASE Receipt
  <2>1. /\ stage = "receipt" /\ stage' = "reconcile" /\ edits' = Tail(edits)
        /\ Head(edits).claim \in written
        /\ UNCHANGED <<admitted, failed, committed, owed, written>>
    BY <1>0, <1>12 DEF Receipt, AttemptInv
  <2>2. InEdits \subseteq {Head(edits).claim} \cup InEdits'
    BY <1>0, <2>1, HeadTail DEF AttemptInv
  <2> QED
    BY <1>0, <1>3, <2>1, <2>2 DEF OwedInv
<1>13. CASE Maintain \/ LinkGuide \/ LinksEnd
  <2>1. /\ stage \in {"maintain", "links"} /\ stage' \in {"links", "finish"}
        /\ UNCHANGED <<failed, committed, owed>>
    BY <1>13 DEF Maintain, LinkGuide, LinksEnd
  <2>2. written \subseteq written'
    BY <1>13, CaptureLeaves DEF Leaves, CaptureWrites
  <2> QED
    BY <1>0, <1>3, <2>1, <2>2 DEF OwedInv
<1>14. CASE FinishAttempt
  <2>1. /\ stage = "finish" /\ stage' = "off" /\ UNCHANGED <<owed, written>>
        /\ (~failed /\ committed' = TRUE) \/ committed' = committed
    BY <1>14 DEF FinishAttempt
  <2> QED
    BY <1>0, <1>3, <2>1 DEF OwedInv
<1>15. CASE KillCapture
  <2>1. stage /= "off" /\ stage' = "off" /\ committed' = committed
    BY <1>15 DEF KillCapture
  <2> QED
    BY <1>3, <2>1 DEF OwedInv
<1> QED
  BY <1>1, <1>2, <1>4, <1>5, <1>6, <1>7, <1>8, <1>9, <1>10, <1>11, <1>12, <1>13, <1>14, <1>15
  DEF WikiNext, CaptureWrites

-----------------------------------------------------------------------------
(* The links are mended.                                                   *)

\* Undisturbed, every step leaves the links as far mended as they were.
LEMMA LinksStep ==
  ASSUME WikiInv, WikiNext
  PROVE  LinksInv'
<1>0. /\ AttemptTypes /\ TextTypes /\ PassTypes /\ BoundTypes /\ PassInv /\ AttemptInv
      /\ LinksInv /\ CaptureJob \in Writer
  BY Writers DEF WikiInv
<1> USE DEF attemptVars, passVars, wikiHistory, wikiBounds, NextOp, PassGoto
<1>1. ASSUME NEW p \in Pass, PassStep(p) PROVE LinksInv'
  <2>1. passAt[p] /= "off" \/ passes' = passes + 1
    BY <1>1 DEF PassStep, PassLoads, DoctorPlans, RewordPlans, PassWrites, PassDeletes, PassLinks,
                PassEnds
  <2>2. passes' = passes \/ passes' = passes + 1
    BY <1>1 DEF PassStep, PassLoads, DoctorPlans, RewordPlans, PassWrites, PassDeletes, PassLinks,
                PassEnds
  <2>3. passes' /= 0
    BY <1>0, <1>1, <2>1, <2>2 DEF PassInv, BoundTypes
  <2> QED
    BY <2>3 DEF LinksInv
<1> DEFINE c == CaptureJob
           Undisturbed == passes' = 0 /\ faults' = 0
<1>2. ASSUME CaptureWrites, Undisturbed PROVE passes = 0 /\ faults = 0
  <2>1. passes' = passes
    BY <1>2, CaptureLeaves
  <2>2. faults' = faults \/ faults' = faults + 1
    BY <1>2 DEF CaptureWrites, StartAttempt, Extract, RouteClaims, Reconcile, Reconciled,
       StageFails, ReadGuide, SaveGuide, SaveFails, Receipt, Maintain, LinkGuide, LinksEnd,
       FinishAttempt, KillCapture
  <2> QED
    BY <1>0, <1>2, <2>1, <2>2 DEF BoundTypes
<1>3. CASE StartAttempt \/ Extract \/ RouteClaims \/ Reconcile \/ Reconciled \/ StageFails
           \/ ReadGuide \/ SaveGuide \/ SaveFails \/ Receipt \/ FinishAttempt \/ KillCapture
  <2>1. stage' \notin {"links", "finish"}
    BY <1>3 DEF StartAttempt, Extract, RouteClaims, Reconcile, Reconciled, StageFails,
                ReadGuide, SaveGuide, SaveFails, Receipt, FinishAttempt, KillCapture
  <2> QED
    BY <2>1 DEF LinksInv
<1>4. CASE Maintain
  <2>1. /\ stage' = "links" /\ guide' = guide /\ Load(c, Slug)
        /\ plan' = [plan EXCEPT ![c] = LinkedBack(guide)]
    BY <1>4 DEF Maintain
  <2>2. plan'[c] = LinkedBack(guide)
    BY <1>0, <2>1 DEF PassTypes
  <2>3. loaded'[c] = guide
    BY <1>0, <2>1 DEF Load, PassTypes, TextTypes, Guides
  <2>4. \A s \in Slug : Mended(guide)[s] =
          IF s \in DOMAIN LinkedBack(guide) THEN LinkedBack(guide)[s] ELSE guide[s]
    BY DEF Mended
  <2> QED
    BY <2>1, <2>2, <2>3, <2>4 DEF LinksInv
<1>5. CASE LinkGuide
  <2> SUFFICES ASSUME Undisturbed PROVE LinksInv'
    BY DEF LinksInv
  <2>1. stage = "links" /\ stage' = "links" /\ loaded' = loaded /\ WritePlanned(c)
    BY <1>5 DEF LinkGuide
  <2>2. PICK s \in DOMAIN plan[c] :
          /\ s \in Slug /\ plan[c][s] \in GuideText
          /\ Put(c, s, plan[c][s])
          /\ DOMAIN plan'[c] = DOMAIN plan[c] \ {s}
          /\ \A t \in DOMAIN plan[c] \ {s} : plan'[c][t] = plan[c][t]
    BY <1>0, <2>1, WriteEffect
  <2>3. guide'[s] = plan[c][s] /\ \A t \in Slug \ {s} : guide'[t] = guide[t]
    BY <1>0, <2>2, PutEffect
  <2>4. \A t \in Slug : IF t \in DOMAIN plan[c] THEN plan[c][t] = Mended(loaded[c])[t]
                        ELSE guide[t] = Mended(loaded[c])[t]
    BY <1>0, <1>2, <1>5, <2>1 DEF LinksInv, CaptureWrites
  <2>5. ASSUME NEW t \in Slug
        PROVE  IF t \in DOMAIN plan'[c] THEN plan'[c][t] = Mended(loaded[c])[t]
               ELSE guide'[t] = Mended(loaded[c])[t]
    BY <2>2, <2>3, <2>4
  <2> QED
    BY <2>1, <2>5 DEF LinksInv
<1>6. CASE LinksEnd
  <2> SUFFICES ASSUME Undisturbed PROVE LinksInv'
    BY DEF LinksInv
  <2>1. passes = 0 /\ faults = 0
    BY <1>2, <1>6 DEF CaptureWrites
  <2>2. stage = "links" /\ stage' = "finish" /\ guide' = guide /\ plan[c] = <<>>
    BY <1>6, <2>1 DEF LinksEnd
  <2>3. \A t \in Slug : guide[t] = Mended(loaded[c])[t]
    BY <1>0, <2>1, <2>2, NoPlan DEF LinksInv
  <2>4. loaded[c] \in Guides
    BY <1>0 DEF PassTypes
  <2>5. Mended(loaded[c]) \in Guides /\ Mutual(Mended(loaded[c]))
    BY <2>4, MendedIsMutual
  <2>6. guide = Mended(loaded[c])
    BY <1>0, <2>3, <2>5 DEF TextTypes, Guides
  <2> QED
    BY <2>2, <2>5, <2>6 DEF LinksInv
<1> QED
  BY <1>1, <1>3, <1>4, <1>5, <1>6 DEF WikiNext, CaptureWrites

-----------------------------------------------------------------------------
(* The theorems.                                                           *)

\* Every step of the wiki keeps the invariant.
LEMMA NextWiki == WikiInv /\ [WikiNext]_wikiVars => WikiInv'
<1> SUFFICES ASSUME WikiInv, [WikiNext]_wikiVars PROVE WikiInv'
  OBVIOUS
<1>1. ASSUME WikiNext PROVE WikiInv'
  <2>1. PlanInv' /\ OwedInv' /\ LinksInv'
    BY <1>1, PlanStep, OwedStep, LinksStep
  <2>2. ASSUME CaptureWrites PROVE WikiInv'
    <3>1. AttemptTypes' /\ TextTypes' /\ PassTypes' /\ BoundTypes'
      BY <2>2, CaptureTypes
    <3>2. LatestInv'
      BY <2>2, Writers, CaptureLeaves, LatestStep
    <3> QED
      BY <2>1, <2>2, <3>1, <3>2, AttemptStep, CaptureConserves DEF WikiInv
  <2>3. ASSUME NEW p \in Pass, PassStep(p) PROVE WikiInv'
    <3>1. AttemptTypes' /\ TextTypes' /\ PassTypes' /\ BoundTypes'
      BY <2>3, PassStepTypes
    <3>2. LatestInv'
      BY <2>3, Writers, PassLeaves, LatestStep
    <3> QED
      BY <2>1, <2>3, <3>1, <3>2, PassAtStep, PassConserves DEF WikiInv
  <2> QED
    BY <1>1, <2>2, <2>3 DEF WikiNext
<1>2. CASE UNCHANGED wikiVars
  <2>1. InEdits' = InEdits
    BY <1>2 DEF wikiVars, attemptVars, InEdits
  <2>2. \A p \in Pass : \A d : Doomed(p, d)' = Doomed(p, d)
    BY <1>2 DEF wikiVars, passVars, Doomed, Carried
  <2>3. /\ AttemptTypes' /\ TextTypes' /\ PassTypes' /\ BoundTypes'
        /\ AttemptInv' /\ PassInv'
    BY <1>2 DEF wikiVars, attemptVars, passVars, wikiHistory, wikiBounds, WikiInv, AttemptTypes,
                TextTypes, PassTypes, BoundTypes, AttemptInv, PassInv
  <2>4. LatestInv' /\ PlanInv' /\ LinksInv'
    BY <1>2 DEF wikiVars, attemptVars, passVars, wikiBounds, WikiInv, LatestInv, PlanInv, LinksInv
  <2>5. ConservedInv'
    BY <1>2, <2>2 DEF wikiVars, wikiHistory, WikiInv, ConservedInv
  <2>6. OwedInv'
    BY <1>2, <2>1 DEF wikiVars, attemptVars, wikiHistory, WikiInv, OwedInv
  <2> QED
    BY <2>3, <2>4, <2>5, <2>6 DEF WikiInv
<1> QED
  BY <1>1, <1>2

\* The invariant holds in every reachable state.
THEOREM WikiInvariance == WikiSpec => []WikiInv
BY InitWiki, NextWiki, PTL DEF WikiSpec

\* Every variable keeps its type.
THEOREM WikiTypes == WikiSpec => []WikiTypeOK
BY TypeParts, WikiInvariance, PTL

\* Whatever the guides, however many operations the model answers with and
\* however many passes write under it: a marker is lost only with a guide that
\* was replaced or deleted by somebody who had not read its last version, a
\* committed capture owes nothing, and undisturbed maintenance leaves every
\* link answered.
THEOREM WikiIsSafe == WikiSpec => []WikiSafe
<1>1. ASSUME WikiInv PROVE WikiSafe
  <2>1. ASSUME ~overwritten PROVE written \cup receipts \subseteq Markers(guide)
    <3>1. \A m \in written : m \in Markers(guide)
      BY <1>1, <2>1 DEF WikiInv, ConservedInv, Markers
    <3> QED
      BY <1>1, <3>1 DEF WikiInv, ConservedInv
  <2>2. committed => owed \subseteq written
    BY <1>1 DEF WikiInv, OwedInv
  <2>3. LinksMutual
    BY <1>1 DEF WikiInv, LinksInv, LinksMutual, Mutual
  <2> QED
    BY <2>1, <2>2, <2>3 DEF WikiSafe, MarkersConserved, CommittedHoldsClaims
<1> QED
  BY <1>1, WikiInvariance, PTL

-----------------------------------------------------------------------------
(* Episode cards.                                                          *)

\* The stage's linker works while the stage links; unless their works overlap,
\* the operator's command is at rest while a stage is not, and it never ran
\* while no backfill is on record.
TurnInv ==
  /\ linker["stage"].pc /= "off" => work.pc = "link"
  /\ "overlap" \in disturbed \/ work = NoStage \/ (linker["operator"] = NoLink /\ backlog = {})
  /\ "backfill" \in disturbed \/ (linker["operator"] = NoLink /\ backlog = {})

\* A card of the stage in work: no card is younger.
Newest(p) == p \in DOMAIN card /\ born[p] = work.no

\* Where the stage is at a file.
Filing == {"clean", "raw", "fill"}

\* The stage has work as far as its place says, at a file of its own session
\* that does not exist until it is opened; its new cards are distinct.
StageInv ==
  /\ \A p \in DOMAIN card : born[p] <= begun
  /\ work /= NoStage =>
       /\ work.no <= begun
       /\ \A p \in DOMAIN card : born[p] <= work.no
       /\ \A i \in DOMAIN work.new : Newest(work.new[i])
       /\ \A i, j \in DOMAIN work.new : work.new[i] = work.new[j] => i = j
  /\ work.pc \in {"card"} \cup Filing => work.todo /= <<>>
  /\ work.pc \in {"repairRaw"} \cup Filing => work.at \in Path
  /\ work.pc \in Filing =>
       /\ work.at.session = work.session
       /\ work.pc /= "fill" => work.at \notin DOMAIN card
       /\ \A i \in DOMAIN work.new : work.new[i] /= work.at
  /\ work.pc = "fill" => Newest(work.at)
  /\ linker["stage"].pc /= "off" =>
       /\ Newest(linker["stage"].card)
       /\ \A i \in DOMAIN work.new : work.new[i] /= linker["stage"].card

\* Names are taken in their order.
Earlier(p) == \A n \in 1..(p.copy - 1) : [p EXCEPT !.copy = n] \in DOMAIN card
NamesInv ==
  /\ \A p \in DOMAIN card : Earlier(p)
  /\ work.pc \in {"clean", "raw"} => Earlier(work.at)

\* The card is on disk and no successor of the other.
Follows(p, q) ==
  /\ q \in DOMAIN card /\ q /= p
  /\ born[q] <= born[p] \/ ("backfill" \in disturbed /\ Before(q, p))

\* What a path may hold: links to dialogues that are saved and to cards before it.
Fits(p, f) ==
  f /= Empty =>
    /\ f.session = p.session
    /\ \A part \in f.refs : <<p, part>> \in saved
    /\ \A q \in f.names : Follows(p, q)

\* The same of what a linker is going to write.
LinkFits(l) ==
  /\ l.pc /= "off" => l.card \in DOMAIN card
  /\ l.pc \in {"asked", "named", "fill"} => Fits(l.card, l.seen)
  /\ l.pc = "asked" => \A q \in l.among : Follows(l.card, q)
  /\ l.pc \in {"named", "fill", "patch", "mark"} => \A q \in l.ids : Follows(l.card, q)
  /\ l.pc = "mark" => Follows(l.card, l.at) /\ Fits(l.at, l.seen)

\* The dialogues are saved before the card that links them.
SavedInv ==
  /\ work.pc = "raw" /\ Dialogued => <<work.at, "clean">> \in saved
  /\ work.pc = "fill" /\ Dialogued => <<work.at, "clean">> \in saved /\ <<work.at, "raw">> \in saved

\* What files and linkers hold fits.
FilesInv ==
  /\ \A p \in DOMAIN card : Fits(p, card[p])
  /\ \A k \in Process : LinkFits(linker[k])

\* No stage and operator's command have been at work at a time.
Alone == "overlap" \notin disturbed

\* A file that is open to be written is empty, and what a linker has read of a
\* card is what it holds.
OpenInv ==
  Alone =>
    /\ work.pc = "fill" => card[work.at] = Empty
    /\ \A k \in Process :
         /\ linker[k].pc \in {"asked", "named"} => card[linker[k].card] = linker[k].seen
         /\ linker[k].pc = "fill" => card[linker[k].card] = Empty
         /\ linker[k].pc = "mark" => card[linker[k].at] = Empty

\* What a process that has the file open is writing.
Writes(k, p, g) ==
  \/ linker[k].pc = "fill" /\ p = linker[k].card /\ g = Named(k)
  \/ linker[k].pc = "mark" /\ p = linker[k].at /\ g = Marked(k)
  \/ k = "stage" /\ work.pc = "fill" /\ p = work.at /\ g = Fresh

\* What the file holds, or will when whoever has it open has written it.
Written(p) ==
  IF \E k \in Process, g \in File : Writes(k, p, g)
  THEN CHOOSE g \in File : \E k \in Process : Writes(k, p, g)
  ELSE card[p]

SameArc(p, q) == [p EXCEPT !.copy = 1] = [q EXCEPT !.copy = 1]

\* An arc has one file that holds a card, and none while a new one is prepared.
OneInv ==
  Alone =>
    /\ \A p, q \in DOMAIN card :
         Written(p) /= Empty /\ Written(q) /= Empty /\ SameArc(p, q) => p = q
    /\ work.pc \in {"clean", "raw"} =>
         \A q \in DOMAIN card : SameArc(q, work.at) => Written(q) = Empty

\* The new cards name nothing yet, and who supersedes is named so.
NamedInv ==
  Alone /\ "backfill" \notin disturbed =>
    \/ \E p \in DOMAIN card : Written(p) = Empty
    \/ /\ \A p \in DOMAIN card : Written(p).status = "superseded" =>
            \E q \in DOMAIN card : p \in Written(q).names
       /\ work /= NoStage => \A i \in DOMAIN work.new : Written(work.new[i]).names = {}
       /\ linker["stage"].pc \in {"asked", "named", "fill"} => linker["stage"].seen.names = {}
       /\ linker["stage"].pc \in {"patch", "mark"} =>
            linker["stage"].ids \subseteq Written(linker["stage"].card).names
       /\ linker["stage"].pc = "mark" =>
            linker["stage"].at \in Written(linker["stage"].card).names

\* A card is no empty file.
LEMMA NotEmpty == \A f \in Card : f /= Empty
  BY DEF Card, Empty

\* A file is written and the others stay.
LEMMA Stored ==
  ASSUME NEW p \in Path, NEW f \in File, CardTypeOK, Store(p, f)
  PROVE  /\ DOMAIN card' = DOMAIN card \cup {p}
         /\ DOMAIN card' \subseteq Path /\ IsFiniteSet(DOMAIN card')
         /\ card' \in [DOMAIN card' -> File]
         /\ card'[p] = f
         /\ \A q \in DOMAIN card : q /= p => card'[q] = card[q]
<1>1. DOMAIN card' = DOMAIN card \cup {p}
  BY DEF Store
<1>2. IsFiniteSet(DOMAIN card')
  BY <1>1, FS_AddElement DEF CardTypeOK
<1> QED
  BY <1>1, <1>2 DEF CardTypeOK, Store

\* The name found for an arc, and those before it.
LEMMA FirstOpen ==
  ASSUME CardTypeOK, NEW d \in {"episodes", "research"}, NEW date \in Date,
         NEW s \in CardSession, NEW idx \in Count, NEW a \in Arc,
         NEW path, path = PathFor(d, date, s, idx, a)
  PROVE  /\ path \in Path /\ path.session = s
         /\ path \in DOMAIN card => Owned(path, s)
         /\ \A n \in 1..(path.copy - 1) :
              [path EXCEPT !.copy = n] \in DOMAIN card /\ ~ Owned([path EXCEPT !.copy = n], s)
<1> DEFINE At(n) == [dir |-> d, date |-> date, session |-> s, idx |-> idx, arc |-> a, copy |-> n]
           N == Cardinality(DOMAIN card)
           open == {n \in 1..(N + 1) : At(n) \in DOMAIN card => Owned(At(n), s)}
<1>1. N \in Nat /\ IsFiniteSet(DOMAIN card)
  BY FS_CardinalityType DEF CardTypeOK
<1>2. open # {}
  <2>1. SUFFICES ASSUME open = {} PROVE FALSE
    OBVIOUS
  <2>2. \A n \in 1..(N + 1) : At(n) \in DOMAIN card
    BY <2>1
  <2> DEFINE F == [n \in 1..(N + 1) |-> At(n)]
  <2>3. F \in [1..(N + 1) -> DOMAIN card]
    BY <2>2
  <2>4. IsFiniteSet(1..(N + 1)) /\ Cardinality(1..(N + 1)) = N + 1
    BY <1>1, FS_Interval
  <2>5. \A m, n \in 1..(N + 1) : F[m] = F[n] => m = n
    OBVIOUS
  <2> HIDE DEF F
  <2>6. N < Cardinality(1..(N + 1))
    BY <1>1, <2>4
  <2>7. \E m, n \in 1..(N + 1) : m # n /\ F[m] = F[n]
    BY <1>1, <2>3, <2>4, <2>6, FS_PigeonHole
  <2> QED
    BY <2>5, <2>7
<1>3. open \subseteq Nat
  BY <1>1
<1>4. PICK m \in open : \A n \in open : m <= n
  BY <1>2, <1>3, LeastNumber
<1>5. Min(open) \in open /\ \A n \in open : Min(open) <= n
  BY <1>4 DEF Min
<1>6. path = At(Min(open))
  BY DEF PathFor
<1> HIDE DEF open
<1> DEFINE o == Min(open)
<1>7. o \in 1..(N + 1) /\ (At(o) \in DOMAIN card => Owned(At(o), s))
  BY <1>5 DEF open
<1>8. \A n \in 1..(o - 1) : At(n) \in DOMAIN card /\ ~ Owned(At(n), s)
  BY <1>1, <1>5, <1>7 DEF open
<1> HIDE DEF o
<1>9. path = At(o)
  BY <1>6 DEF o
<1>10. \A n : [path EXCEPT !.copy = n] = At(n)
  BY <1>9
<1>11. path.copy = o /\ path.session = s /\ path \in Path
  BY <1>1, <1>7, <1>9 DEF Path, Count
<1> QED
  BY <1>7, <1>8, <1>9, <1>10, <1>11

\* What a place of the stage or of a linker is known to hold.
LEMMA Places ==
  ASSUME CardTypeOK
  PROVE  /\ work /= NoStage => work \in Stage
         /\ work.pc = "off" => work = NoStage
         /\ work.pc /= "off" => work \in Stage
         /\ \A k \in Process :
              /\ linker[k].pc = "off" => linker[k] = NoLink
              /\ linker[k].pc /= "off" => linker[k] \in Linking /\ linker[k].card \in Path
              /\ linker[k].pc = "asked" => linker[k].seen \in Card /\ linker[k].among \subseteq Path
              /\ linker[k].pc \in {"named", "fill"} => linker[k].seen \in Card
              /\ linker[k].pc \in {"named", "fill", "patch", "mark"} => linker[k].ids \subseteq Path
              /\ linker[k].pc = "mark" => linker[k].at \in Path /\ linker[k].seen \in File
<1>1. work \in Stage \cup {NoStage}
  BY DEF CardTypeOK
<1>2. work \in Stage => work.pc /= "off"
  BY DEF Stage
<1>3. ASSUME NEW k \in Process
      PROVE  /\ linker[k].pc = "off" => linker[k] = NoLink
             /\ linker[k].pc /= "off" => linker[k] \in Linking /\ linker[k].card \in Path
             /\ linker[k].pc = "asked" => linker[k].seen \in Card /\ linker[k].among \subseteq Path
             /\ linker[k].pc \in {"named", "fill"} => linker[k].seen \in Card
             /\ linker[k].pc \in {"named", "fill", "patch", "mark"} => linker[k].ids \subseteq Path
             /\ linker[k].pc = "mark" => linker[k].at \in Path /\ linker[k].seen \in File
  <2>1. linker[k] \in Linking \cup {NoLink}
    BY DEF CardTypeOK
  <2>2. NoLink.pc = "off"
    BY DEF NoLink
  <2>3. CASE linker[k] = NoLink
    BY <2>2, <2>3
  <2>4. CASE linker[k] \in Linking
    BY <2>4 DEF Linking
  <2> QED
    BY <2>1, <2>3, <2>4
<1>4. NoStage.pc = "off"
  BY DEF NoStage
<1> QED
  BY <1>1, <1>2, <1>3, <1>4

\* What a linker and the stage write is a card.
LEMMA CardsWritten ==
  ASSUME CardTypeOK
  PROVE  /\ work.pc = "fill" => Fresh \in Card
         /\ \A k \in Process : linker[k].pc = "fill" => Named(k) \in Card
         /\ \A k \in Process : linker[k].pc = "mark" =>
              Marked(k) \in File /\ (Marked(k) /= Empty => Marked(k) \in Card)
         /\ \A f \in Card : [f EXCEPT !.text = "cut"] \in Card
<1>1. work.pc = "fill" => Fresh \in Card
  BY Places DEF Fresh, Card, Stage
<1>2. \A k \in Process : linker[k].pc = "fill" => Named(k) \in Card
  BY Places DEF Named, Card
<1>3. \A k \in Process : linker[k].pc = "mark" =>
        Marked(k) \in File /\ (Marked(k) /= Empty => Marked(k) \in Card)
  BY Places DEF Marked, Card, File
<1>4. \A f \in Card : [f EXCEPT !.text = "cut"] \in Card
  BY DEF Card
<1> QED
  BY <1>1, <1>2, <1>3, <1>4

\* A sequence of two has more than its head.
LEMMA TailHas ==
  ASSUME NEW S, NEW s \in Seq(S), Len(s) > 1
  PROVE  Tail(s) # <<>>
<1>1. Len(Tail(s)) = Len(s) - 1 /\ Len(s) \in Nat /\ Tail(s) \in Seq(S)
  OBVIOUS
<1>2. Len(Tail(s)) # 0
  BY <1>1
<1>3. Len(<<>>) = 0
  OBVIOUS
<1> QED
  BY <1>2, <1>3, Zenon

\* The place the stage goes on to.
LEMMA Advances ==
  ASSUME CardTypeOK, work \in Stage, work.todo /= <<>>, NEW new \in Seq(Path)
  PROVE  /\ Advance(new) \in Stage
         /\ Advance(new).pc \in {"card", "link"} /\ Advance(new).new = new
         /\ Advance(new).session = work.session /\ Advance(new).no = work.no
         /\ Advance(new).pc = "card" => Advance(new).todo /= <<>>
<1>1. work.todo \in Seq(Count \X Arc)
  BY DEF Stage
<1>2. Tail(work.todo) \in Seq(Count \X Arc) /\ Len(Tail(work.todo)) = Len(work.todo) - 1
      /\ Len(work.todo) \in Nat
  BY <1>1
<1>3. Len(work.todo) > 1 => Tail(work.todo) /= <<>>
  BY <1>1, TailHas
<1> QED
  BY <1>2, <1>3 DEF Advance, Stage

\* The arc the stage comes to has a name and a number.
LEMMA HereIs ==
  ASSUME CardTypeOK, StageInv, work.pc = "card"
  PROVE  /\ Here \in Path /\ Here.session = work.session
         /\ Here \in DOMAIN card => Owned(Here, work.session)
         /\ \A n \in 1..(Here.copy - 1) :
              [Here EXCEPT !.copy = n] \in DOMAIN card
              /\ ~ Owned([Here EXCEPT !.copy = n], work.session)
<1>1. work \in Stage /\ work.todo /= <<>>
  BY Places DEF StageInv
<1>2. work.todo[1] \in Count \X Arc
  BY <1>1 DEF Stage
<1>3. work.todo[1][1] \in Count /\ work.todo[1][2] \in Arc
  BY <1>2
<1> QED
  BY <1>1, <1>3, FirstOpen DEF Here, Stage

\* What a call that reads no further may do to a linker.
LEMMA AskTypes ==
  ASSUME CardTypeOK, NEW k \in Process, NEW p \in DOMAIN card, NEW offered \in SUBSET (DOMAIN card),
         Ask(k, p, offered)
  PROVE  linker' \in [Process -> Linking \cup {NoLink}]
<1>1. Candidates(p, offered) \subseteq Path
  BY DEF Candidates, CardTypeOK
<1>2. Parses(p) => card[p] \in Card
  BY DEF Parses, CardTypeOK, File
<1>3. CASE linker' = linker
  BY <1>3 DEF CardTypeOK
<1>4. CASE linker' /= linker
  <2>1. Parses(p) /\ linker' = [linker EXCEPT ![k] = [pc |-> "asked", card |-> p, seen |-> card[p],
                                        among |-> Candidates(p, offered)]]
    BY <1>4 DEF Ask
  <2>2. [pc |-> "asked", card |-> p, seen |-> card[p], among |-> Candidates(p, offered)] \in Linking
    BY <1>1, <1>2, <2>1 DEF Linking, CardTypeOK
  <2> QED
    BY <2>1, <2>2 DEF CardTypeOK
<1> QED
  BY <1>3, <1>4

\* A file that exists is written and no other comes.
LEMMA Rewritten ==
  ASSUME CardTypeOK, NEW p \in DOMAIN card, NEW f \in File, Store(p, f)
  PROVE  /\ DOMAIN card' = DOMAIN card
         /\ card' \in [DOMAIN card -> File]
         /\ card'[p] = f
         /\ \A q \in DOMAIN card : q /= p => card'[q] = card[q]
<1>1. p \in Path
  BY DEF CardTypeOK
<1>2. DOMAIN card \cup {p} = DOMAIN card
  OBVIOUS
<1> QED
  BY <1>1, <1>2, Stored

\* What is being written is a file that exists, and gets what a file may hold.
LEMMA WritesFile ==
  ASSUME CardTypeOK, StageInv, FilesInv, NEW k \in Process, NEW p, NEW g, Writes(k, p, g)
  PROVE  p \in DOMAIN card /\ g \in File
<1>1. CASE linker[k].pc = "fill" /\ p = linker[k].card /\ g = Named(k)
  BY <1>1, CardsWritten DEF FilesInv, LinkFits, File
<1>2. CASE linker[k].pc = "mark" /\ p = linker[k].at /\ g = Marked(k)
  BY <1>2, CardsWritten DEF FilesInv, LinkFits, Follows
<1>3. CASE k = "stage" /\ work.pc = "fill" /\ p = work.at /\ g = Fresh
  BY <1>3, CardsWritten DEF StageInv, Newest, File
<1> QED
  BY <1>1, <1>2, <1>3 DEF Writes

\* A file without its body.
Halved(g) == [g EXCEPT !.text = "cut"]

\* A kill leaves the files as they are, or the open one whole or cut.
LEMMA KillLeaves ==
  ASSUME CardTypeOK, StageInv, FilesInv, NEW k \in Process, KillCards(k)
  PROVE  \/ UNCHANGED card
         \/ \E p \in DOMAIN card, g \in File, f \in File :
              /\ Writes(k, p, g) /\ Store(p, f)
              /\ f = g \/ (g /= Empty /\ f = Halved(g))
<1>1. ASSUME NEW p, NEW g, Writes(k, p, g), LeftHalf(p, g)
      PROVE  \/ UNCHANGED card
             \/ \E q \in DOMAIN card, h \in File, f \in File :
                  /\ Writes(k, q, h) /\ Store(q, f)
                  /\ f = h \/ (h /= Empty /\ f = Halved(h))
  <2>1. p \in DOMAIN card /\ g \in File
    BY <1>1, WritesFile
  <2>2. CASE Store(p, g)
    BY <1>1, <2>1, <2>2
  <2>3. CASE g \in Card /\ Store(p, Halved(g))
    <3>1. Halved(g) \in File /\ g /= Empty
      BY <2>3, CardsWritten, NotEmpty DEF File, Halved
    <3> QED
      BY <1>1, <2>1, <2>3, <3>1
  <2> QED
    BY <1>1, <2>2, <2>3 DEF LeftHalf, Halved
<1>2. CASE linker[k].pc = "fill" /\ LeftHalf(linker[k].card, Named(k))
  BY <1>1, <1>2 DEF Writes
<1>3. CASE linker[k].pc = "mark" /\ LeftHalf(linker[k].at, Marked(k))
  BY <1>1, <1>3 DEF Writes
<1>4. CASE k = "stage" /\ work.pc = "fill" /\ LeftHalf(work.at, Fresh)
  BY <1>1, <1>4 DEF Writes
<1> QED
  BY <1>2, <1>3, <1>4 DEF KillCards

\* Every step keeps the types.
LEMMA NextTypes ==
  ASSUME CardAssumption, CardTypeOK, StageInv, FilesInv, [CardNext]_cardVars
  PROVE  CardTypeOK'
<1> USE DEF CardTypeOK
<1>1. CASE UNCHANGED cardVars
  BY <1>1 DEF cardVars
<1>2. ASSUME NEW d \in {"episodes", "research"}, NEW date \in Date, NEW s \in CardSession,
             StageStarts(d, date, s)
      PROVE  CardTypeOK'
  <2>1. begun + 1 \in Count /\ begun' \in 0..MaxStages
    BY <1>2 DEF CardAssumption, StageStarts, Count
  <2>2. work' \in Stage
    BY <1>2, <2>1 DEF StageStarts, Stage
  <2>3. disturbed' \subseteq {"killed", "overlap", "backfill"}
    BY <1>2 DEF StageStarts, Disturb
  <2> QED
    BY <1>2, <2>1, <2>2, <2>3 DEF StageStarts
<1>3. CASE Repair
  <2>1. work \in Stage
    BY <1>3, Places DEF Repair
  <2>2. PICK p \in Unrepaired :
          /\ saved' = saved \cup {<<p, "clean">>}
          /\ work' = [work EXCEPT !.pc = "repairRaw", !.at = p]
    BY <1>3 DEF Repair
  <2>3. p \in Path
    BY DEF Unrepaired, CardsOf
  <2>4. work' \in Stage
    BY <2>1, <2>2, <2>3 DEF Stage
  <2> QED
    BY <1>3, <2>2, <2>3, <2>4 DEF Repair
<1>4. CASE RepairRaw
  <2>1. work \in Stage /\ work.at \in Path
    BY <1>4, Places DEF RepairRaw, StageInv
  <2>2. work' \in Stage
    BY <1>4, <2>1 DEF RepairRaw, Stage
  <2> QED
    BY <1>4, <2>1, <2>2 DEF RepairRaw
<1>5. CASE Recognize
  <2>1. work \in Stage
    BY <1>5, Places DEF Recognize
  <2>2. PICK answer \in Answers :
          work' = IF answer = <<>> THEN NoStage
                  ELSE [work EXCEPT !.pc = "card",
                          !.todo = [i \in DOMAIN answer |-> <<i, answer[i]>>]]
    BY <1>5 DEF Recognize
  <2>3. answer \in Seq(Arc)
    BY DEF CardAssumption
  <2>4. [i \in DOMAIN answer |-> <<i, answer[i]>>] \in Seq(Count \X Arc)
    BY <2>3 DEF Count
  <2>5. work' \in Stage \cup {NoStage}
    BY <2>1, <2>2, <2>4 DEF Stage
  <2> QED
    BY <1>5, <2>5 DEF Recognize
<1>6. CASE SkipArc
  <2>1. work \in Stage /\ work.todo /= <<>> /\ work.new \in Seq(Path)
    BY <1>6, Places DEF SkipArc, StageInv, Stage
  <2> QED
    BY <1>6, <2>1, Advances DEF SkipArc
<1>7. CASE BeginArc
  <2>1. work \in Stage /\ Here \in Path
    BY <1>7, Places, HereIs DEF BeginArc
  <2> QED
    BY <1>7, <2>1 DEF BeginArc, Stage
<1>8. CASE SaveDialogue
  <2>1. work \in Stage /\ work.at \in Path
    BY <1>8, Places DEF SaveDialogue, StageInv, Filing
  <2>2. work' \in Stage
    BY <1>8, <2>1 DEF SaveDialogue, Stage
  <2> QED
    BY <1>8, <2>1, <2>2 DEF SaveDialogue
<1>9. CASE OpenCard
  <2>1. work \in Stage /\ work.at \in Path
    BY <1>9, Places DEF OpenCard, StageInv, Filing
  <2>2. work' \in Stage
    BY <1>9, <2>1 DEF OpenCard, Stage
  <2>3. Empty \in File /\ Store(work.at, Empty)
    BY <1>9 DEF OpenCard, File
  <2>4. work.no \in Nat
    BY <2>1 DEF Stage, Count
  <2>5. /\ DOMAIN card' = DOMAIN card \cup {work.at}
        /\ DOMAIN card' \subseteq Path /\ IsFiniteSet(DOMAIN card')
        /\ card' \in [DOMAIN card' -> File]
    BY <2>1, <2>3, Stored
  <2>6. born' \in [DOMAIN card' -> Nat]
    BY <1>9, <2>4, <2>5 DEF OpenCard
  <2>7. saved' \subseteq Path \X {"clean", "raw"}
    BY <1>9, <2>1 DEF OpenCard
  <2> QED
    BY <1>9, <2>2, <2>5, <2>6, <2>7 DEF OpenCard
<1>10. CASE FillCard
  <2>1. work \in Stage /\ work.at \in DOMAIN card /\ work.todo /= <<>> /\ Fresh \in File
    BY <1>10, Places, CardsWritten DEF FillCard, StageInv, Filing, File, Newest
  <2>2. Append(work.new, work.at) \in Seq(Path)
    BY <2>1 DEF Stage
  <2>3. work' \in Stage
    BY <1>10, <2>1, <2>2, Advances DEF FillCard
  <2>4. DOMAIN card' = DOMAIN card /\ card' \in [DOMAIN card' -> File]
    BY <1>10, <2>1, Rewritten DEF FillCard
  <2> QED
    BY <1>10, <2>3, <2>4 DEF FillCard
<1>11. CASE LinkNext
  <2>1. work \in Stage
    BY <1>11, Places DEF LinkNext
  <2>2. CASE work' = NoStage /\ UNCHANGED linker
    BY <1>11, <2>2 DEF LinkNext
  <2>3. CASE ~ (work.new = <<>> \/ work.dir = "research")
    <3>1. work.new \in Seq(Path) /\ work.new /= <<>>
      BY <2>1, <2>3 DEF Stage
    <3>2. Tail(work.new) \in Seq(Path) /\ work.new[1] \in DOMAIN card
      BY <1>11, <3>1 DEF StageInv, Newest, LinkNext, NoStage
    <3>3. work' \in Stage
      BY <1>11, <2>1, <2>3, <3>2 DEF LinkNext, Stage
    <3>4. linker' \in [Process -> Linking \cup {NoLink}]
      <4>1. Ask("stage", work.new[1], {q \in DOMAIN card : q.dir = "episodes"})
        BY <1>11, <2>3 DEF LinkNext
      <4> QED
        BY <3>2, <4>1, AskTypes DEF Process
    <3> QED
      BY <1>11, <3>3, <3>4 DEF LinkNext
  <2> QED
    BY <1>11, <2>2, <2>3 DEF LinkNext
<1>12. CASE BackfillStarts
  BY <1>12 DEF BackfillStarts, Disturb, CardAssumption
<1>13. CASE BackfillNext
  <2>1. PICK p \in backlog :
          /\ backlog' = backlog \ {p}
          /\ Ask("operator", p, {q \in DOMAIN card : q.dir = "episodes" /\ Before(q, p)})
    BY <1>13 DEF BackfillNext
  <2>2. linker' \in [Process -> Linking \cup {NoLink}]
    BY <2>1, AskTypes DEF Process
  <2> QED
    BY <1>13, <2>1, <2>2 DEF BackfillNext
<1>14. ASSUME NEW k \in Process, Answered(k)
       PROVE  CardTypeOK'
  <2>1. linker[k].card \in Path /\ linker[k].seen \in Card /\ linker[k].among \subseteq Path
    BY <1>14, Places DEF Answered
  <2>2. PICK ids \in SUBSET linker[k].among :
          linker' = [linker EXCEPT ![k] =
            IF ids = {} THEN NoLink
            ELSE [pc |-> "named", card |-> @.card, seen |-> @.seen, ids |-> ids]]
    BY <1>14 DEF Answered
  <2>3. [pc |-> "named", card |-> linker[k].card, seen |-> linker[k].seen, ids |-> ids] \in Linking
    BY <2>1 DEF Linking
  <2> QED
    BY <1>14, <2>2, <2>3 DEF Answered
<1>15. ASSUME NEW k \in Process, NameOpens(k)
       PROVE  CardTypeOK'
  <2>0. Empty \in File
    BY DEF File
  <2>1. linker[k].card \in DOMAIN card /\ linker[k] \in [pc : {"named", "fill"}, card : Path, seen : Card, ids : SUBSET Path]
    BY <1>15, Places DEF NameOpens, FilesInv, LinkFits, Linking
  <2>2. DOMAIN card' = DOMAIN card /\ card' \in [DOMAIN card' -> File]
    BY <1>15, <2>1, <2>0, Rewritten DEF NameOpens
  <2>3. [linker[k] EXCEPT !.pc = "fill"] \in Linking
    BY <2>1 DEF Linking
  <2> QED
    BY <1>15, <2>2, <2>3 DEF NameOpens
<1>16. ASSUME NEW k \in Process, NameFills(k)
       PROVE  CardTypeOK'
  <2>1. linker[k].card \in DOMAIN card /\ linker[k] \in [pc : {"named", "fill"}, card : Path, seen : Card, ids : SUBSET Path]
    BY <1>16, Places DEF NameFills, FilesInv, LinkFits, Linking
  <2>2. DOMAIN card' = DOMAIN card /\ card' \in [DOMAIN card' -> File]
    <3>1. Named(k) \in File /\ Store(linker[k].card, Named(k))
      BY <1>16, CardsWritten DEF NameFills, File
    <3> QED
      BY <2>1, <3>1, Rewritten
  <2>3. [pc |-> "patch", card |-> linker[k].card, ids |-> linker[k].ids] \in Linking
    BY <2>1 DEF Linking
  <2> QED
    BY <1>16, <2>2, <2>3 DEF NameFills
<1>17. ASSUME NEW k \in Process, MarkOpens(k)
       PROVE  CardTypeOK'
  <2>1. PICK p \in linker[k].ids :
          /\ linker' = [linker EXCEPT ![k] = [pc |-> "mark", card |-> @.card, at |-> p,
                                              seen |-> card[p], ids |-> @.ids \ {p}]]
          /\ Store(p, Empty)
    BY <1>17 DEF MarkOpens
  <2>2. p \in DOMAIN card /\ linker[k].card \in Path /\ linker[k].ids \subseteq Path
    BY <1>17, Places DEF MarkOpens, FilesInv, LinkFits, Follows
  <2>3. DOMAIN card' = DOMAIN card /\ card' \in [DOMAIN card' -> File]
    <3>1. Empty \in File
      BY DEF File
    <3> QED
      BY <2>1, <2>2, <3>1, Rewritten
  <2>4. [pc |-> "mark", card |-> linker[k].card, at |-> p, seen |-> card[p],
         ids |-> linker[k].ids \ {p}] \in Linking
    BY <2>2 DEF Linking
  <2> QED
    BY <1>17, <2>1, <2>3, <2>4 DEF MarkOpens
<1>18. ASSUME NEW k \in Process, MarkFills(k)
       PROVE  CardTypeOK'
  <2>1. linker[k].at \in DOMAIN card /\ linker[k].card \in Path /\ linker[k].ids \subseteq Path
    BY <1>18, Places DEF MarkFills, FilesInv, LinkFits, Follows
  <2>2. DOMAIN card' = DOMAIN card /\ card' \in [DOMAIN card' -> File]
    <3>1. Marked(k) \in File /\ Store(linker[k].at, Marked(k))
      BY <1>18, CardsWritten DEF MarkFills
    <3> QED
      BY <2>1, <3>1, Rewritten
  <2>3. linker' \in [Process -> Linking \cup {NoLink}]
    BY <1>18, <2>1 DEF MarkFills, Linking
  <2> QED
    BY <1>18, <2>2, <2>3 DEF MarkFills
<1>19. ASSUME NEW k \in Process, KillCards(k)
       PROVE  CardTypeOK'
  <2>1. DOMAIN card' = DOMAIN card /\ card' \in [DOMAIN card' -> File]
    BY <1>19, KillLeaves, Rewritten
  <2>2. halts' \in 0..MaxHalts
    BY <1>19 DEF KillCards, CardAssumption
  <2> QED
    BY <1>19, <2>1, <2>2 DEF KillCards
<1> QED
  BY <1>1, <1>2, <1>3, <1>4, <1>5, <1>6, <1>7, <1>8, <1>9, <1>10, <1>11, <1>12, <1>13, <1>14,
     <1>15, <1>16, <1>17, <1>18, <1>19 DEF CardNext

\* The steps of a linker once it has asked.
Links(k) == Answered(k) \/ NameOpens(k) \/ NameFills(k) \/ MarkOpens(k) \/ MarkFills(k)

\* A linker keeps its card, the other process its place.
LEMMA LinksKeep ==
  ASSUME CardTypeOK, NEW k \in Process, Links(k)
  PROVE  /\ linker[k].pc /= "off"
         /\ linker'[k] = NoLink \/ linker'[k].card = linker[k].card
         /\ \A j \in Process \ {k} : linker'[j] = linker[j]
         /\ UNCHANGED <<saved, work, backlog, born, begun, halts, disturbed>>
<1>1. linker[k].pc /= "off" => linker[k] \in Linking
  BY Places
<1>2. CASE Answered(k)
  BY <1>2 DEF CardTypeOK, Answered
<1>3. CASE NameOpens(k)
  <2>1. linker[k] \in Linking
    BY <1>1, <1>3 DEF NameOpens
  <2>2. linker'[k] = [linker[k] EXCEPT !.pc = "fill"]
    BY <1>3 DEF NameOpens, CardTypeOK
  <2>3. linker'[k].card = linker[k].card
    BY <2>1, <2>2 DEF Linking
  <2> QED
    BY <1>3, <2>3 DEF CardTypeOK, NameOpens
<1>4. CASE NameFills(k)
  BY <1>4 DEF CardTypeOK, NameFills
<1>5. CASE MarkOpens(k)
  BY <1>5 DEF CardTypeOK, MarkOpens
<1>6. CASE MarkFills(k)
  BY <1>6 DEF CardTypeOK, MarkFills
<1> QED
  BY <1>2, <1>3, <1>4, <1>5, <1>6 DEF Links

\* A call of the linker asks about the card, or asks nothing.
LEMMA AskKeeps ==
  ASSUME CardTypeOK, NEW k \in Process, NEW p, NEW offered, Ask(k, p, offered)
  PROVE  /\ \A j \in Process \ {k} : linker'[j] = linker[j]
         /\ \/ linker'[k] = linker[k]
            \/ /\ Parses(p)
               /\ linker'[k] = [pc |-> "asked", card |-> p, seen |-> card[p],
                                among |-> Candidates(p, offered)]
  BY DEF CardTypeOK, Ask

\* A killed process is at rest and the other where it was.
LEMMA KillKeeps ==
  ASSUME CardTypeOK, NEW k \in Process, KillCards(k)
  PROVE  /\ linker'[k] = NoLink
         /\ \A j \in Process \ {k} : linker'[j] = linker[j]
         /\ work' = IF k = "stage" THEN NoStage ELSE work
         /\ backlog' = IF k = "operator" THEN {} ELSE backlog
         /\ disturbed' = disturbed \cup {"killed"}
         /\ UNCHANGED <<saved, born, begun>>
  BY DEF CardTypeOK, KillCards

\* A linker creates no file.
LEMMA LinksFiles ==
  ASSUME CardTypeOK, FilesInv, NEW k \in Process, Links(k)
  PROVE  DOMAIN card' = DOMAIN card
<1>0. Empty \in File
  BY DEF File
<1>1. CASE Answered(k)
  BY <1>1 DEF Answered
<1>2. CASE NameOpens(k)
  <2>1. linker[k].card \in DOMAIN card
    BY <1>2 DEF NameOpens, FilesInv, LinkFits
  <2> QED
    BY <1>0, <1>2, <2>1, Rewritten DEF NameOpens
<1>3. CASE NameFills(k)
  <2>1. linker[k].card \in DOMAIN card /\ Named(k) \in File
    BY <1>3, CardsWritten DEF NameFills, FilesInv, LinkFits, File
  <2> QED
    BY <1>3, <2>1, Rewritten DEF NameFills
<1>4. CASE MarkOpens(k)
  <2>1. PICK p \in linker[k].ids : Store(p, Empty)
    BY <1>4 DEF MarkOpens
  <2>2. p \in DOMAIN card
    BY <1>4 DEF MarkOpens, FilesInv, LinkFits, Follows
  <2> QED
    BY <1>0, <2>1, <2>2, Rewritten
<1>5. CASE MarkFills(k)
  <2>1. linker[k].at \in DOMAIN card /\ Marked(k) \in File
    BY <1>5, CardsWritten DEF MarkFills, FilesInv, LinkFits, Follows
  <2> QED
    BY <1>5, <2>1, Rewritten DEF MarkFills
<1> QED
  BY <1>1, <1>2, <1>3, <1>4, <1>5 DEF Links

\* Files are opened by the stage alone, and stay.
LEMMA NextFiles ==
  ASSUME CardTypeOK, StageInv, FilesInv, [CardNext]_cardVars
  PROVE  \/ OpenCard /\ DOMAIN card' = DOMAIN card \cup {work.at}
         \/ DOMAIN card' = DOMAIN card /\ born' = born
<1>1. CASE OpenCard
  BY <1>1 DEF OpenCard, Store
<1>2. CASE FillCard
  <2>1. work.at \in DOMAIN card /\ Fresh \in File
    BY <1>2, CardsWritten DEF FillCard, StageInv, Filing, Newest, File
  <2> QED
    BY <1>2, <2>1, Rewritten DEF FillCard
<1>4. ASSUME NEW k \in Process, KillCards(k) PROVE DOMAIN card' = DOMAIN card
  BY <1>4, KillLeaves, Rewritten
<1>5. CASE \E k \in Process : Links(k)
  BY <1>5, LinksFiles, LinksKeep
<1>6. CASE \E k \in Process : KillCards(k)
  BY <1>4, <1>6, KillKeeps
<1>7. CASE UNCHANGED cardVars
  BY <1>7 DEF cardVars
<1>8. CASE \E d \in {"episodes", "research"}, date \in Date, s \in CardSession : StageStarts(d, date, s)
  BY <1>8 DEF StageStarts
<1>9. CASE Repair \/ RepairRaw \/ Recognize \/ SkipArc \/ BeginArc \/ SaveDialogue
  BY <1>9 DEF Repair, RepairRaw, Recognize, SkipArc, BeginArc, SaveDialogue
<1>10. CASE LinkNext \/ BackfillStarts \/ BackfillNext
  BY <1>10 DEF LinkNext, BackfillStarts, BackfillNext
<1> QED
  BY <1>1, <1>2, <1>5, <1>6, <1>7, <1>8, <1>9, <1>10 DEF CardNext, Links

\* What is saved, on record or born stays so.
LEMMA NextGrows ==
  ASSUME CardTypeOK, StageInv, FilesInv, [CardNext]_cardVars
  PROVE  /\ DOMAIN card \subseteq DOMAIN card'
         /\ \A p \in DOMAIN card : born'[p] = born[p]
         /\ saved \subseteq saved'
         /\ disturbed \subseteq disturbed'
<1>1. CASE OpenCard
  <2>1. work.at \notin DOMAIN card
    BY <1>1 DEF OpenCard, StageInv, Filing
  <2>2. \A p \in DOMAIN card : born'[p] = born[p]
    BY <1>1, <2>1 DEF OpenCard, CardTypeOK
  <2> QED
    BY <1>1, <2>2 DEF OpenCard, Store
<1>2. DOMAIN card \subseteq DOMAIN card' /\ \A p \in DOMAIN card : born'[p] = born[p]
  BY <1>1, NextFiles
<1>3. saved \subseteq saved' /\ disturbed \subseteq disturbed'
  <2>1. CASE \E k \in Process : Links(k)
    BY <2>1, LinksKeep
  <2>2. CASE \E k \in Process : KillCards(k)
    BY <2>2, KillKeeps
  <2>3. CASE UNCHANGED cardVars
    BY <2>3 DEF cardVars
  <2>4. CASE \E d \in {"episodes", "research"}, date \in Date, s \in CardSession : StageStarts(d, date, s)
    BY <2>4 DEF StageStarts
  <2>5. CASE Repair \/ RepairRaw \/ Recognize \/ SkipArc \/ BeginArc \/ SaveDialogue
    BY <2>5 DEF Repair, RepairRaw, Recognize, SkipArc, BeginArc, SaveDialogue
  <2>6. CASE OpenCard \/ FillCard \/ LinkNext \/ BackfillStarts \/ BackfillNext
    BY <2>6 DEF OpenCard, FillCard, LinkNext, BackfillStarts, BackfillNext
  <2> QED
    BY <2>1, <2>2, <2>3, <2>4, <2>5, <2>6 DEF CardNext, Links
<1> QED
  BY <1>2, <1>3

\* Every step leaves the turn with who had it, or passes it on.
LEMMA NextTurn ==
  ASSUME CardTypeOK, TurnInv, [CardNext]_cardVars
  PROVE  TurnInv'
<1> USE DEF TurnInv
<1>1. ASSUME NEW k \in Process, Links(k) PROVE TurnInv'
  BY <1>1, LinksKeep DEF Process, NoLink
<1>2. ASSUME NEW k \in Process, KillCards(k) PROVE TurnInv'
  BY <1>2, KillKeeps DEF Process, NoLink
<1>3. CASE UNCHANGED cardVars
  BY <1>3 DEF cardVars
<1>4. CASE \E d \in {"episodes", "research"}, date \in Date, s \in CardSession : StageStarts(d, date, s)
  BY <1>4 DEF StageStarts, Disturb, NoStage
<1>5. CASE Repair \/ RepairRaw \/ Recognize \/ SkipArc \/ BeginArc \/ SaveDialogue \/ OpenCard \/ FillCard
  <2>1. work.pc \notin {"off", "link"} /\ UNCHANGED <<linker, backlog, disturbed>>
    BY <1>5 DEF Repair, RepairRaw, Recognize, SkipArc, BeginArc, SaveDialogue, OpenCard, FillCard
  <2> QED
    BY <2>1 DEF NoStage
<1>6. CASE LinkNext
  <2>1. work.pc = "link" /\ linker["stage"] = NoLink /\ UNCHANGED <<backlog, disturbed>>
    BY <1>6 DEF LinkNext
  <2>2. CASE work' = NoStage /\ UNCHANGED linker
    BY <2>1, <2>2 DEF NoLink
  <2>3. CASE ~ (work.new = <<>> \/ work.dir = "research")
    <3>1. linker'["operator"] = linker["operator"]
      BY <1>6, <2>3, AskKeeps DEF LinkNext, Process
    <3>2. work'.pc = "link"
      BY <1>6, <2>1, <2>3, Places DEF LinkNext, Stage
    <3> QED
      BY <2>1, <3>1, <3>2 DEF NoStage
  <2> QED
    BY <1>6, <2>2, <2>3 DEF LinkNext
<1>7. CASE BackfillStarts
  BY <1>7 DEF BackfillStarts, Disturb
<1>8. CASE BackfillNext
  <2>1. linker'["stage"] = linker["stage"]
    BY <1>8, AskKeeps DEF BackfillNext, Process
  <2> QED
    BY <1>8, <2>1 DEF BackfillNext
<1> QED
  BY <1>1, <1>2, <1>3, <1>4, <1>5, <1>6, <1>7, <1>8 DEF CardNext, Links

\* Every step leaves the stage and its linker where they may be.
LEMMA NextStage ==
  ASSUME CardTypeOK, TurnInv, StageInv, FilesInv, [CardNext]_cardVars
  PROVE  StageInv'
<1> DEFINE Born(c, b, n) == \A p \in DOMAIN c : b[p] <= n
<1>1. /\ work.pc = "off" => work = NoStage
      /\ work.pc /= "off" => work \in Stage /\ work.no \in Nat /\ work.new \in Seq(Path)
      /\ begun \in Nat /\ \A p \in DOMAIN card : born[p] \in Nat
  BY Places DEF CardTypeOK, Stage, Count
<1>2. ASSUME NEW k \in Process, Links(k) PROVE StageInv'
  <2>1. DOMAIN card' = DOMAIN card /\ UNCHANGED <<work, born, begun>>
    BY <1>2, LinksFiles, LinksKeep
  <2>2. linker'["stage"].pc /= "off" =>
          linker["stage"].pc /= "off" /\ linker'["stage"].card = linker["stage"].card
    BY <1>2, LinksKeep DEF Process, NoLink
  <2> QED
    BY <2>1, <2>2 DEF StageInv, Newest
<1>3. ASSUME NEW k \in Process, KillCards(k) PROVE StageInv'
  <2>1. DOMAIN card' = DOMAIN card /\ UNCHANGED <<born, begun>>
    BY <1>3, KillLeaves, Rewritten, KillKeeps
  <2>2. CASE k = "stage"
    BY <1>3, <2>1, <2>2, KillKeeps DEF StageInv, NoStage, NoLink, Filing
  <2>3. CASE k = "operator"
    <3>1. work' = work /\ linker'["stage"] = linker["stage"]
      BY <1>3, <2>3, KillKeeps DEF Process
    <3> QED
      BY <2>1, <3>1 DEF StageInv, Newest
  <2> QED
    BY <2>2, <2>3 DEF Process
<1>4. CASE UNCHANGED cardVars
  BY <1>4 DEF cardVars, StageInv, Newest
<1>5. ASSUME NEW d \in {"episodes", "research"}, NEW date \in Date, NEW s \in CardSession,
             StageStarts(d, date, s)
      PROVE  StageInv'
  <2>1. /\ work' \in [pc : {"repair"}, dir : {d}, date : {date}, session : {s}, talk : BOOLEAN,
                      no : {begun + 1}, at : {NoPath}, todo : {<<>>}, new : {<<>>}]
        /\ begun' = begun + 1 /\ UNCHANGED <<card, linker, born>>
    BY <1>5 DEF StageStarts
  <2>2. linker["stage"].pc = "off"
    BY <1>5 DEF StageStarts, TurnInv, NoStage
  <2>3. work'.pc = "repair" /\ work'.no = begun + 1 /\ DOMAIN work'.new = {}
    BY <2>1
  <2>4. \A p \in DOMAIN card : born[p] <= begun
    BY DEF StageInv
  <2>5. \A p \in DOMAIN card : born[p] <= begun + 1
    BY <1>1, <2>4
  <2> QED
    BY <1>1, <2>1, <2>2, <2>3, <2>5 DEF StageInv, Filing
<1>6. CASE Repair \/ RepairRaw \/ Recognize \/ SkipArc \/ BeginArc \/ SaveDialogue
  <2>1. work.pc \notin {"off", "link"} /\ UNCHANGED <<card, born, begun, linker>>
    BY <1>6 DEF Repair, RepairRaw, Recognize, SkipArc, BeginArc, SaveDialogue
  <2>2. linker["stage"].pc = "off" /\ work /= NoStage /\ work \in Stage
    BY <1>1, <2>1 DEF TurnInv, NoStage
  <2>3. CASE work' = NoStage
    BY <2>1, <2>2, <2>3 DEF StageInv, NoStage, Filing
  <2>4. CASE work'.no = work.no /\ work'.new = work.new /\ work'.session = work.session
             /\ work'.pc \in {"repair", "repairRaw", "card", "link", "clean", "raw"}
             /\ (work'.pc \in {"card"} \cup Filing => work'.todo /= <<>>)
             /\ (work'.pc \in {"repairRaw"} \cup Filing => work'.at \in Path)
             /\ (work'.pc \in Filing =>
                  /\ work'.at.session = work.session
                  /\ work'.at \notin DOMAIN card)
    <3>1. work'.pc \in Filing => \A i \in DOMAIN work.new : work.new[i] /= work'.at
      BY <2>2, <2>4 DEF StageInv, Newest
    <3> QED
      BY <2>1, <2>2, <2>4, <3>1 DEF StageInv, Newest, Filing
  <2>5. CASE Repair
    <3>1. Unrepaired \subseteq Path
      BY DEF Unrepaired, CardsOf, CardTypeOK
    <3>2. \E p \in Unrepaired : work' = [work EXCEPT !.pc = "repairRaw", !.at = p]
      BY <2>5 DEF Repair
    <3> QED
      BY <2>2, <2>4, <3>1, <3>2 DEF Stage, Filing
  <2>6. CASE RepairRaw
    BY <2>2, <2>4, <2>6 DEF RepairRaw, Stage, Filing
  <2>7. CASE Recognize
    <3>1. PICK answer \in Answers :
            work' = IF answer = <<>> THEN NoStage
                    ELSE [work EXCEPT !.pc = "card",
                            !.todo = [i \in DOMAIN answer |-> <<i, answer[i]>>]]
      BY <2>7 DEF Recognize
    <3>2. CASE answer /= <<>>
      <4>1. answer \in Seq(Arc) /\ DOMAIN answer # {}
        <5>1. answer \in Seq(Arc)
          BY CardAssumption DEF CardAssumption
        <5>2. Len(answer) \in Nat /\ Len(answer) /= 0 /\ DOMAIN answer = 1..Len(answer)
          BY <3>2, <5>1, EmptySeq
        <5>3. 1 \in 1..Len(answer)
          BY <5>2
        <5> QED
          BY <5>1, <5>2, <5>3
      <4>2. [i \in DOMAIN answer |-> <<i, answer[i]>>] /= <<>>
        BY <4>1
      <4>3. work'.todo /= <<>> /\ work'.no = work.no /\ work'.new = work.new
            /\ work'.session = work.session /\ work'.pc = "card"
        BY <2>2, <3>1, <3>2, <4>2 DEF Stage
      <4> QED
        BY <2>4, <4>3 DEF Filing
    <3> QED
      BY <2>3, <3>1, <3>2
  <2>8. CASE SkipArc
    BY <1>1, <2>2, <2>4, <2>8, Advances DEF SkipArc, StageInv, Filing
  <2>9. CASE BeginArc
    <3>1. Here \in Path /\ Here.session = work.session /\ Here \notin DOMAIN card /\ work.todo /= <<>>
      BY <2>9, HereIs DEF BeginArc, StageInv
    <3> QED
      BY <2>2, <2>4, <2>9, <3>1 DEF BeginArc, Stage, Filing
  <2>10. CASE SaveDialogue
    BY <2>2, <2>4, <2>10 DEF SaveDialogue, Stage, StageInv, Filing
  <2> QED
    BY <1>6, <2>5, <2>6, <2>7, <2>8, <2>9, <2>10
<1>7. CASE OpenCard
  <2>1. work \in Stage /\ linker["stage"].pc = "off" /\ work /= NoStage
    BY <1>1, <1>7 DEF OpenCard, TurnInv, NoStage
  <2>2. work' = [work EXCEPT !.pc = "fill"] /\ DOMAIN card' = DOMAIN card \cup {work.at}
        /\ UNCHANGED <<linker, begun>>
    BY <1>7 DEF OpenCard, Store
  <2>3. work'.no = work.no /\ work'.new = work.new /\ work'.session = work.session
        /\ work'.pc = "fill" /\ work'.todo = work.todo /\ work'.at = work.at
    BY <2>1, <2>2 DEF Stage
  <2>4. /\ work.at \notin DOMAIN card /\ work.at \in Path /\ work.at.session = work.session
        /\ work.todo /= <<>> /\ \A i \in DOMAIN work.new : work.new[i] /= work.at
        /\ work.no <= begun
    BY <1>7, <2>1 DEF OpenCard, StageInv, Filing
  <2>5. born'[work.at] = work.no /\ \A p \in DOMAIN card : born'[p] = born[p]
    BY <1>7, <2>4 DEF OpenCard, CardTypeOK
  <2>6. \A p \in DOMAIN card' : born'[p] <= work.no /\ born'[p] <= begun
    BY <1>1, <2>1, <2>2, <2>4, <2>5 DEF StageInv
  <2>7. \A i \in DOMAIN work.new : work.new[i] \in DOMAIN card /\ born[work.new[i]] = work.no
    BY <2>1 DEF StageInv, Newest
  <2>8. work.at \in DOMAIN card' /\ born'[work.at] = work'.no
        /\ \A i \in DOMAIN work'.new : work'.new[i] \in DOMAIN card' /\ born'[work'.new[i]] = work'.no
    BY <2>2, <2>3, <2>5, <2>7
  <2> QED
    BY <2>1, <2>2, <2>3, <2>4, <2>6, <2>8 DEF StageInv, Filing, Newest
<1>8. CASE FillCard
  <2>1. work \in Stage /\ linker["stage"].pc = "off" /\ work /= NoStage
    BY <1>1, <1>8 DEF FillCard, TurnInv, NoStage
  <2>2. work' = Advance(Append(work.new, work.at)) /\ UNCHANGED <<linker, begun, born>>
    BY <1>8 DEF FillCard
  <2>3. /\ work.at \in DOMAIN card /\ born[work.at] = work.no /\ work.todo /= <<>>
        /\ \A i \in DOMAIN work.new : work.new[i] /= work.at
    BY <1>8 DEF FillCard, StageInv, Filing, Newest
  <2>4. DOMAIN card' = DOMAIN card
    <3>1. Fresh \in File
      BY <1>8, CardsWritten DEF FillCard, File
    <3> QED
      BY <1>8, <2>3, <3>1, Rewritten DEF FillCard
  <2>5. work.at \in Path /\ Append(work.new, work.at) \in Seq(Path)
    BY <1>1, <2>1, <2>3 DEF CardTypeOK
  <2>6. /\ work'.pc \in {"card", "link"} /\ work'.new = Append(work.new, work.at)
        /\ work'.no = work.no /\ (work'.pc = "card" => work'.todo /= <<>>)
    BY <2>1, <2>2, <2>3, <2>5, Advances
  <2>7. \A i \in DOMAIN work'.new :
          \/ i \in DOMAIN work.new /\ work'.new[i] = work.new[i]
          \/ i = Len(work.new) + 1 /\ work'.new[i] = work.at
    BY <1>1, <2>1, <2>5, <2>6
  <2>8. \A i \in DOMAIN work'.new : work'.new[i] \in DOMAIN card' /\ born'[work'.new[i]] = work'.no
    BY <2>1, <2>2, <2>3, <2>4, <2>6, <2>7 DEF StageInv, Newest
  <2>9. \A i, j \in DOMAIN work'.new : work'.new[i] = work'.new[j] => i = j
    <3>1. \A i, j \in DOMAIN work.new : work.new[i] = work.new[j] => i = j
      BY <2>1 DEF StageInv
    <3> QED
      BY <2>3, <2>7, <3>1
  <2> QED
    BY <1>1, <2>1, <2>2, <2>4, <2>6, <2>8, <2>9 DEF StageInv, Filing, Newest
<1>9. CASE LinkNext
  <2>1. work \in Stage /\ UNCHANGED <<card, born, begun>> /\ work.pc = "link" /\ work /= NoStage
    BY <1>1, <1>9 DEF LinkNext, NoStage
  <2>2. CASE work' = NoStage /\ UNCHANGED linker
    BY <1>9, <2>1, <2>2 DEF LinkNext, StageInv, NoStage, NoLink, Filing
  <2>3. CASE ~ (work.new = <<>> \/ work.dir = "research")
    <3>1. /\ work' = [work EXCEPT !.new = Tail(@)]
          /\ Ask("stage", work.new[1], {q \in DOMAIN card : q.dir = "episodes"})
          /\ linker["stage"] = NoLink
      BY <1>9, <2>3 DEF LinkNext
    <3>2. work'.new = Tail(work.new) /\ work'.no = work.no /\ work'.pc = "link"
      BY <2>1, <3>1 DEF Stage
    <3>3. work.new \in Seq(Path) /\ work.new /= <<>> /\ 1 \in DOMAIN work.new
      BY <1>1, <2>1, <2>3
    <3>4. \A i \in DOMAIN work'.new : i + 1 \in DOMAIN work.new /\ work'.new[i] = work.new[i + 1]
      BY <3>2, <3>3
    <3>5. linker'["stage"].pc = "off" \/ linker'["stage"].card = work.new[1]
      <4>1. "stage" \in Process
        BY DEF Process
      <4> DEFINE p == work.new[1]  offered == {q \in DOMAIN card : q.dir = "episodes"}
      <4>2. \/ linker'["stage"] = linker["stage"]
            \/ linker'["stage"] = [pc |-> "asked", card |-> p, seen |-> card[p],
                                   among |-> Candidates(p, offered)]
        <5>1. Ask("stage", p, offered)
          BY <3>1
        <5> HIDE DEF p, offered
        <5> QED
          BY <4>1, <5>1, AskKeeps
      <4> QED
        BY <3>1, <4>2 DEF NoLink
    <3>6. /\ \A i \in DOMAIN work.new : Newest(work.new[i])
          /\ \A i, j \in DOMAIN work.new : work.new[i] = work.new[j] => i = j
          /\ \A p \in DOMAIN card : born[p] <= begun /\ born[p] <= work.no
          /\ work.no <= begun
      BY <2>1 DEF StageInv
    <3>7. /\ \A i \in DOMAIN work'.new : work'.new[i] \in DOMAIN card' /\ born'[work'.new[i]] = work'.no
          /\ \A i \in DOMAIN work'.new : work'.new[i] /= work.new[1]
      <4>1. \A i \in DOMAIN work'.new : i + 1 # 1 /\ i \in Int
        BY <3>2, <3>3
      <4> QED
        BY <2>1, <3>2, <3>3, <3>4, <3>6, <4>1 DEF Newest
    <3>8. \A i, j \in DOMAIN work'.new : work'.new[i] = work'.new[j] => i = j
      <4>1. \A i, j \in DOMAIN work'.new : i + 1 = j + 1 => i = j
        BY <3>2, <3>3
      <4> QED
        BY <3>4, <3>6, <4>1
    <3>9. linker'["stage"].pc /= "off" =>
            linker'["stage"].card \in DOMAIN card' /\ born'[linker'["stage"].card] = work'.no
      BY <2>1, <3>2, <3>3, <3>5, <3>6 DEF Newest
    <3> QED
      BY <2>1, <3>2, <3>5, <3>6, <3>7, <3>8, <3>9 DEF StageInv, Filing, Newest
  <2> QED
    BY <1>9, <2>2, <2>3 DEF LinkNext
<1>10. CASE BackfillStarts
  <2>1. begun' = begun + 1 /\ UNCHANGED <<card, work, born, linker>>
    BY <1>10 DEF BackfillStarts
  <2>2. \A p \in DOMAIN card : born[p] <= begun + 1
    BY <1>1 DEF StageInv
  <2>3. work /= NoStage => work.no <= begun + 1
    <3>1. work /= NoStage => work.pc /= "off"
      BY <1>1
    <3> QED
      BY <1>1, <3>1 DEF StageInv
  <2> QED
    BY <2>1, <2>2, <2>3 DEF StageInv, Newest
<1>11. CASE BackfillNext
  <2>1. linker'["stage"] = linker["stage"] /\ UNCHANGED <<card, work, born, begun>>
    BY <1>11, AskKeeps DEF BackfillNext, Process
  <2> QED
    BY <2>1 DEF StageInv, Newest
<1> QED
  BY <1>2, <1>3, <1>4, <1>5, <1>6, <1>7, <1>8, <1>9, <1>10, <1>11 DEF CardNext, Links

\* A new card is prepared from the arc on, under one name.
LEMMA Prepares ==
  ASSUME CardTypeOK, StageInv, [CardNext]_cardVars, ~ OpenCard, ~ BeginArc,
         work'.pc \in {"clean", "raw"}
  PROVE  work.pc \in {"clean", "raw"} /\ work'.at = work.at
<1>1. CASE \E k \in Process : Links(k)
  BY <1>1, LinksKeep
<1>2. CASE \E k \in Process : KillCards(k)
  BY <1>2, KillKeeps DEF NoStage
<1>3. CASE UNCHANGED cardVars \/ BackfillStarts \/ BackfillNext
  BY <1>3 DEF cardVars, BackfillStarts, BackfillNext
<1>4. CASE \E d \in {"episodes", "research"}, date \in Date, s \in CardSession : StageStarts(d, date, s)
  BY <1>4 DEF StageStarts
<1>5. CASE Repair \/ RepairRaw \/ Recognize \/ SaveDialogue \/ LinkNext
  <2>1. work \in Stage
    BY <1>5, Places DEF Repair, RepairRaw, Recognize, SaveDialogue, LinkNext
  <2>2. CASE Repair \/ RepairRaw
    BY <2>1, <2>2 DEF Repair, RepairRaw, Stage
  <2>3. CASE Recognize
    BY <2>1, <2>3 DEF Recognize, Stage, NoStage
  <2>4. CASE SaveDialogue
    BY <2>1, <2>4 DEF SaveDialogue, Stage
  <2>5. CASE LinkNext
    BY <2>1, <2>5 DEF LinkNext, Stage, NoStage
  <2> QED
    BY <1>5, <2>2, <2>3, <2>4, <2>5
<1>6. CASE SkipArc
  BY <1>6, Places, Advances DEF SkipArc, StageInv, Stage
<1>7. CASE FillCard
  <2>1. work \in Stage /\ Append(work.new, work.at) \in Seq(Path) /\ work.todo /= <<>>
    BY <1>7, Places DEF FillCard, StageInv, Filing, Stage
  <2> QED
    BY <1>7, <2>1, Advances DEF FillCard
<1> QED
  BY <1>1, <1>2, <1>3, <1>4, <1>5, <1>6, <1>7 DEF CardNext, Links

\* Every step takes names in their order.
LEMMA NextNames ==
  ASSUME CardTypeOK, StageInv, FilesInv, NamesInv, [CardNext]_cardVars
  PROVE  NamesInv'
<1> DEFINE First(p, n) == [p EXCEPT !.copy = n]
<1>1. \A p : Earlier(p) => \A n \in 1..(p.copy - 1) : First(p, n) \in DOMAIN card'
  BY NextGrows DEF Earlier
<1>2. CASE OpenCard
  <2>1. DOMAIN card' = DOMAIN card \cup {work.at} /\ work' = [work EXCEPT !.pc = "fill"]
    BY <1>2 DEF OpenCard, Store
  <2>2. work'.pc = "fill"
    BY <1>2, <2>1, Places DEF OpenCard, Stage
  <2> QED
    BY <1>1, <1>2, <2>1, <2>2 DEF OpenCard, NamesInv, Earlier
<1>3. CASE BeginArc
  <2>1. work'.at = Here /\ UNCHANGED card
    BY <1>3, Places DEF BeginArc, Stage
  <2>2. Earlier(Here)
    BY <1>3, HereIs DEF BeginArc, Earlier
  <2> QED
    BY <2>1, <2>2 DEF NamesInv, Earlier
<1>4. CASE ~ OpenCard /\ ~ BeginArc
  <2>1. DOMAIN card' = DOMAIN card
    BY <1>4, NextFiles
  <2>2. work'.pc \in {"clean", "raw"} => work.pc \in {"clean", "raw"} /\ work'.at = work.at
    BY <1>4, Prepares
  <2> QED
    BY <2>1, <2>2 DEF NamesInv, Earlier
<1> QED
  BY <1>2, <1>3, <1>4

\* What fits, fits for good.
LEMMA FitsStay ==
  ASSUME CardTypeOK, StageInv, FilesInv, [CardNext]_cardVars
  PROVE  /\ \A p \in DOMAIN card : \A q : Follows(p, q) => Follows(p, q)'
         /\ \A p \in DOMAIN card : \A f : Fits(p, f) => Fits(p, f)'
         /\ \A l : LinkFits(l) => LinkFits(l)'
<1>1. \A p \in DOMAIN card : \A q : Follows(p, q) => Follows(p, q)'
  BY NextGrows DEF Follows
<1>2. \A p \in DOMAIN card : \A f : Fits(p, f) => Fits(p, f)'
  BY <1>1, NextGrows DEF Fits
<1>3. \A l : LinkFits(l) => LinkFits(l)'
  <2> SUFFICES ASSUME NEW l, LinkFits(l) PROVE LinkFits(l)'
    OBVIOUS
  <2>1. l.pc /= "off" => l.card \in DOMAIN card /\ l.card \in DOMAIN card'
    BY NextGrows DEF LinkFits
  <2>2. l.pc = "mark" => l.at \in DOMAIN card
    BY DEF LinkFits, Follows
  <2> QED
    BY <1>1, <1>2, <2>1, <2>2 DEF LinkFits
<1> QED
  BY <1>1, <1>2, <1>3

\* What is being written fits where it is written, cut off or not.
LEMMA WritesFit ==
  ASSUME CardTypeOK, StageInv, SavedInv, FilesInv, NEW k \in Process, NEW p, NEW g, Writes(k, p, g)
  PROVE  Fits(p, g) /\ (g /= Empty => Fits(p, Halved(g)))
<1>1. p \in DOMAIN card /\ g \in File
  BY WritesFile
<1>2. ASSUME linker[k].pc = "fill" /\ p = linker[k].card /\ g = Named(k)
      PROVE  Fits(p, g)
  <2>1. linker[k].seen \in Card /\ Fits(p, linker[k].seen) /\ \A q \in linker[k].ids : Follows(p, q)
    BY <1>2, Places DEF FilesInv, LinkFits
  <2>2. g.session = linker[k].seen.session /\ g.refs = linker[k].seen.refs /\ g.names = linker[k].ids
    BY <1>2, <2>1 DEF Named, Card
  <2>3. linker[k].seen /= Empty
    BY <2>1, NotEmpty
  <2> QED
    BY <2>1, <2>2, <2>3 DEF Fits
<1>3. ASSUME linker[k].pc = "mark" /\ p = linker[k].at /\ g = Marked(k)
      PROVE  Fits(p, g)
  <2>1. linker[k].seen \in File /\ Fits(p, linker[k].seen)
    BY <1>3, Places DEF FilesInv, LinkFits
  <2>2. linker[k].seen /= Empty =>
          /\ g.session = linker[k].seen.session /\ g.refs = linker[k].seen.refs
          /\ g.names = linker[k].seen.names
    BY <1>3, <2>1 DEF Marked, File, Card
  <2>3. linker[k].seen = Empty => g = Empty
    BY <1>3 DEF Marked
  <2> QED
    BY <2>1, <2>2, <2>3 DEF Fits
<1>4. ASSUME k = "stage" /\ work.pc = "fill" /\ p = work.at /\ g = Fresh
      PROVE  Fits(p, g)
  <2>1. g.session = p.session /\ g.names = {}
    BY <1>4 DEF Fresh, StageInv, Filing
  <2>2. \A part \in g.refs : <<p, part>> \in saved
    BY <1>4 DEF Fresh, SavedInv
  <2> QED
    BY <2>1, <2>2 DEF Fits
<1>5. Fits(p, g)
  BY <1>2, <1>3, <1>4 DEF Writes
<1>6. g /= Empty => Fits(p, Halved(g))
  <2>1. g \in Card => /\ Halved(g).session = g.session /\ Halved(g).refs = g.refs
                      /\ Halved(g).names = g.names
    BY DEF Halved, Card
  <2>2. g /= Empty => g \in Card
    BY <1>1 DEF File
  <2> QED
    BY <1>5, <2>1, <2>2 DEF Fits
<1> QED
  BY <1>5, <1>6

\* Every step saves the dialogues before the card.
LEMMA NextSaved ==
  ASSUME CardTypeOK, StageInv, SavedInv, [CardNext]_cardVars
  PROVE  SavedInv'
<1>1. CASE \E k \in Process : Links(k)
  BY <1>1, LinksKeep DEF SavedInv, Dialogued
<1>2. CASE \E k \in Process : KillCards(k)
  BY <1>2, KillKeeps DEF SavedInv, Dialogued, NoStage
<1>3. CASE UNCHANGED cardVars \/ BackfillStarts \/ BackfillNext
  BY <1>3 DEF cardVars, BackfillStarts, BackfillNext, SavedInv, Dialogued
<1>4. CASE \E d \in {"episodes", "research"}, date \in Date, s \in CardSession : StageStarts(d, date, s)
  BY <1>4 DEF StageStarts, SavedInv
<1>5. CASE Repair \/ RepairRaw \/ Recognize \/ LinkNext
  <2>1. work \in Stage
    BY <1>5, Places DEF Repair, RepairRaw, Recognize, LinkNext
  <2>2. work'.pc \notin {"raw", "fill"}
    <3>1. CASE Repair \/ RepairRaw
      BY <2>1, <3>1 DEF Repair, RepairRaw, Stage
    <3>2. CASE Recognize
      BY <2>1, <3>2 DEF Recognize, Stage, NoStage
    <3>3. CASE LinkNext
      BY <2>1, <3>3 DEF LinkNext, Stage, NoStage
    <3> QED
      BY <1>5, <3>1, <3>2, <3>3
  <2> QED
    BY <2>2 DEF SavedInv
<1>6. CASE SkipArc
  <2>1. work'.pc \notin {"raw", "fill"}
    BY <1>6, Places, Advances DEF SkipArc, StageInv, Stage
  <2> QED
    BY <2>1 DEF SavedInv
<1>7. CASE FillCard
  <2>1. work \in Stage /\ Append(work.new, work.at) \in Seq(Path) /\ work.todo /= <<>>
    BY <1>7, Places DEF FillCard, StageInv, Filing, Stage
  <2>2. work'.pc \notin {"raw", "fill"}
    BY <1>7, <2>1, Advances DEF FillCard
  <2> QED
    BY <2>2 DEF SavedInv
<1>8. CASE BeginArc
  <2>1. work \in Stage
    BY <1>8, Places DEF BeginArc
  <2>2. work'.dir = work.dir /\ work'.talk = work.talk
        /\ work'.pc = IF Dialogued THEN "clean" ELSE "raw"
    BY <1>8, <2>1 DEF BeginArc, Stage
  <2> QED
    BY <2>2 DEF SavedInv, Dialogued
<1>9. CASE SaveDialogue
  <2>1. work \in Stage
    BY <1>9, Places DEF SaveDialogue
  <2>2. work'.at = work.at /\ work'.pc = "raw"
    BY <1>9, <2>1 DEF SaveDialogue, Stage
  <2> QED
    BY <1>9, <2>2 DEF SaveDialogue, SavedInv
<1>10. CASE OpenCard
  <2>1. work \in Stage
    BY <1>10, Places DEF OpenCard
  <2>2. work'.at = work.at /\ work'.pc = "fill" /\ work'.dir = work.dir /\ work'.talk = work.talk
    BY <1>10, <2>1 DEF OpenCard, Stage
  <2> QED
    BY <1>10, <2>2 DEF OpenCard, SavedInv, Dialogued
<1> QED
  BY <1>1, <1>2, <1>3, <1>4, <1>5, <1>6, <1>7, <1>8, <1>9, <1>10 DEF CardNext, Links

\* Every step leaves in the files, and with the linkers, what fits there.
LEMMA NextFits ==
  ASSUME CardTypeOK, TurnInv, StageInv, SavedInv, FilesInv, [CardNext]_cardVars
  PROVE  FilesInv'
<1>1. /\ \A p \in DOMAIN card : \A q : Follows(p, q) => Follows(p, q)'
      /\ \A p \in DOMAIN card : \A f : Fits(p, f) => Fits(p, f)'
      /\ \A l : LinkFits(l) => LinkFits(l)'
  BY FitsStay
<1>2. ASSUME NEW k \in Process, linker'[k] = linker[k] PROVE LinkFits(linker[k])'
  <2>1. LinkFits(linker[k])
    BY DEF FilesInv
  <2> QED
    BY <1>1, <1>2, <2>1
<1>3. ASSUME NEW p \in DOMAIN card, NEW f \in File, Store(p, f), Fits(p, f)
      PROVE  \A q \in DOMAIN card' : Fits(q, card[q])'
  <2> SUFFICES ASSUME NEW q \in DOMAIN card' PROVE Fits(q, card[q])'
    OBVIOUS
  <2>1. q \in DOMAIN card /\ (card'[q] = card[q] \/ (q = p /\ card'[q] = f))
    BY <1>3, Rewritten
  <2>2. Fits(q, card[q])
    BY <2>1 DEF FilesInv
  <2> QED
    BY <1>1, <1>3, <2>1, <2>2
<1>4. ASSUME UNCHANGED card PROVE \A q \in DOMAIN card' : Fits(q, card[q])'
  <2> SUFFICES ASSUME NEW q \in DOMAIN card' PROVE Fits(q, card[q])'
    OBVIOUS
  <2>2. Fits(q, card[q]) /\ card'[q] = card[q] /\ q \in DOMAIN card
    BY <1>4 DEF FilesInv
  <2> QED
    BY <1>1, <2>2
<1>5. \A p, f : f = Empty => Fits(p, f)
  BY DEF Fits
<1>6. ASSUME NEW k \in Process, linker'[k] = NoLink PROVE LinkFits(linker[k])'
  BY <1>6 DEF LinkFits, NoLink
<1>7. Empty \in File
  BY DEF File
<1>8. ASSUME NEW k \in Process, LinkFits(linker[k])',
             \A j \in Process \ {k} : linker'[j] = linker[j]
      PROVE  \A j \in Process : LinkFits(linker[j])'
  BY <1>2, <1>8
<1>9. ASSUME NEW k \in Process, NEW p \in DOMAIN card, NEW offered \in SUBSET (DOMAIN card),
             Ask(k, p, offered), \A q \in offered \ {p} : Follows(p, q)
      PROVE  \A j \in Process : LinkFits(linker[j])'
  <2>1. \/ linker'[k] = linker[k]
        \/ linker'[k] = [pc |-> "asked", card |-> p, seen |-> card[p],
                         among |-> Candidates(p, offered)]
    BY <1>9, AskKeeps
  <2>2. \A j \in Process \ {k} : linker'[j] = linker[j]
    BY <1>9, AskKeeps
  <2>3. CASE linker'[k] = [pc |-> "asked", card |-> p, seen |-> card[p],
                           among |-> Candidates(p, offered)]
    <3>1. Fits(p, card[p]) /\ \A q \in Candidates(p, offered) : Follows(p, q)
      BY <1>9 DEF FilesInv, Candidates
    <3> DEFINE l == [pc |-> "asked", card |-> p, seen |-> card[p],
                     among |-> Candidates(p, offered)]
    <3>2. LinkFits(l)
      BY <3>1 DEF LinkFits
    <3>3. \A m : m = l => LinkFits(m)'
      <4> HIDE DEF l
      <4> QED BY <1>1, <3>2
    <3>4. LinkFits(linker[k])'
      BY <2>3, <3>3
    <3> QED
      BY <1>8, <2>2, <3>4
  <2> QED
    BY <1>2, <1>8, <2>1, <2>2, <2>3
<1>10. ASSUME UNCHANGED linker PROVE \A j \in Process : LinkFits(linker[j])'
  BY <1>2, <1>10
<1>11. CASE OpenCard
  <2>1. UNCHANGED linker /\ work.at \in Path /\ Store(work.at, Empty)
    BY <1>11 DEF OpenCard, StageInv, Filing
  <2>2. /\ DOMAIN card' = DOMAIN card \cup {work.at} /\ card'[work.at] = Empty
        /\ \A q \in DOMAIN card : q /= work.at => card'[q] = card[q]
    BY <1>7, <2>1, Stored
  <2>3. \A q \in DOMAIN card' : Fits(q, card[q])'
    <3> SUFFICES ASSUME NEW q \in DOMAIN card' PROVE Fits(q, card[q])'
      OBVIOUS
    <3>1. CASE card'[q] = Empty
      BY <3>1 DEF Fits
    <3>2. CASE card'[q] /= Empty
      <4>1. q \in DOMAIN card /\ card'[q] = card[q]
        BY <2>2, <3>2
      <4>2. Fits(q, card[q])
        BY <4>1 DEF FilesInv
      <4> QED
        BY <1>1, <4>1, <4>2
    <3> QED
      BY <3>1, <3>2
  <2> QED
    BY <1>10, <2>1, <2>3 DEF FilesInv
<1>12. CASE FillCard
  <2>1. UNCHANGED linker /\ Store(work.at, Fresh) /\ Writes("stage", work.at, Fresh) /\ "stage" \in Process
    BY <1>12 DEF FillCard, Writes, Process
  <2>2. work.at \in DOMAIN card /\ Fresh \in File /\ Fits(work.at, Fresh)
    BY <2>1, WritesFile, WritesFit
  <2>3. \A q \in DOMAIN card' : Fits(q, card[q])'
    BY <1>3, <2>1, <2>2
  <2> QED
    BY <1>10, <2>1, <2>3 DEF FilesInv
<1>13. CASE LinkNext
  <2>1. CASE UNCHANGED linker
    BY <1>4, <1>10, <1>13, <2>1 DEF FilesInv, LinkNext
  <2>2. CASE ~ (work.new = <<>> \/ work.dir = "research")
    <3> DEFINE p == work.new[1]  offered == {q \in DOMAIN card : q.dir = "episodes"}
    <3>1. Ask("stage", p, offered) /\ "stage" \in Process /\ UNCHANGED card
      BY <1>13, <2>2 DEF LinkNext, Process
    <3>2. work \in Stage /\ work /= NoStage
      BY <1>13, Places DEF LinkNext, NoStage
    <3>3. 1 \in DOMAIN work.new
      <4>1. work.new \in Seq(Path) /\ work.new /= <<>>
        BY <2>2, <3>2 DEF Stage
      <4> QED
        BY <4>1
    <3>4. p \in DOMAIN card /\ born[p] = work.no
      BY <3>2, <3>3 DEF StageInv, Newest
    <3>5. \A q \in offered \ {p} : Follows(p, q)
      BY <3>2, <3>4 DEF StageInv, Follows
    <3>6. offered \in SUBSET (DOMAIN card)
      OBVIOUS
    <3> HIDE DEF p, offered
    <3>7. \A j \in Process : LinkFits(linker[j])'
      BY <1>9, <3>1, <3>4, <3>5, <3>6
    <3> QED
      BY <1>4, <3>1, <3>7 DEF FilesInv
  <2> QED
    BY <1>13, <2>1, <2>2 DEF LinkNext
<1>14. CASE BackfillNext
  <2>1. PICK p \in backlog : Ask("operator", p, {q \in DOMAIN card : q.dir = "episodes" /\ Before(q, p)})
    BY <1>14 DEF BackfillNext
  <2> DEFINE offered == {q \in DOMAIN card : q.dir = "episodes" /\ Before(q, p)}
  <2>2. "backfill" \in disturbed /\ p \in DOMAIN card /\ "operator" \in Process
    BY <1>14 DEF BackfillNext, TurnInv, CardTypeOK, Process
  <2>3. \A q \in offered \ {p} : Follows(p, q)
    BY <2>2 DEF Follows
  <2>4. offered \in SUBSET (DOMAIN card) /\ Ask("operator", p, offered)
    BY <2>1
  <2> HIDE DEF offered
  <2>5. \A j \in Process : LinkFits(linker[j])'
    BY <1>9, <2>2, <2>3, <2>4
  <2> QED
    BY <1>4, <1>14, <2>5 DEF BackfillNext, FilesInv
<1>15. ASSUME NEW k \in Process, Links(k) PROVE FilesInv'
  <2>1. LinkFits(linker[k]) /\ linker[k].pc /= "off"
        /\ \A j \in Process \ {k} : linker'[j] = linker[j]
    BY <1>15, LinksKeep DEF FilesInv
  <2>2. linker[k].card \in DOMAIN card
    BY <2>1 DEF LinkFits
  <2>3. ASSUME LinkFits(linker'[k]), \A q \in DOMAIN card' : Fits(q, card[q])'
        PROVE  FilesInv'
    <3>1. \A l : l = linker'[k] => LinkFits(l)'
      BY <1>1, <2>3
    <3>2. LinkFits(linker[k])'
      BY <3>1
    <3> QED
      BY <1>8, <2>1, <2>3, <3>2 DEF FilesInv
  <2>4. CASE Answered(k)
    <3>1. linker'[k] = NoLink
          \/ \E ids \in SUBSET linker[k].among :
               linker'[k] = [pc |-> "named", card |-> linker[k].card, seen |-> linker[k].seen, ids |-> ids]
      BY <2>4 DEF Answered, CardTypeOK
    <3>2. LinkFits(linker'[k])
      BY <2>1, <2>4, <3>1 DEF Answered, LinkFits, NoLink
    <3> QED
      BY <1>4, <2>3, <2>4, <3>2 DEF Answered
  <2>5. CASE NameOpens(k)
    <3>1. linker'[k] = [linker[k] EXCEPT !.pc = "fill"] /\ linker[k] \in Linking
      BY <2>1, <2>5, Places DEF NameOpens, CardTypeOK
    <3>2. linker'[k].pc = "fill" /\ linker'[k].card = linker[k].card
          /\ linker'[k].seen = linker[k].seen /\ linker'[k].ids = linker[k].ids
      BY <2>5, <3>1 DEF NameOpens, Linking
    <3>3. LinkFits(linker'[k])
      BY <2>1, <2>5, <3>2 DEF NameOpens, LinkFits
    <3>4. Store(linker[k].card, Empty)
      BY <2>5 DEF NameOpens
    <3> QED
      BY <1>3, <1>5, <1>7, <2>2, <2>3, <3>3, <3>4
  <2>6. CASE NameFills(k)
    <3>1. linker'[k] = [pc |-> "patch", card |-> linker[k].card, ids |-> linker[k].ids]
      BY <2>6 DEF NameFills, CardTypeOK
    <3>2. LinkFits(linker'[k])
      BY <2>1, <2>6, <3>1 DEF NameFills, LinkFits
    <3>3. Store(linker[k].card, Named(k)) /\ Writes(k, linker[k].card, Named(k))
      BY <2>6 DEF NameFills, Writes
    <3>4. Named(k) \in File /\ Fits(linker[k].card, Named(k))
      BY <3>3, WritesFile, WritesFit
    <3> QED
      BY <1>3, <2>2, <2>3, <3>2, <3>3, <3>4
  <2>7. CASE MarkOpens(k)
    <3>1. PICK p \in linker[k].ids :
            /\ linker' = [linker EXCEPT ![k] = [pc |-> "mark", card |-> @.card, at |-> p,
                                                seen |-> card[p], ids |-> @.ids \ {p}]]
            /\ Store(p, Empty)
      BY <2>7 DEF MarkOpens
    <3>2. linker'[k] = [pc |-> "mark", card |-> linker[k].card, at |-> p,
                        seen |-> card[p], ids |-> linker[k].ids \ {p}]
      BY <3>1 DEF CardTypeOK
    <3>3. Follows(linker[k].card, p) /\ p \in DOMAIN card
      BY <2>1, <2>7, <3>1 DEF MarkOpens, LinkFits, Follows
    <3>4. Fits(p, card[p])
      BY <3>3 DEF FilesInv
    <3>5. LinkFits(linker'[k])
      BY <2>1, <2>7, <3>2, <3>3, <3>4 DEF MarkOpens, LinkFits
    <3> QED
      BY <1>3, <1>5, <1>7, <2>3, <3>1, <3>3, <3>5
  <2>8. CASE MarkFills(k)
    <3>1. linker'[k] = NoLink
          \/ linker'[k] = [pc |-> "patch", card |-> linker[k].card, ids |-> linker[k].ids]
      BY <2>8 DEF MarkFills, CardTypeOK
    <3>2. LinkFits(linker'[k])
      BY <2>1, <2>8, <3>1 DEF MarkFills, LinkFits, NoLink
    <3>3. Store(linker[k].at, Marked(k)) /\ Writes(k, linker[k].at, Marked(k))
      BY <2>8 DEF MarkFills, Writes
    <3>4. linker[k].at \in DOMAIN card /\ Marked(k) \in File /\ Fits(linker[k].at, Marked(k))
      BY <3>3, WritesFile, WritesFit
    <3> QED
      BY <1>3, <2>3, <3>2, <3>3, <3>4
  <2> QED
    BY <1>15, <2>4, <2>5, <2>6, <2>7, <2>8 DEF Links
<1>16. ASSUME NEW k \in Process, KillCards(k) PROVE FilesInv'
  <2>1. \A j \in Process : LinkFits(linker[j])'
    BY <1>6, <1>8, <1>16, KillKeeps
  <2>2. CASE UNCHANGED card
    BY <1>4, <2>1, <2>2 DEF FilesInv
  <2>3. CASE ~ UNCHANGED card
    <3>1. PICK p \in DOMAIN card, g \in File, f \in File :
            /\ Writes(k, p, g) /\ Store(p, f)
            /\ f = g \/ (g /= Empty /\ f = Halved(g))
      BY <1>16, <2>3, KillLeaves
    <3>2. Fits(p, f)
      BY <3>1, WritesFit
    <3> QED
      BY <1>3, <2>1, <3>1, <3>2 DEF FilesInv
  <2> QED
    BY <2>2, <2>3
<1>17. CASE UNCHANGED <<card, linker>>
  BY <1>4, <1>10, <1>17 DEF FilesInv
<1>18. CASE UNCHANGED cardVars \/ BackfillStarts
  BY <1>17, <1>18 DEF cardVars, BackfillStarts
<1>19. CASE \E d \in {"episodes", "research"}, date \in Date, s \in CardSession : StageStarts(d, date, s)
  BY <1>17, <1>19 DEF StageStarts
<1>20. CASE Repair \/ RepairRaw \/ Recognize \/ SkipArc \/ BeginArc \/ SaveDialogue
  BY <1>17, <1>20 DEF Repair, RepairRaw, Recognize, SkipArc, BeginArc, SaveDialogue
<1> QED
  BY <1>11, <1>12, <1>13, <1>14, <1>15, <1>16, <1>18, <1>19, <1>20 DEF CardNext, Links

\* Without an overlap one process is at work, the stage or a linker.
LEMMA Solo ==
  ASSUME CardTypeOK, TurnInv, Alone
  PROVE  /\ work /= NoStage => linker["operator"] = NoLink /\ backlog = {}
         /\ work.pc /= "link" => linker["stage"] = NoLink
         /\ \A k \in Process : linker[k].pc /= "off" =>
              /\ \A j \in Process \ {k} : linker[j] = NoLink
              /\ work.pc \in {"off", "link"}
<1>1. NoLink.pc = "off" /\ NoStage.pc = "off"
  BY DEF NoLink, NoStage
<1>2. work /= NoStage => linker["operator"] = NoLink /\ backlog = {}
  BY DEF TurnInv, Alone
<1>3. work.pc /= "link" => linker["stage"] = NoLink
  BY Places DEF TurnInv, Process
<1> QED
  BY <1>1, <1>2, <1>3 DEF Process

\* Without an overlap one file is being written at most.
LEMMA OneWriter ==
  ASSUME CardTypeOK, TurnInv, Alone, NEW j \in Process, NEW k \in Process,
         NEW p, NEW q, NEW g, NEW h, Writes(j, p, g), Writes(k, q, h)
  PROVE  j = k /\ p = q /\ g = h
<1>1. NoLink.pc = "off"
  BY DEF NoLink
<1>2. \A i \in Process : linker[i].pc /= "off" =>
        /\ \A m \in Process \ {i} : linker[m].pc = "off"
        /\ work.pc /= "fill"
  BY <1>1, Solo
<1> QED
  BY <1>2 DEF Writes

\* What a file will hold is what its writer is writing, or what it holds.
LEMMA WrittenIs ==
  CardTypeOK /\ TurnInv /\ StageInv /\ FilesInv /\ Alone =>
    /\ \A k \in Process : \A p, g : Writes(k, p, g) =>
         Written(p) = g /\ \A q : q /= p => Written(q) = card[q]
    /\ (\A k \in Process : linker[k].pc \notin {"fill", "mark"}) /\ work.pc /= "fill" =>
         \A q : Written(q) = card[q]
<1> SUFFICES ASSUME CardTypeOK, TurnInv, StageInv, FilesInv, Alone
             PROVE  /\ \A k \in Process : \A p, g : Writes(k, p, g) =>
                         Written(p) = g /\ \A q : q /= p => Written(q) = card[q]
                    /\ (\A k \in Process : linker[k].pc \notin {"fill", "mark"}) /\ work.pc /= "fill" =>
                         \A q : Written(q) = card[q]
  OBVIOUS
<1>1. ASSUME NEW k \in Process, NEW p, NEW g, Writes(k, p, g)
      PROVE  Written(p) = g /\ \A q : q /= p => Written(q) = card[q]
  <2>1. g \in File
    BY <1>1, WritesFile
  <2>2. \A j \in Process : \A q, h : Writes(j, q, h) => q = p /\ h = g
    BY <1>1, OneWriter
  <2>3. (CHOOSE h \in File : \E j \in Process : Writes(j, p, h)) = g
    BY <1>1, <2>1, <2>2
  <2>4. Written(p) = g
    BY <1>1, <2>1, <2>3 DEF Written
  <2>5. \A q : q /= p => Written(q) = card[q]
    BY <2>2 DEF Written
  <2> QED
    BY <2>4, <2>5
<1>2. ASSUME \A k \in Process : linker[k].pc \notin {"fill", "mark"}, work.pc /= "fill"
      PROVE  \A q : Written(q) = card[q]
  BY <1>2 DEF Written, Writes
<1> QED
  BY <1>1, <1>2

\* A step of one process leaves the other where it is, and moves no file on
\* which the other is at work.
LEMMA NextOpen ==
  ASSUME CardTypeOK, TurnInv, StageInv, FilesInv, OpenInv, [CardNext]_cardVars
  PROVE  OpenInv'
<1> SUFFICES ASSUME Alone'
             PROVE  /\ work'.pc = "fill" => card'[work'.at] = Empty
                    /\ \A k \in Process :
                         /\ linker'[k].pc \in {"asked", "named"} => card'[linker'[k].card] = linker'[k].seen
                         /\ linker'[k].pc = "fill" => card'[linker'[k].card] = Empty
                         /\ linker'[k].pc = "mark" => card'[linker'[k].at] = Empty
  BY DEF OpenInv
<1> DEFINE Full(k) ==
      /\ linker'[k].pc \in {"asked", "named"} => card'[linker'[k].card] = linker'[k].seen
      /\ linker'[k].pc = "fill" => card'[linker'[k].card] = Empty
      /\ linker'[k].pc = "mark" => card'[linker'[k].at] = Empty
<1>1. Alone
  BY NextGrows DEF Alone
<1>2. NoLink.pc = "off" /\ NoStage.pc = "off" /\ Empty \in File
  BY DEF NoLink, NoStage, File
<1>3. /\ work /= NoStage => linker["operator"] = NoLink /\ backlog = {}
      /\ work.pc /= "link" => linker["stage"] = NoLink
      /\ \A k \in Process : linker[k].pc /= "off" =>
           /\ \A j \in Process \ {k} : linker[j] = NoLink
           /\ work.pc \in {"off", "link"}
  BY <1>1, Solo
<1>4. /\ work.pc = "fill" => card[work.at] = Empty
      /\ \A k \in Process :
           /\ linker[k].pc \in {"asked", "named"} => card[linker[k].card] = linker[k].seen
           /\ linker[k].pc = "fill" => card[linker[k].card] = Empty
           /\ linker[k].pc = "mark" => card[linker[k].at] = Empty
  BY <1>1 DEF OpenInv
<1>5. ASSUME NEW k \in Process, linker'[k] = linker[k], UNCHANGED card \/ linker[k] = NoLink
      PROVE  Full(k)
  BY <1>2, <1>4, <1>5
<1>6. ASSUME NEW k \in Process, linker'[k] = NoLink PROVE Full(k)
  BY <1>2, <1>6
<1>7. CASE \E d \in {"episodes", "research"}, date \in Date, s \in CardSession : StageStarts(d, date, s)
  <2>1. UNCHANGED <<card, linker>> /\ work'.pc = "repair"
    BY <1>7 DEF StageStarts
  <2> QED
    BY <1>5, <2>1
<1>8. CASE Repair \/ RepairRaw \/ Recognize \/ SkipArc \/ BeginArc \/ SaveDialogue
  <2>1. UNCHANGED <<card, linker>>
    BY <1>8 DEF Repair, RepairRaw, Recognize, SkipArc, BeginArc, SaveDialogue
  <2>2. work \in Stage
    BY <1>8, Places DEF Repair, RepairRaw, Recognize, SkipArc, BeginArc, SaveDialogue
  <2>3. work'.pc /= "fill"
    <3>1. CASE Repair \/ RepairRaw
      BY <2>2, <3>1 DEF Repair, RepairRaw, Stage
    <3>2. CASE Recognize
      BY <1>2, <2>2, <3>2 DEF Recognize, Stage
    <3>3. CASE SkipArc
      BY <2>2, <3>3, Advances DEF SkipArc, StageInv, Stage
    <3>4. CASE BeginArc \/ SaveDialogue
      BY <2>2, <3>4 DEF BeginArc, SaveDialogue, Stage
    <3> QED
      BY <1>8, <3>1, <3>2, <3>3, <3>4
  <2> QED
    BY <1>5, <2>1, <2>3
<1>9. CASE OpenCard
  <2>1. work \in Stage /\ work.at \in Path /\ work.pc = "raw" /\ Store(work.at, Empty)
        /\ UNCHANGED linker
    BY <1>9, Places DEF OpenCard, StageInv, Filing
  <2>2. work'.at = work.at
    BY <1>9, <2>1 DEF OpenCard, Stage
  <2>3. card'[work.at] = Empty
    BY <1>2, <2>1, Stored
  <2>4. linker["stage"] = NoLink /\ linker["operator"] = NoLink
    BY <1>2, <1>3, <2>1
  <2> QED
    BY <1>6, <2>1, <2>2, <2>3, <2>4 DEF Process
<1>10. CASE FillCard
  <2>1. work \in Stage /\ Append(work.new, work.at) \in Seq(Path) /\ work.todo /= <<>>
        /\ UNCHANGED linker /\ work.pc = "fill"
    BY <1>10, Places DEF FillCard, StageInv, Filing, Stage
  <2>2. work'.pc /= "fill"
    BY <1>10, <2>1, Advances DEF FillCard
  <2>3. linker["stage"] = NoLink /\ linker["operator"] = NoLink
    BY <1>2, <1>3, <2>1
  <2> QED
    BY <1>6, <2>1, <2>2, <2>3 DEF Process
<1>11. ASSUME NEW k \in Process, NEW p, NEW offered, Ask(k, p, offered), UNCHANGED card
       PROVE  \A j \in Process : Full(j)
  <2>1. \A j \in Process \ {k} : Full(j)
    BY <1>5, <1>11, AskKeeps
  <2>2. CASE linker'[k] = linker[k]
    BY <1>5, <1>11, <2>1, <2>2
  <2>3. CASE linker'[k] = [pc |-> "asked", card |-> p, seen |-> card[p],
                           among |-> Candidates(p, offered)]
    <3>1. linker'[k].pc = "asked" /\ linker'[k].card = p /\ linker'[k].seen = card[p]
      BY <2>3
    <3>2. Full(k)
      BY <1>11, <3>1
    <3> QED
      BY <2>1, <3>2
  <2> QED
    BY <1>11, <2>2, <2>3, AskKeeps
<1>12. CASE LinkNext
  <2>1. UNCHANGED card /\ work'.pc /= "fill"
    <3>1. work \in Stage
      BY <1>12, Places DEF LinkNext
    <3> QED
      BY <1>2, <1>12, <3>1 DEF LinkNext, Stage
  <2>2. CASE UNCHANGED linker
    BY <1>5, <2>1, <2>2
  <2>3. CASE ~ (work.new = <<>> \/ work.dir = "research")
    <3> DEFINE p == work.new[1]  offered == {q \in DOMAIN card : q.dir = "episodes"}
    <3>1. Ask("stage", p, offered) /\ "stage" \in Process
      BY <1>12, <2>3 DEF LinkNext, Process
    <3> HIDE DEF p, offered
    <3> QED
      BY <1>11, <2>1, <3>1
  <2> QED
    BY <1>12, <2>2, <2>3 DEF LinkNext
<1>13. CASE BackfillNext
  <2>1. PICK p \in backlog : Ask("operator", p, {q \in DOMAIN card : q.dir = "episodes" /\ Before(q, p)})
    BY <1>13 DEF BackfillNext
  <2>2. UNCHANGED <<card, work>> /\ "operator" \in Process
    BY <1>13 DEF BackfillNext, Process
  <2> QED
    BY <1>4, <1>11, <2>1, <2>2
<1>14. CASE BackfillStarts \/ UNCHANGED cardVars
  <2>1. UNCHANGED <<card, work, linker>>
    BY <1>14 DEF BackfillStarts, cardVars
  <2> QED
    BY <1>4, <1>5, <2>1
<1>15. ASSUME NEW k \in Process, Links(k)
       PROVE  (work'.pc = "fill" => card'[work'.at] = Empty) /\ \A j \in Process : Full(j)
  <2>1. linker[k].pc /= "off" /\ work' = work /\ \A j \in Process \ {k} : linker'[j] = linker[j]
    BY <1>15, LinksKeep
  <2>2. work.pc /= "fill" /\ \A j \in Process \ {k} : Full(j)
    BY <1>3, <1>6, <2>1
  <2>3. LinkFits(linker[k]) /\ linker[k].card \in DOMAIN card
    BY <2>1 DEF FilesInv, LinkFits
  <2>4. Full(k)
    <3>1. CASE Answered(k)
      <4>1. linker'[k] = NoLink
            \/ \E ids \in SUBSET linker[k].among :
                 linker'[k] = [pc |-> "named", card |-> linker[k].card, seen |-> linker[k].seen, ids |-> ids]
        BY <3>1 DEF Answered, CardTypeOK
      <4>2. card[linker[k].card] = linker[k].seen /\ UNCHANGED card
        BY <1>4, <3>1 DEF Answered
      <4>3. \/ linker'[k].pc = "off"
            \/ /\ linker'[k].pc = "named" /\ linker'[k].card = linker[k].card
               /\ linker'[k].seen = linker[k].seen
        <5>1. CASE linker'[k] = NoLink
          BY <1>2, <5>1
        <5>2. ASSUME NEW ids, linker'[k] = [pc |-> "named", card |-> linker[k].card,
                                            seen |-> linker[k].seen, ids |-> ids]
              PROVE  linker'[k].pc = "named" /\ linker'[k].card = linker[k].card
                     /\ linker'[k].seen = linker[k].seen
          BY <5>2
        <5> QED
          BY <4>1, <5>1, <5>2
      <4> QED
        BY <4>2, <4>3
    <3>2. CASE NameOpens(k)
      <4>1. linker'[k] = [linker[k] EXCEPT !.pc = "fill"] /\ linker[k] \in Linking
        BY <2>1, <3>2, Places DEF NameOpens, CardTypeOK
      <4>2. linker'[k].pc = "fill" /\ linker'[k].card = linker[k].card
        BY <3>2, <4>1 DEF NameOpens, Linking
      <4>3. card'[linker[k].card] = Empty
        BY <1>2, <2>3, <3>2, Rewritten DEF NameOpens
      <4> QED
        BY <4>2, <4>3
    <3>3. CASE NameFills(k)
      <4>1. linker'[k].pc = "patch"
        BY <3>3 DEF NameFills, CardTypeOK
      <4> QED
        BY <4>1
    <3>4. CASE MarkOpens(k)
      <4>1. PICK p \in linker[k].ids :
              /\ linker' = [linker EXCEPT ![k] = [pc |-> "mark", card |-> @.card, at |-> p,
                                                  seen |-> card[p], ids |-> @.ids \ {p}]]
              /\ Store(p, Empty)
        BY <3>4 DEF MarkOpens
      <4>2. linker'[k].pc = "mark" /\ linker'[k].at = p
        BY <4>1 DEF CardTypeOK
      <4>3. p \in DOMAIN card
        BY <2>3, <3>4 DEF MarkOpens, LinkFits, Follows
      <4>4. card'[p] = Empty
        BY <1>2, <4>1, <4>3, Rewritten
      <4> QED
        BY <4>2, <4>4
    <3>5. CASE MarkFills(k)
      <4>1. linker'[k].pc \in {"off", "patch"}
        BY <1>2, <3>5 DEF MarkFills, CardTypeOK
      <4> QED
        BY <4>1
    <3> QED
      BY <1>15, <3>1, <3>2, <3>3, <3>4, <3>5 DEF Links
  <2> QED
    BY <2>1, <2>2, <2>4
<1>16. ASSUME NEW k \in Process, KillCards(k)
       PROVE  (work'.pc = "fill" => card'[work'.at] = Empty) /\ \A j \in Process : Full(j)
  <2>1. linker'[k] = NoLink /\ (\A j \in Process \ {k} : linker'[j] = linker[j])
        /\ work' = IF k = "stage" THEN NoStage ELSE work
    BY <1>16, KillKeeps
  <2>2. CASE k = "stage"
    <3>1. work /= NoStage
      BY <1>16, <2>2 DEF KillCards
    <3> QED
      BY <1>2, <1>3, <1>6, <2>1, <2>2, <3>1 DEF Process
  <2>3. CASE k = "operator"
    <3>1. linker[k] /= NoLink \/ backlog /= {}
      BY <1>16, <2>3 DEF KillCards
    <3>2. work = NoStage /\ linker["stage"] = NoLink
      BY <1>2, <1>3, <2>3, <3>1
    <3> QED
      BY <1>2, <1>6, <2>1, <2>3, <3>2 DEF Process
  <2> QED
    BY <2>2, <2>3 DEF Process
<1> QED
  BY <1>7, <1>8, <1>9, <1>10, <1>12, <1>13, <1>14, <1>15, <1>16 DEF CardNext, Links

\* A file as the linker marks it.
Mark(f) == IF f = Empty THEN Empty ELSE [f EXCEPT !.status = "superseded"]

\* What a step does to what the files hold, or will hold when they are written.
OpensNew ==
  /\ OpenCard /\ DOMAIN card' = DOMAIN card \cup {work.at}
  /\ \A q \in DOMAIN card' : Written(q)' = IF q = work.at THEN Fresh ELSE Written(q)
NamesCard(k) ==
  /\ NameOpens(k) /\ DOMAIN card' = DOMAIN card
  /\ Written(linker[k].card) = linker[k].seen
  /\ \A q \in DOMAIN card : Written(q)' = IF q = linker[k].card THEN Named(k) ELSE Written(q)
MarksCard(k, p) ==
  /\ linker[k].pc = "patch" /\ p \in linker[k].ids /\ DOMAIN card' = DOMAIN card
  /\ linker'[k] = [pc |-> "mark", card |-> linker[k].card, at |-> p,
                   seen |-> card[p], ids |-> linker[k].ids \ {p}]
  /\ UNCHANGED work
  /\ \A q \in DOMAIN card : Written(q)' = IF q = p THEN Mark(Written(q)) ELSE Written(q)
Halts(k) ==
  /\ KillCards(k) /\ DOMAIN card' = DOMAIN card
  /\ \A q \in DOMAIN card :
       \/ Written(q)' \in {Written(q), Empty}
       \/ Written(q) /= Empty /\ Written(q)' = Halved(Written(q))
Quiet ==
  \/ \E d \in {"episodes", "research"}, date \in Date, s \in CardSession : StageStarts(d, date, s)
  \/ Repair \/ RepairRaw \/ Recognize \/ SkipArc \/ BeginArc \/ SaveDialogue
  \/ FillCard \/ LinkNext \/ BackfillStarts \/ BackfillNext \/ UNCHANGED cardVars
  \/ \E k \in Process : Answered(k) \/ NameFills(k) \/ MarkFills(k)
Rests ==
  /\ DOMAIN card' = DOMAIN card
  /\ \A q \in DOMAIN card : Written(q)' = Written(q)

\* Of the steps, opening a card, naming, marking and killing change what the
\* files hold or will hold; every other step leaves that as it is.
LEMMA NextWritten ==
  ASSUME CardTypeOK, TurnInv, StageInv, SavedInv, FilesInv, OpenInv,
         (CardTypeOK /\ TurnInv /\ StageInv /\ FilesInv /\ Alone)', [CardNext]_cardVars
  PROVE  \/ OpensNew
         \/ \E k \in Process : NamesCard(k) \/ Halts(k) \/ \E p \in linker[k].ids : MarksCard(k, p)
         \/ Rests /\ Quiet
<1>1. Alone
  BY NextGrows DEF Alone
<1>2. NoLink.pc = "off" /\ NoStage.pc = "off" /\ Empty \in File
  BY DEF NoLink, NoStage, File
<1>3. /\ work /= NoStage => linker["operator"] = NoLink /\ backlog = {}
      /\ work.pc /= "link" => linker["stage"] = NoLink
      /\ \A k \in Process : linker[k].pc /= "off" =>
           /\ \A j \in Process \ {k} : linker[j] = NoLink
           /\ work.pc \in {"off", "link"}
  BY <1>1, Solo
<1>4. \A k \in Process : \A p, g : Writes(k, p, g) =>
        Written(p) = g /\ \A q : q /= p => Written(q) = card[q]
  BY <1>1, WrittenIs
<1>5. (\A k \in Process : linker[k].pc \notin {"fill", "mark"}) /\ work.pc /= "fill" =>
        \A q : Written(q) = card[q]
  BY <1>1, WrittenIs
<1>6. (\A k \in Process : \A p, g : Writes(k, p, g) =>
        Written(p) = g /\ \A q : q /= p => Written(q) = card[q])'
  BY WrittenIs, PTL
<1>7. ((\A k \in Process : linker[k].pc \notin {"fill", "mark"}) /\ work.pc /= "fill" =>
        \A q : Written(q) = card[q])'
  BY WrittenIs, PTL
<1>8. ASSUME UNCHANGED card, \A k \in Process : \A p, g : Writes(k, p, g)' <=> Writes(k, p, g)
      PROVE  Rests
  <2>1. CASE \E k \in Process : \E p, g : Writes(k, p, g)
    <3>1. PICK k \in Process : \E p, g : Writes(k, p, g)
      BY <2>1
    <3>2. PICK p, g : Writes(k, p, g)
      BY <3>1
    <3>3. Written(p) = g /\ \A q : q /= p => Written(q) = card[q]
      BY <1>4, <3>2
    <3>4. Writes(k, p, g)'
      BY <1>8, <3>2
    <3>5. Written(p)' = g /\ \A q : q /= p => Written(q)' = card'[q]
      BY <1>6, <3>4
    <3> QED
      BY <1>8, <3>3, <3>5 DEF Rests
  <2>2. CASE ~ \E k \in Process : \E p, g : Writes(k, p, g)
    <3>1. \A q : Written(q) = card[q]
      BY <2>2 DEF Written
    <3>2. ~ \E k \in Process : \E p, g : Writes(k, p, g)'
      BY <1>8, <2>2
    <3>3. \A q : Written(q)' = card'[q]
      BY <3>2 DEF Written
    <3> QED
      BY <1>8, <3>1, <3>3 DEF Rests
  <2> QED
    BY <2>1, <2>2
<1>9. ASSUME UNCHANGED <<card, linker>>, work.pc /= "fill", work'.pc /= "fill"
      PROVE  Rests
  BY <1>8, <1>9 DEF Writes, Named, Marked
<1>10. ASSUME UNCHANGED <<card>>, work.pc /= "fill", work'.pc /= "fill",
              \A k \in Process : linker[k].pc \notin {"fill", "mark"},
              \A k \in Process : linker'[k].pc \notin {"fill", "mark"}
       PROVE  Rests
  BY <1>5, <1>7, <1>10 DEF Rests
<1>11. CASE \E d \in {"episodes", "research"}, date \in Date, s \in CardSession : StageStarts(d, date, s)
  <2>1. UNCHANGED <<card, linker>> /\ work'.pc = "repair" /\ work.pc = "off"
    BY <1>2, <1>11 DEF StageStarts
  <2>2. Rests
    BY <1>9, <2>1
  <2> QED
    BY <1>11, <2>2 DEF Quiet
<1>12. CASE Repair \/ RepairRaw \/ Recognize \/ SkipArc \/ BeginArc \/ SaveDialogue
  <2>1. UNCHANGED <<card, linker>> /\ work.pc /= "fill"
    BY <1>12 DEF Repair, RepairRaw, Recognize, SkipArc, BeginArc, SaveDialogue
  <2>2. work \in Stage
    BY <1>12, Places DEF Repair, RepairRaw, Recognize, SkipArc, BeginArc, SaveDialogue
  <2>3. work'.pc /= "fill"
    <3>1. CASE Repair \/ RepairRaw
      BY <2>2, <3>1 DEF Repair, RepairRaw, Stage
    <3>2. CASE Recognize
      BY <1>2, <2>2, <3>2 DEF Recognize, Stage
    <3>3. CASE SkipArc
      BY <2>2, <3>3, Advances DEF SkipArc, StageInv, Stage
    <3>4. CASE BeginArc \/ SaveDialogue
      BY <2>2, <3>4 DEF BeginArc, SaveDialogue, Stage
    <3> QED
      BY <1>12, <3>1, <3>2, <3>3, <3>4
  <2> QED
    BY <1>9, <1>12, <2>1, <2>3 DEF Quiet
<1>13. CASE OpenCard
  <2>1. work \in Stage /\ work.at \in Path /\ work.pc = "raw" /\ Store(work.at, Empty)
        /\ UNCHANGED linker /\ work' = [work EXCEPT !.pc = "fill"]
    BY <1>13, Places DEF OpenCard, StageInv, Filing
  <2>2. linker["stage"] = NoLink /\ linker["operator"] = NoLink
    BY <1>2, <1>3, <2>1
  <2>3. \A q : Written(q) = card[q]
    <3>1. \A k \in Process : linker[k].pc \notin {"fill", "mark"}
      BY <1>2, <2>2 DEF Process
    <3> QED
      BY <1>5, <2>1, <3>1
  <2>4. /\ work'.at = work.at /\ work'.pc = "fill" /\ work'.session = work.session
        /\ work'.dir = work.dir /\ work'.talk = work.talk
    BY <2>1 DEF Stage
  <2>5. Fresh' = Fresh
    BY <2>4 DEF Fresh, Dialogued
  <2>6. \A p : p = work.at => Writes("stage", p, Fresh)'
    BY <2>4, <2>5 DEF Writes
  <2>7. \A p : p = work.at => Written(p)' = Fresh /\ \A q : q /= p => Written(q)' = card'[q]
    BY <1>6, <2>5, <2>6 DEF Process
  <2>8. DOMAIN card' = DOMAIN card \cup {work.at}
        /\ \A q \in DOMAIN card : q /= work.at => card'[q] = card[q]
    BY <1>2, <2>1, Stored
  <2>9. \A q \in DOMAIN card' : Written(q)' = IF q = work.at THEN Fresh ELSE Written(q)
    BY <2>3, <2>7, <2>8
  <2> QED
    BY <1>13, <2>8, <2>9 DEF OpensNew
<1>14. CASE FillCard
  <2>1. work \in Stage /\ Append(work.new, work.at) \in Seq(Path) /\ work.todo /= <<>>
        /\ UNCHANGED linker /\ work.pc = "fill" /\ Store(work.at, Fresh)
    BY <1>14, Places DEF FillCard, StageInv, Filing, Stage
  <2>2. work'.pc /= "fill"
    BY <1>14, <2>1, Advances DEF FillCard
  <2>3. linker["stage"] = NoLink /\ linker["operator"] = NoLink
    BY <1>2, <1>3, <2>1
  <2>4. \A q : Written(q)' = card'[q]
    <3>1. \A k \in Process : linker'[k].pc \notin {"fill", "mark"}
      BY <1>2, <2>1, <2>3 DEF Process
    <3> QED
      BY <1>7, <2>2, <3>1
  <2>5. Writes("stage", work.at, Fresh) /\ "stage" \in Process
    BY <2>1 DEF Writes, Process
  <2>6. Written(work.at) = Fresh /\ \A q : q /= work.at => Written(q) = card[q]
    BY <1>4, <2>5
  <2>7. work.at \in DOMAIN card /\ Fresh \in File
    BY <2>5, WritesFile
  <2>8. DOMAIN card' = DOMAIN card /\ card'[work.at] = Fresh
        /\ \A q \in DOMAIN card : q /= work.at => card'[q] = card[q]
    BY <2>1, <2>7, Rewritten
  <2>9. Rests
    BY <2>4, <2>6, <2>8 DEF Rests
  <2> QED
    BY <1>14, <2>9 DEF Quiet
<1>15. ASSUME NEW k \in Process, NEW p, NEW offered, Ask(k, p, offered), UNCHANGED card,
              linker[k] = NoLink, work.pc /= "fill", work'.pc /= "fill"
       PROVE  Rests
  <2>1. linker'[k].pc \in {"off", "asked"} /\ \A j \in Process \ {k} : linker'[j] = linker[j]
    <3>1. CASE linker'[k] = linker[k]
      BY <1>2, <1>15, <3>1, AskKeeps
    <3>2. CASE linker'[k] = [pc |-> "asked", card |-> p, seen |-> card[p],
                             among |-> Candidates(p, offered)]
      <4>1. linker'[k].pc = "asked"
        BY <3>2
      <4> QED
        BY <1>15, <4>1, AskKeeps
    <3> QED
      BY <1>15, <3>1, <3>2, AskKeeps
  <2>2. \A j \in Process : \A q, g : Writes(j, q, g)' <=> Writes(j, q, g)
    <3> SUFFICES ASSUME NEW j \in Process, NEW q, NEW g
                 PROVE  Writes(j, q, g)' <=> Writes(j, q, g)
      OBVIOUS
    <3>1. CASE j = k
      BY <1>2, <1>15, <2>1, <3>1 DEF Writes
    <3>2. CASE j /= k
      BY <1>15, <2>1, <3>2 DEF Writes, Named, Marked
    <3> QED
      BY <3>1, <3>2
  <2> QED
    BY <1>8, <1>15, <2>2
<1>16. CASE LinkNext
  <2>1. UNCHANGED card /\ work'.pc /= "fill" /\ work.pc /= "fill"
    <3>1. work \in Stage
      BY <1>16, Places DEF LinkNext
    <3> QED
      BY <1>2, <1>16, <3>1 DEF LinkNext, Stage
  <2>2. CASE UNCHANGED linker
    BY <1>9, <1>16, <2>1, <2>2 DEF Quiet
  <2>3. CASE ~ (work.new = <<>> \/ work.dir = "research")
    <3> DEFINE p == work.new[1]  offered == {q \in DOMAIN card : q.dir = "episodes"}
    <3>1. Ask("stage", p, offered) /\ "stage" \in Process /\ linker["stage"] = NoLink
      BY <1>16, <2>3 DEF LinkNext, Process
    <3> HIDE DEF p, offered
    <3>2. Rests
      BY <1>15, <2>1, <3>1
    <3> QED
      BY <1>16, <3>2 DEF Quiet
  <2> QED
    BY <1>16, <2>2, <2>3 DEF LinkNext
<1>17. CASE BackfillNext
  <2>1. PICK p \in backlog : Ask("operator", p, {q \in DOMAIN card : q.dir = "episodes" /\ Before(q, p)})
    BY <1>17 DEF BackfillNext
  <2>2. UNCHANGED <<card, work>> /\ "operator" \in Process /\ linker["operator"] = NoLink
    BY <1>17 DEF BackfillNext, Process
  <2>3. work.pc /= "fill"
    BY <1>2, <1>3, <1>17 DEF BackfillNext
  <2>4. Rests
    BY <1>15, <2>1, <2>2, <2>3
  <2> QED
    BY <1>17, <2>4 DEF Quiet
<1>18. CASE BackfillStarts \/ UNCHANGED cardVars
  <2>1. UNCHANGED <<card, work, linker>>
    BY <1>18 DEF BackfillStarts, cardVars
  <2>2. Rests
    BY <1>8, <2>1 DEF Writes, Named, Marked, Fresh, Dialogued
  <2> QED
    BY <1>18, <2>2 DEF Quiet
<1>19. ASSUME NEW k \in Process, Links(k)
       PROVE  /\ linker[k].pc /= "off" /\ work' = work /\ work.pc /= "fill"
              /\ \A j \in Process \ {k} : linker[j].pc = "off" /\ linker'[j].pc = "off"
              /\ linker[k].card \in DOMAIN card /\ LinkFits(linker[k]) /\ linker[k] \in Linking
  <2>1. linker[k].pc /= "off" /\ work' = work /\ \A j \in Process \ {k} : linker'[j] = linker[j]
    BY <1>19, LinksKeep
  <2>2. work.pc /= "fill" /\ \A j \in Process \ {k} : linker[j].pc = "off" /\ linker'[j].pc = "off"
    BY <1>2, <1>3, <2>1
  <2>3. LinkFits(linker[k]) /\ linker[k].card \in DOMAIN card
    BY <2>1 DEF FilesInv, LinkFits
  <2> QED
    BY <2>1, <2>2, <2>3, Places
<1>20. ASSUME NEW k \in Process, Answered(k) PROVE Rests
  <2>1. linker'[k].pc \in {"off", "named"} /\ UNCHANGED card
    BY <1>2, <1>20 DEF Answered, CardTypeOK
  <2>2. \A j \in Process : linker[j].pc \notin {"fill", "mark"} /\ linker'[j].pc \notin {"fill", "mark"}
    BY <1>19, <1>20, <2>1 DEF Answered, Links
  <2>3. work.pc /= "fill" /\ work'.pc /= "fill"
    BY <1>19, <1>20 DEF Links
  <2> QED
    BY <1>10, <2>1, <2>2, <2>3
<1>21. ASSUME NEW k \in Process, NEW p, NEW g, Writes(k, p, g), Store(p, g), work' = work, work.pc /= "fill",
              \A j \in Process : linker'[j].pc \notin {"fill", "mark"}
       PROVE  Rests
  <2>1. p \in DOMAIN card /\ g \in File
    BY <1>21, WritesFile
  <2>2. \A q : Written(q)' = card'[q]
    BY <1>7, <1>21
  <2>3. Written(p) = g /\ \A q : q /= p => Written(q) = card[q]
    BY <1>4, <1>21
  <2>4. DOMAIN card' = DOMAIN card /\ card'[p] = g
        /\ \A q \in DOMAIN card : q /= p => card'[q] = card[q]
    BY <1>21, <2>1, Rewritten
  <2> QED
    BY <2>2, <2>3, <2>4 DEF Rests
<1>22. ASSUME NEW k \in Process, NameFills(k) PROVE Rests
  <2>1. linker'[k].pc = "patch" /\ Store(linker[k].card, Named(k))
        /\ Writes(k, linker[k].card, Named(k))
    BY <1>22 DEF NameFills, CardTypeOK, Writes
  <2>2. \A j \in Process : linker'[j].pc \notin {"fill", "mark"}
    BY <1>19, <1>22, <2>1 DEF Links
  <2> QED
    BY <1>19, <1>21, <1>22, <2>1, <2>2 DEF Links
<1>23. ASSUME NEW k \in Process, MarkFills(k) PROVE Rests
  <2>1. linker'[k].pc \in {"off", "patch"} /\ Store(linker[k].at, Marked(k))
        /\ Writes(k, linker[k].at, Marked(k))
    BY <1>2, <1>23 DEF MarkFills, CardTypeOK, Writes
  <2>2. \A j \in Process : linker'[j].pc \notin {"fill", "mark"}
    BY <1>19, <1>23, <2>1 DEF Links
  <2> QED
    BY <1>19, <1>21, <1>23, <2>1, <2>2 DEF Links
<1>24. ASSUME NEW k \in Process, NameOpens(k) PROVE NamesCard(k)
  <2>1. linker'[k] = [linker[k] EXCEPT !.pc = "fill"] /\ linker[k] \in Linking
    BY <1>19, <1>24 DEF NameOpens, CardTypeOK, Links
  <2>2. linker'[k].pc = "fill" /\ linker'[k].card = linker[k].card
        /\ linker'[k].seen = linker[k].seen /\ linker'[k].ids = linker[k].ids
    BY <1>24, <2>1 DEF NameOpens, Linking
  <2>3. Named(k)' = Named(k)
    BY <2>2 DEF Named
  <2>4. \A p : p = linker[k].card => Writes(k, p, Named(k))'
    BY <2>2 DEF Writes
  <2>5. \A p : p = linker[k].card =>
          Written(p)' = Named(k) /\ \A q : q /= p => Written(q)' = card'[q]
    BY <1>6, <2>3, <2>4
  <2>6. \A q : Written(q) = card[q]
    <3>1. \A j \in Process : linker[j].pc \notin {"fill", "mark"}
      BY <1>19, <1>24 DEF NameOpens, Links
    <3> QED
      BY <1>5, <1>19, <1>24, <3>1 DEF Links
  <2>7. DOMAIN card' = DOMAIN card /\ \A q \in DOMAIN card : q /= linker[k].card => card'[q] = card[q]
    <3>1. linker[k].card \in DOMAIN card /\ Store(linker[k].card, Empty)
      BY <1>19, <1>24 DEF NameOpens, Links
    <3> QED
      BY <1>2, <3>1, Rewritten
  <2>8. card[linker[k].card] = linker[k].seen
    BY <1>1, <1>24 DEF NameOpens, OpenInv
  <2>9. \A q \in DOMAIN card : Written(q)' = IF q = linker[k].card THEN Named(k) ELSE Written(q)
    BY <2>5, <2>6, <2>7
  <2> QED
    BY <1>24, <2>6, <2>7, <2>8, <2>9 DEF NamesCard
<1>25. ASSUME NEW k \in Process, MarkOpens(k) PROVE \E p \in linker[k].ids : MarksCard(k, p)
  <2>1. PICK p \in linker[k].ids :
          /\ linker' = [linker EXCEPT ![k] = [pc |-> "mark", card |-> @.card, at |-> p,
                                              seen |-> card[p], ids |-> @.ids \ {p}]]
          /\ Store(p, Empty)
    BY <1>25 DEF MarkOpens
  <2>2. linker'[k] = [pc |-> "mark", card |-> linker[k].card, at |-> p,
                      seen |-> card[p], ids |-> linker[k].ids \ {p}]
    BY <2>1 DEF CardTypeOK
  <2>3. linker'[k].pc = "mark" /\ linker'[k].at = p /\ linker'[k].seen = card[p]
    BY <2>2
  <2>4. Marked(k)' = Mark(card[p])
    BY <2>3 DEF Marked, Mark
  <2>5. \A f : f = Mark(card[p]) =>
          Written(p)' = f /\ \A q : q /= p => Written(q)' = card'[q]
    <3>1. \A f : f = Mark(card[p]) => Writes(k, p, f)'
      BY <2>3, <2>4 DEF Writes
    <3> QED
      BY <1>6, <3>1
  <2>6. \A q : Written(q) = card[q]
    <3>1. \A j \in Process : linker[j].pc \notin {"fill", "mark"}
      BY <1>19, <1>25 DEF MarkOpens, Links
    <3> QED
      BY <1>5, <1>19, <1>25, <3>1 DEF Links
  <2>7. DOMAIN card' = DOMAIN card /\ \A q \in DOMAIN card : q /= p => card'[q] = card[q]
    <3>1. p \in DOMAIN card
      BY <1>19, <1>25 DEF MarkOpens, Links, LinkFits, Follows
    <3> QED
      BY <1>2, <2>1, <3>1, Rewritten
  <2>8. \A q \in DOMAIN card : Written(q)' = IF q = p THEN Mark(Written(q)) ELSE Written(q)
    BY <2>5, <2>6, <2>7
  <2>9. linker[k].pc = "patch" /\ UNCHANGED work
    BY <1>25 DEF MarkOpens
  <2> QED
    BY <2>2, <2>7, <2>8, <2>9 DEF MarksCard
<1>26. ASSUME NEW k \in Process, KillCards(k) PROVE Halts(k)
  <2>1. linker'[k] = NoLink /\ (\A j \in Process \ {k} : linker'[j] = linker[j])
        /\ work' = IF k = "stage" THEN NoStage ELSE work
    BY <1>26, KillKeeps
  <2>2. work'.pc /= "fill" /\ \A j \in Process : linker'[j].pc \notin {"fill", "mark"}
    <3>1. CASE k = "stage"
      <4>1. work /= NoStage
        BY <1>26, <3>1 DEF KillCards
      <4> QED
        BY <1>2, <1>3, <2>1, <3>1, <4>1 DEF Process
    <3>2. CASE k = "operator"
      <4>1. linker[k] /= NoLink \/ backlog /= {}
        BY <1>26, <3>2 DEF KillCards
      <4>2. work = NoStage /\ linker["stage"] = NoLink
        BY <1>2, <1>3, <3>2, <4>1
      <4> QED
        BY <1>2, <2>1, <3>2, <4>2 DEF Process
    <3> QED
      BY <3>1, <3>2 DEF Process
  <2>3. \A q : Written(q)' = card'[q]
    BY <1>7, <2>2
  <2>4. CASE UNCHANGED card
    <3>1. \A q : Written(q) = card[q] \/ card[q] = Empty
      <4>1. CASE \E j \in Process : \E p, g : Writes(j, p, g)
        <5>1. PICK j \in Process : \E p, g : Writes(j, p, g)
          BY <4>1
        <5>2. PICK p, g : Writes(j, p, g)
          BY <5>1
        <5>3. card[p] = Empty
          BY <1>1, <5>2 DEF Writes, OpenInv
        <5>4. \A q : q /= p => Written(q) = card[q]
          BY <1>4, <5>2
        <5> QED
          BY <5>3, <5>4
      <4>2. CASE ~ \E j \in Process : \E p, g : Writes(j, p, g)
        BY <4>2 DEF Written
      <4> QED
        BY <4>1, <4>2
    <3> QED
      BY <1>26, <2>3, <2>4, <3>1 DEF Halts
  <2>5. CASE ~ UNCHANGED card
    <3>1. PICK p \in DOMAIN card, g \in File, f \in File :
            /\ Writes(k, p, g) /\ Store(p, f)
            /\ f = g \/ (g /= Empty /\ f = Halved(g))
      BY <1>26, <2>5, KillLeaves
    <3>2. Written(p) = g /\ \A q : q /= p => Written(q) = card[q]
      BY <1>4, <3>1
    <3>3. DOMAIN card' = DOMAIN card /\ card'[p] = f
          /\ \A q \in DOMAIN card : q /= p => card'[q] = card[q]
      BY <3>1, Rewritten
    <3> QED
      BY <1>26, <2>3, <3>1, <3>2, <3>3 DEF Halts
  <2> QED
    BY <2>4, <2>5
<1> QED
  BY <1>11, <1>12, <1>13, <1>14, <1>16, <1>17, <1>18, <1>20, <1>22, <1>23, <1>24, <1>25, <1>26
     DEF CardNext, Quiet

\* Two files of an arc differ in their numbers.
LEMMA ArcNames ==
  ASSUME NEW p \in Path, NEW q \in Path, SameArc(p, q)
  PROVE  [p EXCEPT !.copy = q.copy] = q
  BY DEF SameArc, Path

\* Where the stage begins a card the arc has no file that holds one.
LEMMA BeginsAlone ==
  ASSUME CardTypeOK, StageInv, NamesInv, FilesInv, BeginArc,
         NEW q \in DOMAIN card, SameArc(q, Here)
  PROVE  card[q] = Empty
<1>1. /\ Here \in Path /\ Here.session = work.session /\ Here \notin DOMAIN card
      /\ \A n \in 1..(Here.copy - 1) :
           [Here EXCEPT !.copy = n] \in DOMAIN card
           /\ ~ Owned([Here EXCEPT !.copy = n], work.session)
  BY HereIs DEF BeginArc
<1>2. q \in Path /\ SameArc(Here, q)
  BY DEF CardTypeOK, SameArc
<1>3. [Here EXCEPT !.copy = q.copy] = q /\ [q EXCEPT !.copy = Here.copy] = Here
  BY <1>1, <1>2, ArcNames
<1>4. q.copy \in Count /\ Here.copy \in Count /\ q.session = Here.session
  <2>1. q.session = Here.session
    BY <1>1, <1>3 DEF Path
  <2> QED
    BY <1>1, <1>2, <2>1 DEF Path
<1>5. CASE q.copy < Here.copy
  <2>1. ~ Owned(q, work.session)
    BY <1>1, <1>3, <1>4, <1>5 DEF Count
  <2>2. Fits(q, card[q])
    BY DEF FilesInv
  <2> QED
    BY <1>1, <1>4, <2>1, <2>2 DEF Owned, Parses, Fits
<1>6. CASE Here.copy < q.copy
  <2>1. Earlier(q)
    BY DEF NamesInv
  <2>2. [q EXCEPT !.copy = Here.copy] \in DOMAIN card
    BY <1>4, <1>6, <2>1 DEF Earlier, Count
  <2> QED
    BY <1>1, <1>3, <2>2
<1>7. CASE q.copy = Here.copy
  <2>1. q = Here
    BY <1>1, <1>3, <1>7 DEF Path
  <2> QED
    BY <1>1, <2>1
<1> QED
  BY <1>4, <1>5, <1>6, <1>7 DEF Count

\* Every step leaves an arc with one card.
LEMMA NextOne ==
  ASSUME CardTypeOK, TurnInv, StageInv, NamesInv, SavedInv, FilesInv, OpenInv, OneInv,
         (CardTypeOK /\ TurnInv /\ StageInv /\ FilesInv)', [CardNext]_cardVars
  PROVE  OneInv'
<1> SUFFICES ASSUME Alone'
             PROVE  /\ \A p, q \in DOMAIN card' :
                         Written(p)' /= Empty /\ Written(q)' /= Empty /\ SameArc(p, q) => p = q
                    /\ work'.pc \in {"clean", "raw"} =>
                         \A q \in DOMAIN card' : SameArc(q, work'.at) => Written(q)' = Empty
  BY DEF OneInv, SameArc
<1>1. Alone
  BY NextGrows DEF Alone
<1>2. /\ \A p, q \in DOMAIN card :
           Written(p) /= Empty /\ Written(q) /= Empty /\ SameArc(p, q) => p = q
      /\ work.pc \in {"clean", "raw"} =>
           \A q \in DOMAIN card : SameArc(q, work.at) => Written(q) = Empty
  BY <1>1 DEF OneInv
<1>3. \A p, q : SameArc(p, q) => SameArc(q, p)
  BY DEF SameArc
<1>4. CASE OpensNew
  <2>1. OpenCard /\ DOMAIN card' = DOMAIN card \cup {work.at} /\ work.pc = "raw"
        /\ \A q \in DOMAIN card' : Written(q)' = IF q = work.at THEN Fresh ELSE Written(q)
    BY <1>4 DEF OpensNew, OpenCard
  <2>2. work'.pc = "fill"
    BY <2>1, Places DEF OpenCard, Stage
  <2>3. \A q \in DOMAIN card : SameArc(q, work.at) => Written(q) = Empty
    BY <1>2, <2>1
  <2>4. ASSUME NEW p \in DOMAIN card', NEW q \in DOMAIN card',
               Written(p)' /= Empty, Written(q)' /= Empty, SameArc(p, q)
        PROVE  p = q
    <3>1. CASE p /= work.at /\ q /= work.at
      BY <1>2, <2>1, <2>4, <3>1
    <3>2. CASE p = work.at \/ q = work.at
      BY <1>3, <2>1, <2>3, <2>4, <3>2
    <3> QED
      BY <3>1, <3>2
  <2> QED
    BY <2>2, <2>4
<1>5. ASSUME DOMAIN card' = DOMAIN card, ~ OpenCard,
             \A q \in DOMAIN card : Written(q)' /= Empty => Written(q) /= Empty
      PROVE  /\ \A p, q \in DOMAIN card' :
                  Written(p)' /= Empty /\ Written(q)' /= Empty /\ SameArc(p, q) => p = q
             /\ work'.pc \in {"clean", "raw"} =>
                  \A q \in DOMAIN card' : SameArc(q, work'.at) => Written(q)' = Empty
  <2>1. \A p, q \in DOMAIN card' :
          Written(p)' /= Empty /\ Written(q)' /= Empty /\ SameArc(p, q) => p = q
    BY <1>2, <1>5
  <2>2. CASE ~ BeginArc
    <3>1. work'.pc \in {"clean", "raw"} => work.pc \in {"clean", "raw"} /\ work'.at = work.at
      BY <1>5, <2>2, Prepares
    <3> QED
      BY <1>2, <1>5, <2>1, <3>1
  <2>3. CASE BeginArc
    <3>1. work \in Stage /\ work.pc = "card"
      BY <2>3, Places DEF BeginArc
    <3>2. work'.at = Here
      BY <2>3, <3>1 DEF BeginArc, Stage
    <3>3. \A q \in DOMAIN card : SameArc(q, Here) => card[q] = Empty
      BY <2>3, BeginsAlone
    <3>4. \A k \in Process : linker[k].pc \notin {"fill", "mark"}
      BY <1>1, <3>1, Solo DEF Process, NoLink, NoStage
    <3>5. \A q : Written(q) = card[q]
      BY <1>1, <3>1, <3>4, WrittenIs
    <3> QED
      BY <1>5, <2>1, <3>2, <3>3, <3>5
  <2> QED
    BY <2>2, <2>3
<1>6. ASSUME NEW k \in Process, NamesCard(k)
      PROVE  DOMAIN card' = DOMAIN card /\ \A q \in DOMAIN card : Written(q)' /= Empty => Written(q) /= Empty
  <2>1. linker[k].seen /= Empty
    BY <1>6, Places, NotEmpty DEF NamesCard, NameOpens
  <2> QED
    BY <1>6, <2>1 DEF NamesCard
<1>7. ASSUME NEW k \in Process, NEW p \in linker[k].ids, MarksCard(k, p)
      PROVE  DOMAIN card' = DOMAIN card /\ \A q \in DOMAIN card : Written(q)' /= Empty => Written(q) /= Empty
  BY <1>7 DEF MarksCard, Mark
<1>8. ASSUME NEW k \in Process, Halts(k)
      PROVE  DOMAIN card' = DOMAIN card /\ \A q \in DOMAIN card : Written(q)' /= Empty => Written(q) /= Empty
  BY <1>8 DEF Halts
<1>9. DOMAIN card' = DOMAIN card => ~ OpenCard
  BY DEF OpenCard, Store, StageInv, Filing
<1>10. CASE ~ OpensNew
  <2>1. \/ \E k \in Process : NamesCard(k) \/ Halts(k) \/ \E p \in linker[k].ids : MarksCard(k, p)
        \/ Rests
    BY <1>10, NextWritten
  <2>2. DOMAIN card' = DOMAIN card /\ \A q \in DOMAIN card : Written(q)' /= Empty => Written(q) /= Empty
    BY <1>6, <1>7, <1>8, <2>1 DEF Rests
  <2> QED
    BY <1>5, <1>9, <2>2
<1> QED
  BY <1>4, <1>10

\* Every step leaves what is superseded named.
LEMMA NextNamed ==
  ASSUME CardTypeOK, TurnInv, StageInv, NamesInv, SavedInv, FilesInv, OpenInv, NamedInv,
         (CardTypeOK /\ TurnInv /\ StageInv /\ FilesInv)', [CardNext]_cardVars
  PROVE  NamedInv'
<1> DEFINE Named1 == \A p \in DOMAIN card : Written(p).status = "superseded" =>
                       \E q \in DOMAIN card : p \in Written(q).names
           New1 == work /= NoStage => \A i \in DOMAIN work.new : Written(work.new[i]).names = {}
           l == linker["stage"]
           Link1 == /\ l.pc \in {"asked", "named", "fill"} => l.seen.names = {}
                    /\ l.pc \in {"patch", "mark"} => l.ids \subseteq Written(l.card).names
                    /\ l.pc = "mark" => l.at \in Written(l.card).names
<1> SUFFICES ASSUME Alone', "backfill" \notin disturbed',
                    ~ \E p \in DOMAIN card' : Written(p)' = Empty
             PROVE  (Named1 /\ New1 /\ Link1)'
  BY DEF NamedInv
<1>1. Alone /\ "backfill" \notin disturbed
  BY NextGrows DEF Alone
<1>2. linker["operator"] = NoLink /\ backlog = {}
      /\ linker'["operator"] = NoLink
  BY <1>1 DEF TurnInv
<1>3. NoLink.pc = "off" /\ NoStage.pc = "off" /\ "stage" \in Process
  BY DEF NoLink, NoStage, Process
<1>4. ~ \E p \in DOMAIN card : Written(p) = Empty
  <2>1. CASE OpensNew
    <3>1. \A q \in DOMAIN card : q /= work.at
      BY <2>1 DEF OpensNew, OpenCard, StageInv, Filing
    <3> QED
      BY <2>1, <3>1 DEF OpensNew
  <2>2. ASSUME NEW k \in Process, NamesCard(k)
        PROVE  \A q \in DOMAIN card : Written(q) = Empty => Written(q)' = Empty
    <3>1. linker[k].seen /= Empty
      BY <2>2, Places, NotEmpty DEF NamesCard, NameOpens
    <3> QED
      BY <2>2, <3>1 DEF NamesCard
  <2>3. ASSUME NEW k \in Process, NEW p \in linker[k].ids, MarksCard(k, p)
        PROVE  \A q \in DOMAIN card : Written(q) = Empty => Written(q)' = Empty
    BY <2>3 DEF MarksCard, Mark
  <2>4. ASSUME NEW k \in Process, Halts(k)
        PROVE  \A q \in DOMAIN card : Written(q) = Empty => Written(q)' = Empty
    BY <2>4 DEF Halts
  <2>5. CASE Rests
    BY <2>5 DEF Rests
  <2> QED
    BY <2>1, <2>2, <2>3, <2>4, <2>5, NextWritten, NextGrows DEF NamesCard, MarksCard, Halts
<1>5. Named1 /\ New1 /\ Link1
  BY <1>1, <1>4 DEF NamedInv
<1>6. \A p \in DOMAIN card : Written(p) \in Card
  <2>1. \A p \in DOMAIN card : Written(p) \in File
    BY DEF Written, CardTypeOK
  <2> QED
    BY <1>4, <2>1 DEF File
<1>7. /\ work /= NoStage => \A i \in DOMAIN work.new : work.new[i] \in DOMAIN card
      /\ l.pc /= "off" => l.card \in DOMAIN card /\ \A i \in DOMAIN work.new : work.new[i] /= l.card
      /\ l.pc /= "off" => work.pc = "link" /\ work /= NoStage
  BY <1>3 DEF StageInv, Newest, TurnInv
<1> HIDE DEF Named1, New1, Link1, l
<1>8. CASE OpensNew
  <2>1. /\ OpenCard /\ DOMAIN card' = DOMAIN card \cup {work.at}
        /\ work.pc = "raw" /\ UNCHANGED linker /\ work.at \notin DOMAIN card
        /\ \A q \in DOMAIN card' : Written(q)' = IF q = work.at THEN Fresh ELSE Written(q)
    BY <1>8 DEF OpensNew, OpenCard, StageInv, Filing
  <2>2. work \in Stage /\ work'.new = work.new /\ l.pc = "off" /\ work /= NoStage
    BY <1>3, <1>7, <2>1, Places DEF OpenCard, Stage
  <2>3. Link1'
    BY <2>1, <2>2 DEF Link1, l
  <2>4. New1'
    BY <1>5, <1>7, <2>1, <2>2 DEF New1
  <2>5. Named1'
    <3>1. Fresh.status /= "superseded"
      BY DEF Fresh
    <3>2. \A p \in DOMAIN card : Written(p)' = Written(p)
      BY <2>1
    <3> QED
      BY <1>5, <2>1, <3>1, <3>2 DEF Named1
  <2> QED
    BY <2>3, <2>4, <2>5
<1>9. ASSUME NEW k \in Process, NamesCard(k) PROVE (Named1 /\ New1 /\ Link1)'
  <2>1. k = "stage"
    BY <1>2, <1>3, <1>9 DEF NamesCard, NameOpens, Process
  <2>2. /\ l.pc = "named" /\ work' = work /\ DOMAIN card' = DOMAIN card
        /\ l \in Linking /\ l.seen \in Card /\ linker' = [linker EXCEPT !["stage"].pc = "fill"]
        /\ Written(l.card) = l.seen /\ l.seen.names = {}
        /\ \A q \in DOMAIN card : Written(q)' = IF q = l.card THEN Named("stage") ELSE Written(q)
    BY <1>3, <1>5, <1>9, <2>1, Places DEF NamesCard, NameOpens, Link1, l
  <2>3. linker'["stage"].pc = "fill" /\ linker'["stage"].seen = l.seen
    BY <1>3, <2>2 DEF l, Linking, CardTypeOK
  <2>4. Link1'
    BY <2>2, <2>3 DEF Link1, l
  <2>5. New1'
    BY <1>5, <1>7, <2>2 DEF New1
  <2>6. Named1'
    <3>1. Named("stage").status = l.seen.status
      BY <2>2 DEF Named, Card, l
    <3>2. \A p \in DOMAIN card : Written(p)'.status = Written(p).status
      BY <2>2, <3>1
    <3>3. \A q \in DOMAIN card : Written(q).names /= {} => Written(q)' = Written(q)
      BY <2>2
    <3> QED
      BY <1>5, <2>2, <3>2, <3>3 DEF Named1
  <2> QED
    BY <2>4, <2>5, <2>6
<1>10. ASSUME NEW k \in Process, NEW p \in linker[k].ids, MarksCard(k, p) PROVE (Named1 /\ New1 /\ Link1)'
  <2>1. k = "stage"
    BY <1>2, <1>3, <1>10 DEF MarksCard, Process
  <2>2. /\ l.pc = "patch" /\ p \in l.ids /\ work' = work /\ DOMAIN card' = DOMAIN card
        /\ linker'["stage"] = [pc |-> "mark", card |-> l.card, at |-> p,
                               seen |-> card[p], ids |-> l.ids \ {p}]
        /\ l.ids \subseteq Written(l.card).names
        /\ \A q \in DOMAIN card : Written(q)' = IF q = p THEN Mark(Written(q)) ELSE Written(q)
    BY <1>5, <1>10, <2>1 DEF MarksCard, Link1, l
  <2>3. p \in DOMAIN card /\ p /= l.card /\ l.card \in DOMAIN card
    <3>1. LinkFits(l)
      BY <1>3 DEF FilesInv, l
    <3> QED
      BY <2>2, <3>1 DEF LinkFits, Follows
  <2>4. \A q \in DOMAIN card : Written(q)'.names = Written(q).names
                               /\ (q /= p => Written(q)'.status = Written(q).status)
    BY <1>6, <2>2, NotEmpty DEF Mark, Card
  <2>5. Link1'
    <3>1. linker'["stage"].pc = "mark" /\ linker'["stage"].card = l.card
          /\ linker'["stage"].at = p /\ linker'["stage"].ids = l.ids \ {p}
      BY <2>2
    <3>2. \A c : c = l.card => Written(c)'.names = Written(l.card).names
      BY <2>3, <2>4
    <3> QED
      BY <2>2, <3>1, <3>2 DEF Link1, l
  <2>6. New1'
    BY <1>5, <1>7, <2>2, <2>4 DEF New1
  <2>7. Named1'
    BY <1>5, <2>2, <2>3, <2>4 DEF Named1
  <2> QED
    BY <2>5, <2>6, <2>7
<1>11. ASSUME NEW k \in Process, Halts(k) PROVE (Named1 /\ New1 /\ Link1)'
  <2>1. k = "stage"
    BY <1>2, <1>11 DEF Halts, KillCards, Process
  <2>2. work' = NoStage /\ linker'["stage"] = NoLink
    BY <1>11, <2>1, KillKeeps DEF Halts
  <2>3. New1' /\ Link1'
    BY <1>3, <2>2 DEF New1, Link1, l
  <2>4. DOMAIN card' = DOMAIN card
        /\ \A q \in DOMAIN card : Written(q)'.names = Written(q).names
                                  /\ Written(q)'.status = Written(q).status
    <3>1. \A f \in Card : Halved(f).names = f.names /\ Halved(f).status = f.status
      BY DEF Halved, Card
    <3>2. DOMAIN card' = DOMAIN card
          /\ \A q \in DOMAIN card : Written(q)' = Written(q) \/ Written(q)' = Halved(Written(q))
      BY <1>11 DEF Halts
    <3> QED
      BY <1>6, <3>1, <3>2
  <2>5. Named1'
    BY <1>5, <2>4 DEF Named1
  <2> QED
    BY <2>3, <2>5
<1>12. CASE Rests /\ Quiet
  <2>1. DOMAIN card' = DOMAIN card /\ \A q \in DOMAIN card : Written(q)' = Written(q)
    BY <1>12 DEF Rests
  <2>2. Named1'
    BY <1>5, <2>1 DEF Named1
  <2>3. ASSUME work' = NoStage \/ (work /= NoStage /\ work'.new = work.new) PROVE New1'
    BY <1>5, <1>7, <2>1, <2>3 DEF New1
  <2>4. ASSUME linker'["stage"].pc = "off" PROVE Link1'
    BY <2>4 DEF Link1, l
  <2>5. CASE \E d \in {"episodes", "research"}, date \in Date, s \in CardSession : StageStarts(d, date, s)
    <3>1. UNCHANGED linker /\ work'.new = <<>> /\ work = NoStage
      BY <2>5 DEF StageStarts
    <3>2. linker'["stage"].pc = "off"
      BY <1>3, <1>7, <3>1 DEF l
    <3>3. New1'
      BY <3>1 DEF New1
    <3> QED
      BY <2>2, <2>4, <3>2, <3>3
  <2>6. CASE Repair \/ RepairRaw \/ Recognize \/ SkipArc \/ BeginArc \/ SaveDialogue
    <3>1. UNCHANGED linker /\ work.pc \notin {"off", "link"}
      BY <2>6 DEF Repair, RepairRaw, Recognize, SkipArc, BeginArc, SaveDialogue
    <3>2. work \in Stage /\ work /= NoStage /\ linker'["stage"].pc = "off"
      BY <1>3, <1>7, <3>1, Places DEF l
    <3>3. work' = NoStage \/ work'.new = work.new
      <4>1. CASE Repair \/ RepairRaw \/ BeginArc \/ SaveDialogue
        BY <3>2, <4>1 DEF Repair, RepairRaw, BeginArc, SaveDialogue, Stage
      <4>2. CASE Recognize
        BY <3>2, <4>2 DEF Recognize, Stage
      <4>3. CASE SkipArc
        BY <3>2, <4>3, Advances DEF SkipArc, StageInv, Stage
      <4> QED
        BY <2>6, <4>1, <4>2, <4>3
    <3> QED
      BY <2>2, <2>3, <2>4, <3>2, <3>3
  <2>7. CASE UNCHANGED cardVars
    <3>1. UNCHANGED <<work, linker>>
      BY <2>7 DEF cardVars
    <3>2. Link1'
      BY <1>5, <1>7, <2>1, <3>1 DEF Link1, l
    <3> QED
      BY <2>2, <2>3, <3>1, <3>2
  <2>8. CASE BackfillStarts \/ BackfillNext
    BY <1>2, <2>8 DEF BackfillStarts, BackfillNext
  <2>9. CASE FillCard
    <3>1. work.at \in Path /\ work.at \in DOMAIN card /\ work.todo /= <<>> /\ work \in Stage /\ work /= NoStage
          /\ UNCHANGED linker /\ work.pc = "fill"
      BY <1>3, <2>9, Places DEF FillCard, StageInv, Filing, Newest
    <3>2. work.new \in Seq(Path) /\ Append(work.new, work.at) \in Seq(Path)
      BY <3>1 DEF Stage
    <3>3. work'.new = Append(work.new, work.at)
      BY <2>9, <3>1, <3>2, Advances DEF FillCard
    <3>4. Written(work.at).names = {}
      <4>1. Writes("stage", work.at, Fresh)
        BY <3>1 DEF Writes
      <4>2. Written(work.at) = Fresh
        BY <1>1, <1>3, <4>1, WrittenIs
      <4> QED
        BY <4>2 DEF Fresh
    <3>5. \A i \in DOMAIN work'.new :
            \/ i \in DOMAIN work.new /\ work'.new[i] = work.new[i]
            \/ work'.new[i] = work.at
      BY <3>1, <3>2, <3>3
    <3>6. \A i \in DOMAIN work'.new : work'.new[i] \in DOMAIN card /\ Written(work'.new[i]).names = {}
      BY <1>5, <1>7, <3>1, <3>4, <3>5 DEF New1
    <3>7. \A i \in DOMAIN work'.new : \A q : q = work'.new[i] => Written(q)'.names = {}
      BY <2>1, <3>6
    <3>8. New1'
      BY <3>7 DEF New1
    <3>9. linker'["stage"].pc = "off"
      BY <1>7, <3>1 DEF l
    <3> QED
      BY <2>2, <2>4, <3>8, <3>9
  <2>10. CASE LinkNext
    <3>1. CASE work' = NoStage /\ UNCHANGED linker
      <4>1. linker'["stage"].pc = "off"
        BY <1>3, <2>10, <3>1 DEF LinkNext
      <4> QED
        BY <2>2, <2>3, <2>4, <3>1, <4>1
    <3>2. CASE ~ (work.new = <<>> \/ work.dir = "research")
      <4>1. work \in Stage /\ work /= NoStage /\ UNCHANGED card
        BY <1>3, <2>10, Places DEF LinkNext
      <4>2. work.new \in Seq(Path) /\ work.new /= <<>> /\ 1 \in DOMAIN work.new /\ work'.new = Tail(work.new)
        <5>1. work.new \in Seq(Path) /\ work.new /= <<>> /\ work'.new = Tail(work.new)
          BY <2>10, <3>2, <4>1 DEF LinkNext, Stage
        <5> QED
          BY <5>1
      <4>3. \A i \in DOMAIN work'.new : i + 1 \in DOMAIN work.new /\ work'.new[i] = work.new[i + 1]
        BY <4>2
      <4>4. \A i \in DOMAIN work'.new : work'.new[i] \in DOMAIN card /\ Written(work'.new[i]).names = {}
        BY <1>5, <1>7, <4>1, <4>3 DEF New1
      <4>5. \A i \in DOMAIN work'.new : \A q : q = work'.new[i] => Written(q)'.names = {}
        BY <2>1, <4>4
      <4>6. New1'
        BY <4>5 DEF New1
      <4> DEFINE p == work.new[1]  offered == {q \in DOMAIN card : q.dir = "episodes"}
      <4>7. Written(p) = card[p] /\ Written(p).names = {}
        <5>1. linker["stage"] = NoLink /\ work.pc = "link"
          BY <2>10 DEF LinkNext
        <5>2. \A k \in Process : linker[k].pc \notin {"fill", "mark"}
          BY <1>2, <1>3, <5>1 DEF Process
        <5>3. \A q : Written(q) = card[q]
          BY <1>1, <5>1, <5>2, WrittenIs
        <5> QED
          BY <1>5, <4>1, <4>2, <5>3 DEF New1
      <4>8. Ask("stage", p, offered) /\ linker["stage"] = NoLink
        BY <2>10, <3>2 DEF LinkNext
      <4> HIDE DEF p, offered
      <4>9. CASE linker'["stage"] = linker["stage"]
        BY <1>3, <2>2, <2>4, <4>6, <4>8, <4>9
      <4>10. CASE linker'["stage"] = [pc |-> "asked", card |-> p, seen |-> card[p],
                                      among |-> Candidates(p, offered)]
        <5>1. linker'["stage"].pc = "asked" /\ linker'["stage"].seen = card[p]
          BY <4>10
        <5>2. Link1'
          BY <4>7, <5>1 DEF Link1, l
        <5> QED
          BY <2>2, <4>6, <5>2
      <4> QED
        BY <1>3, <4>8, <4>9, <4>10, AskKeeps
    <3> QED
      BY <2>10, <3>1, <3>2 DEF LinkNext
  <2>11. ASSUME NEW k \in Process, Answered(k) \/ NameFills(k) \/ MarkFills(k)
         PROVE (Named1 /\ New1 /\ Link1)'
    <3>1. k = "stage" /\ work' = work
      BY <1>2, <1>3, <2>11 DEF Answered, NameFills, MarkFills, Process
    <3>2. New1'
      BY <1>5, <1>7, <2>1, <3>1 DEF New1
    <3>3. linker' = [linker EXCEPT !["stage"] = linker'["stage"]] /\ l.pc /= "off"
      BY <1>3, <2>11, <3>1 DEF Answered, NameFills, MarkFills, CardTypeOK, l
    <3>4. \A c : c = l.card => Written(c)' = Written(l.card)
      BY <1>7, <2>1, <3>3
    <3>5. CASE Answered(k)
      <4>1. \/ linker'["stage"] = NoLink
            \/ \E ids \in SUBSET l.among :
                 linker'["stage"] = [pc |-> "named", card |-> l.card, seen |-> l.seen, ids |-> ids]
        BY <1>3, <3>1, <3>5 DEF Answered, CardTypeOK, l
      <4>2. ASSUME NEW ids, linker'["stage"] = [pc |-> "named", card |-> l.card, seen |-> l.seen, ids |-> ids]
            PROVE  linker'["stage"].pc = "named" /\ linker'["stage"].seen = l.seen
        BY <4>2
      <4>3. l.seen.names = {}
        BY <1>5, <3>1, <3>5 DEF Answered, Link1, l
      <4>4. CASE linker'["stage"] = NoLink
        BY <1>3, <2>2, <2>4, <3>2, <4>4
      <4>5. CASE linker'["stage"].pc = "named" /\ linker'["stage"].seen = l.seen
        <5>1. Link1'
          BY <4>3, <4>5 DEF Link1, l
        <5> QED
          BY <2>2, <3>2, <5>1
      <4> QED
        BY <4>1, <4>2, <4>4, <4>5
    <3>6. ASSUME linker'["stage"] = [pc |-> "patch", card |-> l.card, ids |-> l.ids],
                 l.ids \subseteq Written(l.card).names
          PROVE  Link1'
      <4>1. linker'["stage"].pc = "patch" /\ linker'["stage"].card = l.card /\ linker'["stage"].ids = l.ids
        BY <3>6
      <4> QED
        BY <3>4, <3>6, <4>1 DEF Link1, l
    <3>7. CASE NameFills(k)
      <4>1. linker'["stage"] = [pc |-> "patch", card |-> l.card, ids |-> l.ids]
            /\ l.pc = "fill" /\ l.seen \in Card
        BY <1>3, <3>1, <3>7, Places DEF NameFills, CardTypeOK, l
      <4>2. Written(l.card) = Named("stage")
        <5>1. Writes("stage", l.card, Named("stage"))
          BY <4>1 DEF Writes, l
        <5> QED
          BY <1>1, <1>3, <5>1, WrittenIs
      <4>3. l.ids \subseteq Written(l.card).names
        BY <4>1, <4>2 DEF Named, Card, l
      <4> QED
        BY <2>2, <3>2, <3>6, <4>1, <4>3
    <3>8. CASE MarkFills(k)
      <4>1. \/ linker'["stage"] = NoLink
            \/ linker'["stage"] = [pc |-> "patch", card |-> l.card, ids |-> l.ids]
        BY <1>3, <3>1, <3>8 DEF MarkFills, CardTypeOK, l
      <4>2. l.ids \subseteq Written(l.card).names
        BY <1>5, <3>1, <3>8 DEF MarkFills, Link1, l
      <4> QED
        BY <1>3, <2>2, <2>4, <3>2, <3>6, <4>1, <4>2
    <3> QED
      BY <2>11, <3>5, <3>7, <3>8
  <2> QED
    BY <1>12, <2>5, <2>6, <2>7, <2>8, <2>9, <2>10, <2>11 DEF Quiet
<1> QED
  BY <1>8, <1>9, <1>10, <1>11, <1>12, NextWritten

\* The invariant: types, whose turn it is, what the stage and the linkers know
\* of the files, and what the files hold when each is written.
CardInv ==
  /\ CardTypeOK /\ TurnInv /\ StageInv /\ NamesInv /\ SavedInv /\ FilesInv
  /\ OpenInv /\ OneInv /\ NamedInv

\* The invariant of the cards holds initially.
LEMMA InitCards == CardInit => CardInv
<1> SUFFICES ASSUME CardInit PROVE CardInv
  OBVIOUS
<1>1. IsFiniteSet(DOMAIN card) /\ DOMAIN card = {} /\ work = NoStage /\ work.pc = "off"
      /\ \A k \in Process : linker[k] = NoLink /\ linker[k].pc = "off"
  BY FS_EmptySet DEF CardInit, NoStage, NoLink
<1>2. CardTypeOK
  BY <1>1, CardAssumption DEF CardAssumption, CardInit, CardTypeOK
<1>3. TurnInv /\ StageInv /\ NamesInv /\ SavedInv /\ OpenInv
  BY <1>1 DEF CardInit, TurnInv, StageInv, Filing, NamesInv, SavedInv, OpenInv, Process
<1>4. FilesInv /\ OneInv /\ NamedInv
  BY <1>1 DEF FilesInv, LinkFits, OneInv, NamedInv, Process
<1> QED
  BY <1>2, <1>3, <1>4 DEF CardInv

\* Every step keeps the invariant of the cards.
LEMMA NextCards == CardInv /\ [CardNext]_cardVars => CardInv'
<1> SUFFICES ASSUME CardInv, [CardNext]_cardVars PROVE CardInv'
  OBVIOUS
<1> USE DEF CardInv
<1>1. CardTypeOK' /\ TurnInv'
  BY CardAssumption, NextTypes, NextTurn
<1>2. StageInv' /\ NamesInv' /\ SavedInv' /\ FilesInv' /\ OpenInv'
  BY NextStage, NextNames, NextSaved, NextFits, NextOpen
<1>3. OneInv' /\ NamedInv'
  BY <1>1, <1>2, NextOne, NextNamed
<1> QED
  BY <1>1, <1>2, <1>3

\* Without an overlap a file that can be read is what it is going to be.
LEMMA Shown ==
  ASSUME CardInv, Alone, NEW p, card[p] /= Empty
  PROVE  Written(p) = card[p]
<1>1. ASSUME NEW k \in Process, NEW g, Writes(k, p, g) PROVE FALSE
  BY <1>1 DEF Writes, OpenInv, CardInv
<1> QED
  BY <1>1 DEF Written

\* The invariant of the cards implies what is promised of them.
LEMMA CardsFollow == CardInv => CardsSafe
<1> SUFFICES ASSUME CardInv PROVE CardsSafe
  OBVIOUS
<1>1. \A p \in DOMAIN card : Fits(p, card[p])
  BY DEF CardInv, FilesInv
<1>2. LinkedDialoguesExist
  BY <1>1 DEF LinkedDialoguesExist, Parses, Fits
<1>3. LinksPointBack
  BY <1>1 DEF LinksPointBack, Parses, Fits, Follows
<1>4. OneCardPerArc
  <2>1. CASE Alone
    <3>1. \A p \in DOMAIN card : Parses(p) => Written(p) /= Empty
      BY <2>1, Shown DEF Parses
    <3> QED
      BY <2>1, <3>1 DEF OneCardPerArc, CardInv, OneInv, SameArc
  <2> QED
    BY <2>1 DEF OneCardPerArc, Alone
<1>5. SupersededIsNamed
  <2>1. CASE Alone /\ "backfill" \notin disturbed /\ \A p \in DOMAIN card : Parses(p)
    <3>1. \A p \in DOMAIN card : Written(p) = card[p] /\ card[p] /= Empty
      BY <2>1, Shown DEF Parses
    <3>2. \A p \in DOMAIN card : Written(p).status = "superseded" =>
            \E q \in DOMAIN card : p \in Written(q).names
      BY <2>1, <3>1 DEF CardInv, NamedInv
    <3> QED
      BY <3>1, <3>2 DEF SupersededIsNamed
  <2> QED
    BY <2>1 DEF SupersededIsNamed, Alone
<1> QED
  BY <1>2, <1>3, <1>4, <1>5 DEF CardsSafe

\* The invariant holds of every run of the stages and of the operator's
\* command, killed wherever they are.
THEOREM CardsInvariance == CardSpec => []CardInv
<1> QED
  BY InitCards, NextCards, PTL DEF CardSpec

\* The stage and the linkers are always at a place that can be named, with
\* paths, cards and links of their kinds.
THEOREM CardsTypes == CardSpec => []CardTypeOK
<1>1. CardInv => CardTypeOK
  BY DEF CardInv
<1> QED
  BY <1>1, CardsInvariance, PTL

\* The dialogues a card links are saved; an arc has one card unless the
\* operator's linker ran meanwhile; what is superseded is named by what
\* supersedes it; and links point to what was there before.
THEOREM CardsAreSafe == CardSpec => []CardsSafe
<1> QED
  BY CardsInvariance, CardsFollow, PTL
=============================================================================
