------------------------------ MODULE ClaimsLog ------------------------------
(***************************************************************************)
(* The append-only claims log of a project (src/src/claims.rs): records in *)
(* claims.jsonl, their clusters in claims.db.  A capture taps every claim  *)
(* it admitted: it links it to the claims it supersedes, finds it a        *)
(* cluster, appends the record unless its id is there, and maps it to the  *)
(* cluster, all under .claims.lock but in four separate writes.  A claim   *)
(* that is confirmed is rewritten with the whole file.  A process can be   *)
(* killed between any two writes and in the middle of one, and the capture *)
(* is then repeated with the same claims.                                  *)
(*                                                                         *)
(* An embedding is a point of a line; a centroid is kept in sixtieths.     *)
(***************************************************************************)
EXTENDS Integers, Sequences, FiniteSets, SequencesExt

CONSTANTS
  Scribe,      \* processes that write the log
  Claim,       \* claim ids: session prefix and hash of the assertion
  Point,       \* the embedding of each claim
  Near,        \* how near a centroid a claim joins its cluster (PC_CLAIMS_TAU)
  Budget,      \* claims in a digest (PC_DELTA_DIGEST_BUDGET)
  Nobody,
  MaxTaps,     \* bound: appends and confirmations begun
  MaxKills     \* bound: processes killed

\* An id is made of so many digits; an embedding is a point of the line.
ASSUME ClaimsAssumption ==
  /\ IsFiniteSet(Claim)
  /\ Point \in [Claim -> Int]
  /\ Nobody \notin Scribe \cup Claim \cup Int
  /\ Near \in Nat /\ Budget \in Nat
  /\ MaxTaps \in Nat /\ MaxKills \in Nat

VARIABLES
  log,        \* the records that parse, in file order
  tail,       \* how the file ends
  centroid,   \* of each claim, that of the cluster it founded
  member,     \* of each claim, the cluster claim_cluster_map gives it
  claimLock,
  place,      \* of each scribe: where it is
  tapped,     \* the claim it appends or confirms
  edges,      \* the earlier claims the new one supersedes
  cluster,    \* the cluster it found
  rewritten,  \* the file as a confirmation will write it
  recorded,   \* every claim ever appended
  cutShort,   \* the claims whose append was killed half way
  emptied,    \* how often a rewrite was killed before it was complete
  taps, kills

logVars == <<log, tail, centroid, member, claimLock>>
scribeVars == <<place, tapped, edges, cluster, rewritten>>
claimHistory == <<recorded, cutShort, emptied>>
claimsVars == <<logVars, scribeVars, claimHistory, taps, kills>>

Record == [id : Claim, cluster : Claim, supersedes : SUBSET Claim, confirmed : BOOLEAN]

Idle == "idle"
UnderClaimLock == {"link", "assign", "append", "map", "reread", "truncate", "rewrite"}

ClaimsTypeOK ==
  /\ log \in Seq(Record)
  /\ tail \in {"whole", "torn", "garbled"}
  /\ centroid \in [Claim -> Int \cup {Nobody}]
  /\ member \in [Claim -> Claim \cup {Nobody}]
  /\ claimLock \in Scribe \cup {Nobody}
  /\ place \in [Scribe -> {Idle, "tap", "confirm"} \cup UnderClaimLock]
  /\ tapped \in [Scribe -> Claim \cup {Nobody}]
  /\ edges \in [Scribe -> SUBSET Claim]
  /\ cluster \in [Scribe -> Claim \cup {Nobody}]
  /\ rewritten \in [Scribe -> Seq(Record)]
  /\ recorded \subseteq Claim /\ cutShort \subseteq Claim /\ emptied \in Nat
  /\ taps \in 0..MaxTaps /\ kills \in 0..MaxKills

-----------------------------------------------------------------------------

Ids(records) == {r.id : r \in ToSet(records)}

\* A torn character makes the whole file unreadable as text.
Readable == tail /= "garbled"

\* The digest a delta extraction is shown: as many of the claims as the budget
\* allows.  Which of them is up to similarity and age.
Digests ==
  LET known == IF Readable THEN Ids(log) ELSE {}
      size == IF Cardinality(known) < Budget THEN Cardinality(known) ELSE Budget
  IN {d \in SUBSET known : Cardinality(d) = size}

Distance(c, d) == IF 60 * Point[c] > centroid[d] THEN 60 * Point[c] - centroid[d]
                                                 ELSE centroid[d] - 60 * Point[c]

\* The clusters near enough, and of these the nearest.
Matching(c) == {d \in Claim : centroid[d] /= Nobody /\ Distance(c, d) <= 60 * Near}
Nearest(c) == {d \in Matching(c) : \A e \in Matching(c) : Distance(c, d) <= Distance(c, e)}

\* The running average, over the members the map counts.
Averaged(c, d) ==
  LET n == Cardinality({e \in Claim : member[e] = d}) + 1
  IN (centroid[d] * (n - 1) + 60 * Point[c]) \div n

ClaimsInit ==
  /\ log = <<>> /\ tail = "whole"
  /\ centroid = [c \in Claim |-> Nobody]
  /\ member = [c \in Claim |-> Nobody]
  /\ claimLock = Nobody
  /\ place = [w \in Scribe |-> Idle]
  /\ tapped = [w \in Scribe |-> Nobody]
  /\ edges = [w \in Scribe |-> {}]
  /\ cluster = [w \in Scribe |-> Nobody]
  /\ rewritten = [w \in Scribe |-> <<>>]
  /\ recorded = {} /\ cutShort = {} /\ emptied = 0
  /\ taps = 0 /\ kills = 0

GoTo(w, p) == place' = [place EXCEPT ![w] = p]

\* The scribe is done, successfully or with an error its caller logs and
\* forgets; a killed one ends the same way.
Stop(w) ==
  /\ GoTo(w, Idle)
  /\ tapped' = [tapped EXCEPT ![w] = Nobody]
  /\ edges' = [edges EXCEPT ![w] = {}]
  /\ cluster' = [cluster EXCEPT ![w] = Nobody]
  /\ rewritten' = [rewritten EXCEPT ![w] = <<>>]

Unlock(w) == claimLock' = IF claimLock = w THEN Nobody ELSE claimLock

Begin(w, c, p, e) ==
  /\ place[w] = Idle
  /\ taps < MaxTaps
  /\ taps' = taps + 1
  /\ GoTo(w, p)
  /\ tapped' = [tapped EXCEPT ![w] = c]
  /\ edges' = [edges EXCEPT ![w] = e]
  /\ UNCHANGED <<logVars, cluster, rewritten, claimHistory, kills>>

\* Mutant: the model's targets are not looked up in the digest.
DeltaOpUnchecked(w) ==
  \E digest \in Digests, c \in Claim :
    \/ Begin(w, c, "tap", {})
    \/ \E target \in Claim : Begin(w, c, "tap", {target})
    \/ c \in digest /\ Begin(w, c, "confirm", {})

\* A delta operation: a target outside the digest it was shown demotes the
\* operation to a new claim, a confirmation only ever names a digest claim.
DeltaOp(w) ==
  \E digest \in Digests, c \in Claim :
    \/ Begin(w, c, "tap", {})
    \/ \E target \in digest : Begin(w, c, "tap", {target})
    \/ c \in digest /\ Begin(w, c, "confirm", {})

\* acquire_claim_store_lock
TakeClaimLock(w) ==
  /\ claimLock = Nobody
  /\ claimLock' = w
  /\ \/ place[w] = "tap" /\ GoTo(w, IF edges[w] = {} THEN "link" ELSE "assign")
     \/ place[w] = "confirm" /\ GoTo(w, "reread")
  /\ UNCHANGED <<log, tail, centroid, member, tapped, edges, cluster, rewritten,
                 claimHistory, taps, kills>>

\* detect_supersedes: the model names some of the claims in the log.  Without
\* a linker, on an empty or unreadable log and on any error it is none.
Link(w) ==
  /\ place[w] = "link"
  /\ \E found \in SUBSET (IF Readable THEN Ids(log) ELSE {}) :
       edges' = [edges EXCEPT ![w] = found]
  /\ GoTo(w, "assign")
  /\ UNCHANGED <<logVars, tapped, cluster, rewritten, claimHistory, taps, kills>>

\* find_or_create_cluster: the cluster the claim is mapped to, else the
\* nearest, whose centroid moves, else a new one that bears the claim's id.
Assign(w) ==
  /\ place[w] = "assign"
  /\ LET c == tapped[w] IN
     \/ /\ member[c] /= Nobody
        /\ cluster' = [cluster EXCEPT ![w] = member[c]]
        /\ UNCHANGED centroid
     \/ /\ member[c] = Nobody
        /\ \E d \in Nearest(c) :
             /\ cluster' = [cluster EXCEPT ![w] = d]
             /\ centroid' = [centroid EXCEPT ![d] = Averaged(c, d)]
     \/ /\ member[c] = Nobody /\ Matching(c) = {} /\ centroid[c] = Nobody
        /\ cluster' = [cluster EXCEPT ![w] = c]
        /\ centroid' = [centroid EXCEPT ![c] = 60 * Point[c]]
  /\ GoTo(w, "append")
  /\ UNCHANGED <<log, tail, member, claimLock, tapped, edges, rewritten,
                 claimHistory, taps, kills>>

\* The claim's own cluster is there, left by an append that was killed, and
\* has drifted away from it: the insertion breaks the primary key.
AssignConflicts(w) ==
  /\ place[w] = "assign"
  /\ LET c == tapped[w] IN member[c] = Nobody /\ Matching(c) = {} /\ centroid[c] /= Nobody
  /\ Unlock(w) /\ Stop(w)
  /\ UNCHANGED <<log, tail, centroid, member, claimHistory, taps, kills>>

\* append_claim_jsonl_once.  Behind a torn line the record is lost with it.
AppendClaim(w) ==
  /\ place[w] = "append"
  /\ Readable
  /\ IF tapped[w] \in Ids(log)
     THEN UNCHANGED <<log, tail, recorded>>
     ELSE /\ log' = IF tail = "whole"
                    THEN Append(log, [id |-> tapped[w], cluster |-> cluster[w],
                                      supersedes |-> edges[w], confirmed |-> FALSE])
                    ELSE log
          /\ recorded' = IF tail = "whole" THEN recorded \cup {tapped[w]} ELSE recorded
          /\ tail' = "whole"
  /\ GoTo(w, "map")
  /\ UNCHANGED <<centroid, member, claimLock, tapped, edges, cluster, rewritten,
                 cutShort, emptied, taps, kills>>

AppendUnreadable(w) ==
  /\ place[w] = "append"
  /\ ~Readable
  /\ Unlock(w) /\ Stop(w)
  /\ UNCHANGED <<log, tail, centroid, member, claimHistory, taps, kills>>

MapClaim(w) ==
  /\ place[w] = "map"
  /\ member' = [member EXCEPT ![tapped[w]] = cluster[w]]
  /\ Unlock(w) /\ Stop(w)
  /\ UNCHANGED <<log, tail, centroid, claimHistory, taps, kills>>

\* confirm_claim: the file is read, ...
Reread(w) ==
  /\ place[w] = "reread"
  /\ IF Readable /\ tapped[w] \in Ids(log)
     THEN /\ rewritten' = [rewritten EXCEPT ![w] =
               [i \in DOMAIN log |->
                  IF log[i].id = tapped[w] THEN [log[i] EXCEPT !.confirmed = TRUE]
                                           ELSE log[i]]]
          /\ GoTo(w, "truncate")
          /\ UNCHANGED <<claimLock, tapped, edges, cluster>>
     ELSE Unlock(w) /\ Stop(w)
  /\ UNCHANGED <<log, tail, centroid, member, claimHistory, taps, kills>>

\* ... emptied, and written again, with a newline behind a torn line.
Truncate(w) ==
  /\ place[w] = "truncate"
  /\ log' = <<>> /\ tail' = "whole"
  /\ GoTo(w, "rewrite")
  /\ UNCHANGED <<centroid, member, claimLock, tapped, edges, cluster, rewritten,
                 claimHistory, taps, kills>>

Rewrite(w) ==
  /\ place[w] = "rewrite"
  /\ log' = rewritten[w]
  /\ Unlock(w) /\ Stop(w)
  /\ UNCHANGED <<tail, centroid, member, claimHistory, taps, kills>>

\* What a write leaves when the process is killed in the middle of it.
HalfWritten(w) ==
  \/ UNCHANGED <<log, tail>>
  \/ /\ place[w] = "append" /\ Readable /\ tapped[w] \notin Ids(log)
     /\ tail' \in {"torn", "garbled"} /\ UNCHANGED log
  \/ /\ place[w] = "rewrite"
     /\ \E n \in 0..(Len(rewritten[w]) - 1) : log' = SubSeq(rewritten[w], 1, n)
     /\ tail' \in {"torn", "garbled"}

KillScribe(w) ==
  /\ place[w] /= Idle
  /\ kills < MaxKills
  /\ kills' = kills + 1
  /\ HalfWritten(w)
  /\ cutShort' = IF place[w] \in {"append", "map"} THEN cutShort \cup {tapped[w]} ELSE cutShort
  /\ emptied' = IF place[w] = "rewrite" THEN emptied + 1 ELSE emptied
  /\ Unlock(w) /\ Stop(w)
  /\ UNCHANGED <<centroid, member, recorded, taps>>

ScribeStep(w) ==
  \/ DeltaOp(w) \/ TakeClaimLock(w) \/ Link(w)
  \/ Assign(w) \/ AssignConflicts(w)
  \/ AppendClaim(w) \/ AppendUnreadable(w) \/ MapClaim(w)
  \/ Reread(w) \/ Truncate(w) \/ Rewrite(w)
  \/ KillScribe(w)

ClaimsNext == \E w \in Scribe : ScribeStep(w)

ClaimsSpec == ClaimsInit /\ [][ClaimsNext]_claimsVars

-----------------------------------------------------------------------------
(* Properties.                                                             *)

\* A claim is in the log once, whatever captures run or are repeated, and one
\* that was recorded stays there: it is missing only while a confirmation
\* rewrites the file, or after one was killed doing so.
LogKeepsClaims ==
  /\ \A i, j \in DOMAIN log : log[i].id = log[j].id => i = j
  /\ emptied = 0 =>
       recorded \subseteq Ids(log) \cup UNION {Ids(rewritten[w]) :
                                                w \in {v \in Scribe : place[v] = "rewrite"}}

\* A record is found through its cluster: the cluster it names has a centroid,
\* and unless its append was killed the map agrees with the record.
RecordsReachable ==
  \A r \in ToSet(log) :
    /\ centroid[r.cluster] /= Nobody
    /\ (member[r.id] /= Nobody /\ r.id \notin cutShort) => member[r.id] = r.cluster

\* What a claim supersedes was recorded before it, so that no chain of
\* supersessions leads back: unless a killed rewrite lost records that were
\* then tapped again.
SupersedesPointsBack ==
  emptied = 0 =>
    \A i \in DOMAIN log : log[i].supersedes \subseteq Ids(SubSeq(log, 1, i - 1))

\* claims.rs: the log keeps every claim once, every record leads to its
\* cluster, and supersession points to earlier records.
ClaimsSafe == LogKeepsClaims /\ RecordsReachable /\ SupersedesPointsBack
=============================================================================
