---------------------------- MODULE NounRealness ----------------------------
(***************************************************************************)
(* The realness of nouns (nouns.rs, realness.rs): every attempt at a       *)
(* capture reads the user's turns of the transcript, has a model judge the *)
(* stance of each reference to a noun, in chunks with repairs, and folds   *)
(* the sum into the registry that decides which nouns prompts are primed   *)
(* with.                                                                   *)
(*                                                                         *)
(* The stage holds the project's wiki lock, so attempts follow each other. *)
(* It runs whether or not the rest of the attempt succeeded.               *)
(***************************************************************************)
EXTENDS Integers, Sequences, FiniteSets, SequencesExt, FiniteSetsExt

CONSTANTS
  Noun, Session,
  Talk,         \* of each session: its user turns, each a sequence of <<noun, stance>>
  MaxRefs,      \* references taken from a session (PC_REALNESS_MAX_REFS)
  Chunk,        \* references in a call (PC_T0_BATCH_CHUNK)
  Windows,      \* references in a call of each repair round
  MaxAttempts, MaxKills  \* bounds

VARIABLES
  turns,     \* of each session: the turns its transcript has so far
  registry,  \* the file: the signed score of each noun in it
  pc, refs,  \* of the attempt in work: where it is, the references
  from,      \* references before this chunk
  res,       \* the answers to this chunk, by position: a reference or NoAnswer
  round, todo,  \* the repair round and the windows it has still to ask for
  out,       \* the answers to the chunks before
  next,      \* the registry to be written
  folds,     \* of each reference: how often it entered the registry
  attempts, kills, unread

stageVars == <<pc, refs, from, res, round, todo, out, next>>
realVars == <<turns, registry, stageVars, folds, attempts, kills, unread>>

NoAnswer == <<>>
Delta == [operate |-> 1, reject |-> -2, neutral |-> 0]

Min2(a, b) == IF a < b THEN a ELSE b

Stance(r) == Talk[r[1]][r[2]][r[3]][2]
NounOf(r) == Talk[r[1]][r[2]][r[3]][1]
Refs == UNION {UNION {{<<s, t, k>> : k \in DOMAIN Talk[s][t]} : t \in DOMAIN Talk[s]} : s \in Session}
References(s) ==
  FlattenSeq([t \in 1..turns[s] |-> [k \in DOMAIN Talk[s][t] |-> <<s, t, k>>]])

Idle == /\ pc' = "idle" /\ refs' = <<>> /\ from' = 0 /\ res' = <<>> /\ round' = 0
        /\ todo' = <<>> /\ out' = <<>> /\ next' = <<>>

RealTypeOK ==
  /\ turns \in [Session -> Nat] /\ \A s \in Session : turns[s] <= Len(Talk[s])
  /\ DOMAIN registry \subseteq Noun /\ \A n \in DOMAIN registry : registry[n] \in Int
  /\ pc \in {"idle", "call", "again", "repair", "fold", "write"}
  /\ ToSet(refs) \cup ToSet(res) \cup ToSet(out) \subseteq Refs \cup {NoAnswer}
  /\ Len(refs) <= MaxRefs /\ round \in 0..Len(Windows)
  /\ folds \in [Refs -> Nat] /\ attempts \in 0..MaxAttempts /\ kills \in 0..MaxKills

-----------------------------------------------------------------------------
Speak(s) ==
  /\ turns[s] < Len(Talk[s])
  /\ turns' = [turns EXCEPT ![s] = @ + 1]
  /\ UNCHANGED <<registry, stageVars, folds, attempts, kills, unread>>

\* A capture of the session takes the transcript from its first turn on.
Begin(s) ==
  /\ pc = "idle" /\ attempts < MaxAttempts /\ References(s) /= <<>>
  /\ attempts' = attempts + 1
  /\ pc' = "call" /\ refs' = SubSeq(References(s), 1, Min2(MaxRefs, Len(References(s))))
  /\ UNCHANGED <<turns, registry, from, res, round, todo, out, next, folds, kills, unread>>

Group == SubSeq(refs, from + 1, Min2(from + Chunk, Len(refs)))

\* What the model may answer to some references: each one's stance or nothing.
AnswersTo(asked) == {[k \in DOMAIN asked |-> IF k \in S THEN asked[k] ELSE NoAnswer] : S \in SUBSET DOMAIN asked}

Missing(answers) == SelectSeq([k \in DOMAIN answers |-> k], LAMBDA k : answers[k] = NoAnswer)
Split(s, n) == [j \in 1..((Len(s) + n - 1) \div n) |-> SubSeq(s, (j - 1) * n + 1, Min2(j * n, Len(s)))]

\* A repair round over what is missing; after the last, or with nothing
\* missing, the chunk is complete.
Enter(answers, n) ==
  IF Missing(answers) = <<>> \/ n > Len(Windows)
  THEN /\ out' = out \o answers /\ from' = from + Chunk
       /\ res' = <<>> /\ round' = 0 /\ todo' = <<>>
       /\ pc' = IF from + Chunk < Len(refs) THEN "call" ELSE "fold"
  ELSE /\ res' = answers /\ round' = n /\ todo' = Split(Missing(answers), Windows[n])
       /\ pc' = "repair" /\ UNCHANGED <<out, from>>

\* A chunk's first call; if all of it is unreadable it is asked once more.
CallChunk ==
  /\ pc \in {"call", "again"}
  /\ \E answers \in AnswersTo(Group) :
       IF pc = "call" /\ Len(Group) > 1 /\ \A k \in DOMAIN answers : answers[k] = NoAnswer
       THEN pc' = "again" /\ UNCHANGED <<out, from, res, round, todo>>
       ELSE Enter(answers, 1)
  /\ UNCHANGED <<turns, registry, refs, next, folds, attempts, kills, unread>>

\* An error of either call ends the stage without a trace.
CallFails ==
  /\ pc \in {"call", "again"}
  /\ Idle
  /\ UNCHANGED <<turns, registry, folds, attempts, kills, unread>>

\* Mutant: a repair's answers go to the first positions of the chunk.
PlacedFirst(win, answers) ==
  [i \in DOMAIN res |-> IF i \in DOMAIN answers /\ answers[i] /= NoAnswer THEN answers[i] ELSE res[i]]

\* The answers of a repair, put where they were missing.
Placed(win, answers) ==
  [i \in DOMAIN res |-> IF \E k \in DOMAIN win : win[k] = i /\ answers[k] /= NoAnswer
                        THEN answers[CHOOSE k \in DOMAIN win : win[k] = i] ELSE res[i]]

\* A repair call; its failure counts as no answer.
Repair ==
  /\ pc = "repair"
  /\ LET win == todo[1] IN
     \E answers \in AnswersTo([k \in DOMAIN win |-> Group[win[k]]]) :
       IF Len(todo) > 1
       THEN /\ res' = Placed(win, answers) /\ todo' = Tail(todo)
            /\ UNCHANGED <<pc, from, out, round>>
       ELSE Enter(Placed(win, answers), round + 1)
  /\ UNCHANGED <<turns, registry, refs, next, folds, attempts, kills, unread>>

\* This attempt's sum for a noun, over the references that were judged.
Judged == {k \in DOMAIN out : out[k] /= NoAnswer}
Moved(n) == {k \in Judged : NounOf(refs[k]) = n}
Sum(n) == FoldSet(LAMBDA k, sum : Delta[Stance(out[k])] + sum, 0, Moved(n))

Folded(old) == [n \in DOMAIN old \cup {NounOf(refs[k]) : k \in Judged} |->
                 (IF n \in DOMAIN old THEN old[n] ELSE 0) + Sum(n)]

\* The registry is read, an unreadable one as an empty one.
Fold ==
  /\ pc = "fold"
  /\ IF Judged = {} THEN Idle /\ UNCHANGED unread
     ELSE /\ \E old \in {registry, <<>>} :
               next' = Folded(old) /\ unread' = (unread \/ old /= registry)
          /\ pc' = "write" /\ UNCHANGED <<refs, from, res, round, todo, out>>
  /\ UNCHANGED <<turns, registry, folds, attempts, kills>>

\* The new file is renamed over the old one.
Write ==
  /\ pc = "write"
  /\ registry' = next
  /\ folds' = [r \in Refs |-> folds[r] + (IF r \in ToSet(out) THEN 1 ELSE 0)]
  /\ Idle
  /\ UNCHANGED <<turns, attempts, kills, unread>>

\* The write fails or the process is killed; a temporary file may remain.
Abandon ==
  /\ pc /= "idle" /\ kills < MaxKills /\ kills' = kills + 1
  /\ Idle
  /\ UNCHANGED <<turns, registry, folds, attempts, unread>>

RealInit ==
  /\ turns = [s \in Session |-> 0] /\ registry = <<>>
  /\ pc = "idle" /\ refs = <<>> /\ from = 0 /\ res = <<>> /\ round = 0 /\ todo = <<>>
  /\ out = <<>> /\ next = <<>> /\ folds = [r \in Refs |-> 0]
  /\ attempts = 0 /\ kills = 0 /\ unread = FALSE

RealNext ==
  \/ \E s \in Session : Speak(s) \/ Begin(s)
  \/ CallChunk \/ CallFails \/ Repair \/ Fold \/ Write \/ Abandon

-----------------------------------------------------------------------------
\* However the answers to a chunk were pieced together, each stands at the
\* place of the reference it judges (realness.rs:512).
AnswersAligned ==
  /\ \A k \in DOMAIN res : res[k] \in {NoAnswer, Group[k]}
  /\ \A k \in DOMAIN out : out[k] \in {NoAnswer, refs[k]}

Score(weight, n) ==
  FoldSet(LAMBDA r, sum : weight[r] * Delta[Stance(r)] + sum, 0, {r \in Refs : NounOf(r) = n})

\* The registry is the sum of all attempts that reached their end, whichever
\* were killed, as long as it could be read.
RegistryIsSum ==
  unread \/ \A n \in Noun :
    Score(folds, n) = IF n \in DOMAIN registry THEN registry[n] ELSE 0

\* A noun's score is the signed sum over its references in user turns
\* (realness.rs:611): each reference counts once.
CountedOnce ==
  \A n \in DOMAIN registry :
    registry[n] = Score([r \in Refs |-> IF folds[r] > 0 THEN 1 ELSE 0], n)

RealSpec == RealInit /\ [][RealNext]_realVars
=============================================================================
