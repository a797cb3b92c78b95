---------------------------- MODULE EpisodeCards ----------------------------
(***************************************************************************)
(* Episode cards and research records (episode_capture.rs,                 *)
(* research_capture.rs): files written once per arc of a session, and the  *)
(* linker that marks a card superseded by another.                         *)
(*                                                                         *)
(* A stage runs inside a capture, one at a time (the store lock); the      *)
(* linker is also an operator command over all the cards, under no lock.   *)
(* fs::write truncates a file and then fills it, so a killed process       *)
(* leaves the file empty, or with its frontmatter and no body.             *)
(***************************************************************************)
EXTENDS Integers, Sequences, FiniteSets, FiniteSetsExt

CONSTANTS
  CardSession, Date, Arc,  \* numbers; the order is that of the file names
  Answers,      \* what the recognition may return: sequences of arcs
  Akin(_, _),   \* whether two arcs share a subject
  MaxStages,    \* bound: stages and operator runs
  MaxHalts      \* bound: killed processes

ASSUME CardAssumption ==
  /\ CardSession \subseteq Nat /\ Date \subseteq Nat /\ Arc \subseteq Nat
  /\ Answers \subseteq Seq(Arc)
  /\ MaxStages \in Nat /\ MaxHalts \in Nat

VARIABLES
  card,      \* of each path that exists: the file
  saved,     \* <<path, part>> of the dialogues on disk
  work,      \* the stage in work
  linker,    \* of each process: the card it links
  backlog,   \* cards the operator's command has still to link
  born,      \* of each path: the stage that created it
  begun, halts, disturbed

cardVars == <<card, saved, work, linker, backlog, born, begun, halts, disturbed>>

Process == {"stage", "operator"}
Count == Nat \ {0}
Path == [dir : {"episodes", "research"}, date : Date, session : CardSession,
         idx : Count, arc : Arc, copy : Count]
Card == [session : CardSession, refs : SUBSET {"clean", "raw"}, status : {"active", "superseded"},
         names : SUBSET Path, text : {"whole", "cut"}]
Empty == [text |-> "empty"]
File == Card \cup {Empty}

NoPath == [dir |-> "none"]
NoStage == [pc |-> "off"]
NoLink == [pc |-> "off"]

Stage == [pc : {"repair", "repairRaw", "card", "clean", "raw", "fill", "link"},
          dir : {"episodes", "research"}, date : Date, session : CardSession, talk : BOOLEAN,
          no : Count, at : Path \cup {NoPath}, todo : Seq(Count \X Arc), new : Seq(Path)]
Linking == [pc : {"asked"}, card : Path, seen : Card, among : SUBSET Path]
        \cup [pc : {"named", "fill"}, card : Path, seen : Card, ids : SUBSET Path]
        \cup [pc : {"patch"}, card : Path, ids : SUBSET Path]
        \cup [pc : {"mark"}, card : Path, at : Path, seen : File, ids : SUBSET Path]

CardTypeOK ==
  /\ DOMAIN card \subseteq Path /\ IsFiniteSet(DOMAIN card)
  /\ card \in [DOMAIN card -> File] /\ born \in [DOMAIN card -> Nat]
  /\ saved \subseteq Path \X {"clean", "raw"}
  /\ work \in Stage \cup {NoStage}
  /\ linker \in [Process -> Linking \cup {NoLink}]
  /\ backlog \subseteq DOMAIN card
  /\ begun \in 0..MaxStages /\ halts \in 0..MaxHalts
  /\ disturbed \subseteq {"killed", "overlap", "backfill"}

Disturb(b, what) == IF b THEN {what} ELSE {}

-----------------------------------------------------------------------------
(* Files.                                                                  *)

Store(p, f) == card' = [q \in DOMAIN card \cup {p} |-> IF q = p THEN f ELSE card[q]]

\* The session a file names in its frontmatter, if it can be parsed.
Parses(p) == card[p] /= Empty
Owned(p, s) == Parses(p) /\ card[p].session = s

\* The file of an arc: the first name that is free or this session's own.
\* There is one among as many names as there are files, and one more.
PathFor(d, date, s, idx, a) ==
  LET At(n) == [dir |-> d, date |-> date, session |-> s, idx |-> idx, arc |-> a, copy |-> n]
      open == {n \in 1..(Cardinality(DOMAIN card) + 1) : At(n) \in DOMAIN card => Owned(At(n), s)}
  IN At(Min(open))

CardsOf(s) == {p \in DOMAIN card : p.dir = "episodes" /\ Owned(p, s)}

\* Order by date, then by name.
Before(p, q) ==
  LET Parts(f) == <<f.date, f.session, f.idx, f.arc, f.copy>>
  IN \E i \in 1..5 : /\ Parts(p)[i] < Parts(q)[i]
                     /\ \A j \in 1..(i - 1) : Parts(p)[j] = Parts(q)[j]

-----------------------------------------------------------------------------
(* The stage.                                                             *)

\* talk: whether the transcript has a dialogue at all.
StageStarts(d, date, s) ==
  /\ work = NoStage /\ begun < MaxStages
  /\ \E talk \in BOOLEAN :
       work' = [pc |-> "repair", dir |-> d, date |-> date, session |-> s, talk |-> talk,
                no |-> begun + 1, at |-> NoPath, todo |-> <<>>, new |-> <<>>]
  /\ begun' = begun + 1
  /\ disturbed' = disturbed \cup Disturb(linker["operator"] /= NoLink \/ backlog /= {}, "overlap")
  /\ UNCHANGED <<card, saved, linker, backlog, born, halts>>

\* A card of the session without its dialogue gets it from the source.
Unrepaired ==
  {p \in CardsOf(work.session) : /\ work.dir = "episodes" /\ work.talk
                                  /\ <<p, "clean">> \notin saved}

Repair ==
  /\ work.pc = "repair"
  /\ \E p \in Unrepaired :
       /\ saved' = saved \cup {<<p, "clean">>}
       /\ work' = [work EXCEPT !.pc = "repairRaw", !.at = p]
  /\ UNCHANGED <<card, linker, backlog, born, begun, halts, disturbed>>

RepairRaw ==
  /\ work.pc = "repairRaw"
  /\ saved' = saved \cup {<<work.at, "raw">>}
  /\ work' = [work EXCEPT !.pc = "repair", !.at = NoPath]
  /\ UNCHANGED <<card, linker, backlog, born, begun, halts, disturbed>>

\* The recognition: an error or an answer with no arc ends the stage.
Recognize ==
  /\ work.pc = "repair" /\ Unrepaired = {}
  /\ \E answer \in Answers :
       work' = IF answer = <<>> THEN NoStage
               ELSE [work EXCEPT !.pc = "card",
                       !.todo = [i \in DOMAIN answer |-> <<i, answer[i]>>]]
  /\ UNCHANGED <<card, saved, linker, backlog, born, begun, halts, disturbed>>

Here == PathFor(work.dir, work.date, work.session, work.todo[1][1], work.todo[1][2])
Advance(new) ==
  [work EXCEPT !.pc = IF Len(work.todo) > 1 THEN "card" ELSE "link",
     !.at = NoPath, !.todo = Tail(@), !.new = new]

Dialogued == work.dir = "episodes" /\ work.talk

\* An arc whose card exists is left alone; so is one without valid evidence.
SkipArc ==
  /\ work.pc = "card"
  /\ work' = Advance(work.new)
  /\ UNCHANGED <<card, saved, linker, backlog, born, begun, halts, disturbed>>

BeginArc ==
  /\ work.pc = "card" /\ Here \notin DOMAIN card
  /\ work' = [work EXCEPT !.at = Here, !.pc = IF Dialogued THEN "clean" ELSE "raw"]
  /\ UNCHANGED <<card, saved, linker, backlog, born, begun, halts, disturbed>>

\* write_transcript_json of the cleaned dialogue; it does not overwrite.
SaveDialogue ==
  /\ work.pc = "clean"
  /\ saved' = saved \cup {<<work.at, "clean">>}
  /\ work' = [work EXCEPT !.pc = "raw"]
  /\ UNCHANGED <<card, linker, backlog, born, begun, halts, disturbed>>

\* The raw dialogue, and the card's file opened and truncated.
OpenCard ==
  /\ work.pc = "raw"
  /\ saved' = IF Dialogued THEN saved \cup {<<work.at, "raw">>} ELSE saved
  /\ Store(work.at, Empty)
  /\ born' = [q \in DOMAIN born \cup {work.at} |-> IF q = work.at THEN work.no ELSE born[q]]
  /\ work' = [work EXCEPT !.pc = "fill"]
  /\ UNCHANGED <<linker, backlog, begun, halts, disturbed>>

Fresh == [session |-> work.session, status |-> "active", names |-> {}, text |-> "whole",
          refs |-> IF Dialogued THEN {"clean", "raw"} ELSE {}]

FillCard ==
  /\ work.pc = "fill"
  /\ Store(work.at, Fresh)
  /\ work' = Advance(Append(work.new, work.at))
  /\ UNCHANGED <<saved, linker, backlog, born, begun, halts, disturbed>>

-----------------------------------------------------------------------------
(* The linker.                                                             *)

\* Cards that may be superseded by p, among those the caller offers.
Candidates(p, offered) ==
  {q \in offered \ {p} : /\ Parses(q) /\ card[q].status = "active"
                         /\ card[q].session = card[p].session \/ Akin(q.arc, p.arc)}

\* link_card up to the model's answer: the card is read, then the question
\* asked about candidates as they are now.
Ask(k, p, offered) ==
  IF Parses(p) /\ Candidates(p, offered) /= {}
  THEN linker' = [linker EXCEPT ![k] = [pc |-> "asked", card |-> p, seen |-> card[p],
                                        among |-> Candidates(p, offered)]]
  ELSE UNCHANGED linker

LinkNext ==
  /\ work.pc = "link" /\ linker["stage"] = NoLink
  /\ IF work.new = <<>> \/ work.dir = "research" THEN work' = NoStage /\ UNCHANGED linker
     ELSE /\ work' = [work EXCEPT !.new = Tail(@)]
          /\ Ask("stage", work.new[1], {q \in DOMAIN card : q.dir = "episodes"})
  /\ UNCHANGED <<card, saved, backlog, born, begun, halts, disturbed>>

\* Mutant: the superseded cards are marked and the new one is not rewritten.
AnswersUnnamed(k) ==
  /\ linker[k].pc = "asked"
  /\ \E ids \in SUBSET linker[k].among :
       linker' = [linker EXCEPT ![k] =
         IF ids = {} THEN NoLink ELSE [pc |-> "patch", card |-> @.card, ids |-> ids]]
  /\ UNCHANGED <<card, saved, work, backlog, born, begun, halts, disturbed>>

\* The answer: an error or no id ends it; ids that are no candidates are dropped.
Answered(k) ==
  /\ linker[k].pc = "asked"
  /\ \E ids \in SUBSET linker[k].among :
       linker' = [linker EXCEPT ![k] =
         IF ids = {} THEN NoLink
         ELSE [pc |-> "named", card |-> @.card, seen |-> @.seen, ids |-> ids]]
  /\ UNCHANGED <<card, saved, work, backlog, born, begun, halts, disturbed>>

\* The new card's supersedes field is written into what was read of it.
NameOpens(k) ==
  /\ linker[k].pc = "named"
  /\ Store(linker[k].card, Empty)
  /\ linker' = [linker EXCEPT ![k].pc = "fill"]
  /\ UNCHANGED <<saved, work, backlog, born, begun, halts, disturbed>>

Named(k) == [linker[k].seen EXCEPT !.names = linker[k].ids]

NameFills(k) ==
  /\ linker[k].pc = "fill"
  /\ Store(linker[k].card, Named(k))
  /\ linker' = [linker EXCEPT ![k] = [pc |-> "patch", card |-> @.card, ids |-> @.ids]]
  /\ UNCHANGED <<saved, work, backlog, born, begun, halts, disturbed>>

\* Each superseded card is read again, in the order of the answer, and its
\* status patched.
MarkOpens(k) ==
  /\ linker[k].pc = "patch"
  /\ \E p \in linker[k].ids :
       /\ linker' = [linker EXCEPT ![k] = [pc |-> "mark", card |-> @.card, at |-> p,
                                           seen |-> card[p], ids |-> @.ids \ {p}]]
       /\ Store(p, Empty)
  /\ UNCHANGED <<saved, work, backlog, born, begun, halts, disturbed>>

\* A file without frontmatter is written back as it was read.
Marked(k) ==
  IF linker[k].seen = Empty THEN Empty ELSE [linker[k].seen EXCEPT !.status = "superseded"]

MarkFills(k) ==
  /\ linker[k].pc = "mark"
  /\ Store(linker[k].at, Marked(k))
  /\ linker' = [linker EXCEPT ![k] =
       IF @.ids = {} THEN NoLink ELSE [pc |-> "patch", card |-> @.card, ids |-> @.ids]]
  /\ UNCHANGED <<saved, work, backlog, born, begun, halts, disturbed>>

\* backfill_link_episodes: every card, oldest first, against those before it.
BackfillStarts ==
  /\ backlog = {} /\ linker["operator"] = NoLink /\ begun < MaxStages
  /\ backlog' = {p \in DOMAIN card : p.dir = "episodes" /\ Parses(p)}
  /\ begun' = begun + 1
  /\ disturbed' = disturbed \cup {"backfill"} \cup Disturb(work /= NoStage, "overlap")
  /\ UNCHANGED <<card, saved, work, linker, born, halts>>

BackfillNext ==
  /\ backlog /= {} /\ linker["operator"] = NoLink
  /\ \E p \in backlog :
       /\ \A q \in backlog \ {p} : Before(p, q)
       /\ backlog' = backlog \ {p}
       /\ Ask("operator", p, {q \in DOMAIN card : q.dir = "episodes" /\ Before(q, p)})
  /\ UNCHANGED <<card, saved, work, born, begun, halts, disturbed>>

-----------------------------------------------------------------------------
\* What a killed process leaves of the file it had open.
LeftHalf(p, f) == Store(p, f) \/ (f \in Card /\ Store(p, [f EXCEPT !.text = "cut"])) \/ UNCHANGED card

KillCards(k) ==
  /\ halts < MaxHalts /\ halts' = halts + 1
  /\ \/ k = "stage" /\ work /= NoStage
     \/ k = "operator" /\ (linker[k] /= NoLink \/ backlog /= {})
  /\ \/ linker[k].pc = "fill" /\ LeftHalf(linker[k].card, Named(k))
     \/ linker[k].pc = "mark" /\ LeftHalf(linker[k].at, Marked(k))
     \/ k = "stage" /\ work.pc = "fill" /\ LeftHalf(work.at, Fresh)
     \/ linker[k].pc \notin {"fill", "mark"} /\ (k = "stage" => work.pc /= "fill") /\ UNCHANGED card
  /\ linker' = [linker EXCEPT ![k] = NoLink]
  /\ work' = IF k = "stage" THEN NoStage ELSE work
  /\ backlog' = IF k = "operator" THEN {} ELSE backlog
  /\ disturbed' = disturbed \cup {"killed"}
  /\ UNCHANGED <<saved, born, begun>>

CardInit ==
  /\ card = [p \in {} |-> Empty] /\ saved = {} /\ work = NoStage /\ linker = [k \in Process |-> NoLink]
  /\ backlog = {} /\ born = [p \in {} |-> 0] /\ begun = 0 /\ halts = 0 /\ disturbed = {}

CardNext ==
  \/ \E d \in {"episodes", "research"}, date \in Date, s \in CardSession : StageStarts(d, date, s)
  \/ Repair \/ RepairRaw \/ Recognize \/ SkipArc \/ BeginArc \/ SaveDialogue \/ OpenCard
  \/ FillCard \/ LinkNext \/ BackfillStarts \/ BackfillNext
  \/ \E k \in Process : \/ Answered(k) \/ NameOpens(k) \/ NameFills(k)
                        \/ MarkOpens(k) \/ MarkFills(k) \/ KillCards(k)

-----------------------------------------------------------------------------
\* What a card links to is on disk, whichever process was killed where: the
\* dialogues are saved before the card exists (episode_capture.rs:262).
LinkedDialoguesExist ==
  \A p \in DOMAIN card : Parses(p) => \A part \in card[p].refs : <<p, part>> \in saved

\* One file for an arc of a session, also after a retry that found a damaged
\* one under its name, as long as no operator's linker was at work meanwhile.
OneCardPerArc ==
  "overlap" \in disturbed \/
    \A p, q \in DOMAIN card :
      Parses(p) /\ Parses(q) /\ [p EXCEPT !.copy = 1] = [q EXCEPT !.copy = 1] => p = q

\* A card that is superseded is named by the card that superseded it, until
\* the operator's command overwrites the names an earlier link has written,
\* or a kill leaves a card empty that may have named others.
SupersededIsNamed ==
  \/ disturbed \cap {"backfill", "overlap"} /= {}
  \/ \E p \in DOMAIN card : ~ Parses(p)
  \/ \A p \in DOMAIN card :
       card[p].status = "superseded" => \E q \in DOMAIN card : p \in card[q].names

\* A card names cards of its own stage and of earlier ones, and the operator's
\* command only those before it in the order of the names: so two cards that
\* supersede each other, and leave their decision without an active card, are
\* of one stage or an operator's command has linked them.
LinksPointBack ==
  \A p \in DOMAIN card : Parses(p) => \A q \in card[p].names :
    /\ q \in DOMAIN card /\ q /= p
    /\ born[q] <= born[p] \/ ("backfill" \in disturbed /\ Before(q, p))

\* episode_capture.rs: an arc has one card, its links point back and name what
\* supersedes, and the dialogues it links are there.
CardsSafe == LinkedDialoguesExist /\ OneCardPerArc /\ SupersededIsNamed /\ LinksPointBack

CardSpec == CardInit /\ [][CardNext]_cardVars
=============================================================================
