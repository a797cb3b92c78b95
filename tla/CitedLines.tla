------------------------------ MODULE CitedLines ------------------------------
(***************************************************************************)
(* Evidence (capture.rs, research_capture.rs): models point at lines of a  *)
(* numbered transcript, and Rust alone decides what those lines are, who   *)
(* said them, and what is kept of them: receipts of citation markers, the  *)
(* sink of research seeds, and research records.                           *)
(*                                                                         *)
(* The session goes on between captures, and each capture numbers its own  *)
(* lines: it may leave out assistant turns to fit the budget.  Research     *)
(* numbers lines of its own, of more turns.  A turn was said, is the       *)
(* report of an agent's task, the result of a tool, or the harness's.  A   *)
(* line is <<turn, k>>, the blank one after a turn <<turn, 0>>.            *)
(***************************************************************************)
EXTENDS Integers, Sequences, FiniteSets, FiniteSetsExt, SequencesExt

CONSTANTS
  Talk,         \* the turns there may be: role, size in lines, and kind
  Evidence,     \* what a model may cite: sequences of ranges of lines
  Slug,         \* names of research records
  Digest(_, _), \* the hash of ranges and their text that a citation is named by
  MaxTurns, MaxAttempts, MaxKills   \* bounds

VARIABLES
  session,  \* the turns of the transcript
  view,     \* the turns the capture in work has numbered
  stage,    \* where that capture is
  claims,   \* what it admitted: the ranges, their text and its author
  mark,     \* the marker it has put into a guide and gives a receipt for
  marks,    \* the markers in the guides: their citation's name and its text
  records,  \* the receipts, by name
  seeds,    \* research/seeds.jsonl
  reports,  \* the research records, by name
  lost,     \* markers whose receipt failed
  attempts, kills

citedVars == <<session, view, stage, claims, mark, marks, records, seeds, reports,
               lost, attempts, kills>>

Text == Seq(Seq(Nat \X Nat))
\* A file that was created and not filled; no text is kept that is empty.
Torn == <<>>
NoMark == [id |-> "none", text |-> <<>>]

\* The types of the variables.
CitedTypeOK ==
  /\ session \in Seq([n : Nat, role : {"user", "assistant"}, size : Nat,
                       kind : {"said", "task", "tool", "harness"}])
  /\ \A i \in DOMAIN session : session[i].n = i
  /\ stage \in {"idle", "extract", "route", "receipt", "fill", "research"}
  /\ ToSet(view) \subseteq ToSet(session)
  /\ \A c \in claims : c.author \in {"user", "assistant"} /\ c.text \in Text
  /\ mark = NoMark \/ mark \in marks
  /\ \A id \in DOMAIN records : records[id] \in Text
  /\ DOMAIN reports \subseteq Slug
  /\ lost \subseteq marks
  /\ attempts \in 0..MaxAttempts /\ kills \in 0..MaxKills

-----------------------------------------------------------------------------
(* Lines.                                                                  *)

\* What a capture reads of the session, and what research reads of it.
Heard == SelectSeq(session, LAMBDA t : t.kind \in {"said", "task"})
Surveyed == SelectSeq(session, LAMBDA t : t.kind /= "harness")

\* Turns are joined by a blank line, which the last has not after it.
Rows(turns, i) == turns[i].size + IF i < Len(turns) THEN 1 ELSE 0
Lines(turns) ==
  FlattenSeq([i \in DOMAIN turns |->
    [k \in 1..Rows(turns, i) |-> <<turns[i].n, IF k <= turns[i].size THEN k ELSE 0>>]])

\* Whose line each is; a blank line is its predecessor's.
Roles(turns) ==
  FlattenSeq([i \in DOMAIN turns |-> [k \in 1..Rows(turns, i) |-> turns[i].role]])

\* The first and last line of a turn.
SpanOf(turns, i) ==
  LET before == Len(Lines(turns)) - Len(Lines(SubSeq(turns, i, Len(turns))))
  IN [start |-> before + 1, end |-> before + turns[i].size]

\* The lines of a range, none if it is inverted or begins behind the end.
Cut(lines, r) ==
  LET from == IF r.start = 0 THEN 1 ELSE r.start
      upTo == IF r.end < Len(lines) THEN r.end ELSE Len(lines)
  IN IF from > upTo THEN <<>> ELSE SubSeq(lines, from, upTo)

Blank(segment) == \A k \in DOMAIN segment : segment[k][2] = 0

\* slice_transcript_ranges: the segments of the ranges that have a text.
Sliced(lines, ranges) ==
  SelectSeq([k \in DOMAIN ranges |-> Cut(lines, ranges[k])], LAMBDA seg : ~Blank(seg))

\* evidence_is_valid
Valid(ranges) == Sliced(Lines(view), ranges) /= <<>>

\* author_for_ranges: whose line the first range begins with that begins
\* within the transcript, or the assistant's.
Author(ranges) ==
  LET begun == SelectSeq(ranges, LAMBDA r : r.start \in 1..Len(Roles(view)))
  IN IF begun = <<>> THEN "assistant" ELSE Roles(view)[Head(begun).start]

\* snap_range_to_blocks: the range with the whole of each task result it meets.
Snapped(r) ==
  LET met == {s \in {SpanOf(Surveyed, i) : i \in {j \in DOMAIN Surveyed : Surveyed[j].kind = "task"}} :
                s.start <= r.end /\ r.start <= s.end}
  IN [start |-> Min({r.start} \cup {s.start : s \in met}),
      end |-> Max({r.end} \cup {s.end : s \in met})]

-----------------------------------------------------------------------------
(* Actions.                                                                *)

CitedInit ==
  /\ session = <<>> /\ view = <<>> /\ stage = "idle"
  /\ claims = {} /\ mark = NoMark /\ marks = {} /\ records = <<>> /\ seeds = {}
  /\ reports = <<>> /\ lost = {} /\ attempts = 0 /\ kills = 0

\* The session goes on.
Say ==
  /\ Len(session) < MaxTurns
  /\ \E t \in Talk :
       session' = Append(session, [n |-> Len(session) + 1, role |-> t.role,
                                   kind |-> t.kind, size |-> t.size])
  /\ UNCHANGED <<view, stage, claims, mark, marks, records, seeds, reports, lost,
                 attempts, kills>>

\* An assistant's turn that another of its turns follows.
InBetween(t) ==
  \E i \in 1..(Len(Heard) - 1) :
    Heard[i] = t /\ t.role = "assistant" /\ Heard[i + 1].role = "assistant"

\* A capture numbers the transcript, without the oldest turns in between if it
\* is too long.
StartNumbering ==
  /\ stage = "idle" /\ Heard /= <<>> /\ attempts < MaxAttempts
  /\ \E upTo \in 0..Len(session) :
       view' = SelectSeq(Heard, LAMBDA t : ~(t.n <= upTo /\ InBetween(t)))
  /\ attempts' = attempts + 1 /\ stage' = "extract" /\ claims' = {}
  /\ UNCHANGED <<session, mark, marks, records, seeds, reports, lost, kills>>

Admitted(ranges) ==
  [evidence |-> ranges, text |-> Sliced(Lines(view), ranges), author |-> Author(ranges)]

\* persist_research_seeds
Diverted(ranges) ==
  seeds \cup {[evidence |-> ranges, text |-> Sliced(Lines(view), ranges)]}

\* EXTRACT names ranges for a claim; without a line in them it is dropped.
\* A research seed goes to its sink at once, under the wiki's lock.
TagClaim ==
  /\ stage = "extract"
  /\ \E ranges \in Evidence, seed \in BOOLEAN :
       IF ~Valid(ranges)
       THEN stage' = "research" /\ UNCHANGED <<claims, seeds>>
       ELSE /\ claims' = {Admitted(ranges)}
            /\ seeds' = IF seed THEN Diverted(ranges) ELSE seeds
            /\ stage' = IF seed THEN "research" ELSE "route"
  /\ UNCHANGED <<session, view, mark, marks, records, reports, lost, attempts, kills>>

Cited(ranges) ==
  LET text == Sliced(Lines(view), ranges) IN [id |-> Digest(ranges, text), text |-> text]

\* RECONCILE answers with an operation and ranges of its own; the guide is
\* saved with a marker that is named by them and their text.
MarkGuide ==
  /\ stage = "route"
  /\ \E ranges \in Evidence :
       IF ~Valid(ranges)
       THEN stage' = "research" /\ UNCHANGED <<mark, marks, lost>>
       ELSE /\ mark' = Cited(ranges)
            /\ marks' = marks \cup {mark'} /\ lost' = lost \ {mark'}
            /\ stage' = "receipt"
  /\ UNCHANGED <<session, view, claims, records, seeds, reports, attempts, kills>>

Receipted(m) == m.id \in DOMAIN records /\ records[m.id] = m.text

\* append_citation_log: the receipt is created, or the one of that name says
\* the same; that it says something else, or cannot be read, is only logged.
FileReceipt ==
  /\ stage = "receipt"
  /\ IF mark.id \notin DOMAIN records
     THEN /\ records' = [id \in DOMAIN records \cup {mark.id} |->
                           IF id = mark.id THEN Torn ELSE records[id]]
          /\ stage' = "fill" /\ UNCHANGED <<mark, lost>>
     ELSE /\ lost' = lost \cup {m \in {mark} : ~Receipted(m)}
          /\ stage' = "research" /\ mark' = NoMark /\ UNCHANGED records
  /\ UNCHANGED <<session, view, claims, marks, seeds, reports, attempts, kills>>

FillReceipt ==
  /\ stage = "fill"
  /\ records' = [records EXCEPT ![mark.id] = mark.text]
  /\ stage' = "research" /\ mark' = NoMark
  /\ UNCHANGED <<session, view, claims, marks, seeds, reports, lost, attempts, kills>>

\* parse_recognition_response
Proper(r) == r.start \in 1..r.end

\* The research stage reads the whole transcript as it is by now.  A range
\* that is none or has no text, or whose record exists already, leaves nothing.
Research ==
  /\ stage = "research"
  /\ \E ranges \in Evidence, slug \in Slug :
       LET r == Snapped(Head(ranges))
           text == Cut(Lines(Surveyed), r)
       IN IF ~Proper(Head(ranges)) \/ Blank(text) \/ slug \in DOMAIN reports
          THEN UNCHANGED reports
          ELSE reports' = [x \in DOMAIN reports \cup {slug} |->
                             IF x = slug THEN [lines |-> r, text |-> text] ELSE reports[x]]
  /\ stage' = "idle" /\ claims' = {} /\ view' = <<>>
  /\ UNCHANGED <<session, mark, marks, records, seeds, lost, attempts, kills>>

\* A model fails, the deadline passes, or the process is killed; another
\* attempt may follow.
StopCiting ==
  /\ stage /= "idle"
  /\ stage \in {"receipt", "fill"} => kills < MaxKills
  /\ kills' = kills + IF stage \in {"receipt", "fill"} THEN 1 ELSE 0
  /\ lost' = lost \cup {m \in marks : m = mark /\ ~Receipted(m)}
  /\ stage' = "idle" /\ claims' = {} /\ view' = <<>> /\ mark' = NoMark
  /\ UNCHANGED <<session, marks, records, seeds, reports, attempts>>

CitedNext ==
  \/ Say \/ StartNumbering \/ TagClaim \/ MarkGuide \/ FileReceipt \/ FillReceipt
  \/ Research \/ StopCiting

CitedSpec == CitedInit /\ [][CitedNext]_citedVars

-----------------------------------------------------------------------------
(* Properties.                                                             *)

\* A marker in a guide leads to a receipt with just the lines it was made for,
\* through later captures, repeated attempts, kills and collisions of names;
\* but for those of which the failure was logged, or that were killed between.
ReceiptsHold ==
  \A m \in marks \ (lost \cup {mark}) : Receipted(m)

\* Lines in the order of the session, with nothing that a capture reads left out
\* between two of them but assistant turns that another follows.
Verbatim(segment) ==
  /\ \A k \in DOMAIN segment : segment[k][2] \in 0..session[segment[k][1]].size
  /\ \A k \in 1..(Len(segment) - 1) :
       LET a == segment[k]  b == segment[k + 1] IN
       IF a[2] = 0
       THEN /\ b[2] = 1 /\ b[1] > a[1]
            /\ \A t \in ToSet(Heard) : t.n \in (a[1] + 1)..(b[1] - 1) => InBetween(t)
       ELSE b = <<a[1], IF a[2] = session[a[1]].size THEN 0 ELSE a[2] + 1>>

\* What is kept as evidence is what was said, in its order and whole, however
\* the session goes on.
EvidenceVerbatim ==
  \A e \in claims \cup marks \cup seeds : \A k \in DOMAIN e.text : Verbatim(e.text[k])

\* A claim's author is who said the first line that it is verified by: given
\* that none of its ranges is inverted, begins at no line, or is a blank line.
AuthorSaidIt ==
  \A c \in claims :
    (\A k \in DOMAIN c.evidence :
       /\ Proper(c.evidence[k])
       /\ c.evidence[k].start <= Len(Lines(view)) => ~Blank(Cut(Lines(view), c.evidence[k])))
    => c.author = session[Head(Head(c.text))[1]].role

\* A research record that has a line of a task's result has all of it, and the
\* lines it names are, for as long as the session goes on, those it holds.
RecordsWhole ==
  \A s \in DOMAIN reports :
    LET text == reports[s].text IN
    /\ \A k \in DOMAIN text : session[text[k][1]].kind = "task" /\ text[k][2] /= 0 =>
         \A j \in 1..session[text[k][1]].size : <<text[k][1], j>> \in ToSet(text)
    /\ IsPrefix(text, Cut(Lines(Surveyed), reports[s].lines))

CitesSafe == ReceiptsHold /\ EvidenceVerbatim /\ AuthorSaidIt /\ RecordsWhole
===============================================================================
