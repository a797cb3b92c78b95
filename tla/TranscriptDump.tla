--------------------------- MODULE TranscriptDump ---------------------------
(***************************************************************************)
(* What `pc recall dump` and the index make of a transcript that grows     *)
(* (src/src/recall/extract.rs, dump.rs).  A Claude transcript is a forest  *)
(* of records, branches of agents among them, and one message is written   *)
(* over several lines; Codex writes a prompt as an event, as a response or *)
(* as both.  The dump is a function of the lines.                          *)
(***************************************************************************)
EXTENDS Integers, Sequences, FiniteSets, SequencesExt

CONSTANTS
  Prompts,    \* the prompts of a Claude transcript: [by, agent, here]
  Others,     \* its other records: [by, agent, here]
  Text,       \* of the prompts of a Codex transcript
  Ways,       \* how Codex records a prompt: sequences of "event" and "response"
  MaxRecords, \* bound: lines of a Claude transcript
  MaxLines    \* bound: lines of a Codex transcript, not less

VARIABLES
  provider,   \* whose transcript it is
  lines,      \* the transcript
  submitted   \* ghost: of each prompt of Codex its text and its way

dumpVars == <<provider, lines, submitted>>

\* by: "human", "machine" for a prompt the harness wrote, "system" for one that
\* only its source tells from a person's; agent: "no",
\* "sidechain" or "worktree"; here: its directory passes the filter; ts: 0 for
\* no timestamp.
Claude == [kind : {"prompt", "result", "reply"}, by : {"human", "machine", "system"},
           agent : {"no", "sidechain", "worktree"}, here : BOOLEAN,
           parent : 0..MaxLines, message : 0..MaxLines, ts : 0..MaxLines]
\* A meta line tells whether a person works in the session, in the directory.
Codex == [kind : {"event", "response", "reply", "meta"}, text : Text \cup {"none"},
          human : BOOLEAN, here : BOOLEAN, of : 0..MaxLines, ts : 0..MaxLines]

DumpTypeOK ==
  /\ provider \in {"claude", "codex"}
  /\ lines \in Seq(IF provider = "claude" THEN Claude ELSE Codex) /\ Len(lines) <= MaxLines
  /\ submitted \in Seq([text : Text, way : Ways])

-----------------------------------------------------------------------------
(* extract_claude_dump and extract_claude.                                 *)

\* claude_is_agent_record.
IsAgent(rec) == rec.agent # "no"

Record(i, role, texts) == [line |-> i, role |-> role, texts |-> texts, ts |-> lines[i].ts]

\* message_text, prepare_user_dump_text and the tests of the human's prompt.
Human(rec) == rec.by = "human" /\ ~IsAgent(rec)

Shown(st, rec) ==
  LET i == Len(st.lineage) + 1
      above == IF rec.parent \in DOMAIN st.lineage THEN st.lineage[rec.parent] ELSE st.current
      included == IF rec.kind = "prompt" THEN Human(rec) ELSE above /\ ~IsAgent(rec)
      seen == {k \in DOMAIN st.out : st.out[k].role = "assistant"
                                       /\ lines[st.out[k].line].message = rec.message}
  IN [lineage |-> Append(st.lineage, included),
      current |-> included,
      out |-> CASE ~included \/ ~rec.here \/ rec.kind = "result" -> st.out
                [] rec.kind = "prompt" -> Append(st.out, Record(i, "user", <<i>>))
                [] rec.kind = "reply" /\ seen = {} ->
                     Append(st.out, Record(i, "assistant", <<i>>))
                [] OTHER -> [st.out EXCEPT ![CHOOSE k \in seen : TRUE].texts = Append(@, i)]]

ClaudeDump == FoldLeft(Shown, [lineage |-> <<>>, current |-> TRUE, out |-> <<>>], lines).out

\* The lines the index takes for the user's own words.
ClaudeIndex == {i \in DOMAIN lines : /\ lines[i].kind = "prompt" /\ lines[i].by # "machine"
                                     /\ lines[i].agent # "sidechain"}

-----------------------------------------------------------------------------
(* extract_codex_dump_lines and extract_codex_content.                     *)

At(kind) == SelectSeq([i \in DOMAIN lines |-> i], LAMBDA i : lines[i].kind = kind)
Same(i, j) == lines[i].text = lines[j].text
Matches(is, j) == Cardinality({k \in DOMAIN is : Same(is[k], j)})

\* codex_is_human and CwdFilter::matches: one line drops the session.
Dropped == \E i \in DOMAIN lines : lines[i].kind = "meta" /\ ~(lines[i].human /\ lines[i].here)

\* Mutant of Unpaired: no response is paired with an event.
UnpairedAll == Range(At("response"))

\* A response is left out while an event of its text remains to pair it with.
Unpaired ==
  LET responses == At("response")
      spare(k) ==
        Matches(SubSeq(responses, 1, k), responses[k]) > Matches(At("event"), responses[k])
  IN {responses[k] : k \in {j \in DOMAIN responses : spare(j)}}

CodexDump ==
  LET users == Range(At("event")) \cup Unpaired
      kept == IF Dropped THEN <<>>
              ELSE SelectSeq([i \in DOMAIN lines |-> i],
                             LAMBDA i : i \in users \/ lines[i].kind = "reply")
  IN [k \in DOMAIN kept |->
        Record(kept[k], IF kept[k] \in users THEN "user" ELSE "assistant", <<kept[k]>>)]

CodexIndex ==
  IF \E i \in DOMAIN lines : lines[i].kind = "meta" /\ ~lines[i].human THEN {}
  ELSE Range(At("event") \o At("response"))

-----------------------------------------------------------------------------
(* dump_records and build_dump: the records come ordered by their times    *)
(* and are put back in the order of the lines, under the session's bounds. *)

ByTime(records) == SortSeq(records, LAMBDA a, b : a.ts < b.ts \/ (a.ts = b.ts /\ a.line < b.line))

Grown(session, rec) ==
  [started |-> IF rec.ts # 0 /\ (session.started = 0 \/ rec.ts < session.started)
               THEN rec.ts ELSE session.started,
   ended |-> IF rec.ts # 0 /\ (session.ended = 0 \/ rec.ts > session.ended)
             THEN rec.ts ELSE session.ended,
   messages |-> SortSeq(Append(session.messages, rec), LAMBDA a, b : a.line < b.line)]

DumpedSession == FoldLeft(Grown, [started |-> 0, ended |-> 0, messages |-> <<>>],
                    ByTime(IF provider = "claude" THEN ClaudeDump ELSE CodexDump))

-----------------------------------------------------------------------------
(* Actions: the harness writes.                                            *)

DumpInit ==
  /\ provider \in {"claude", "codex"}
  /\ lines = <<>> /\ submitted = <<>>

TranscriptLine(kind, about, parent, message) ==
  [kind |-> kind, by |-> about.by, agent |-> about.agent, here |-> about.here,
   parent |-> parent, message |-> message, ts |-> Len(lines) + 1]

\* A record follows any earlier one, or none.
WriteRecord ==
  /\ provider = "claude" /\ Len(lines) < MaxRecords
  /\ \E parent \in 0..Len(lines) :
       \/ \E p \in Prompts : lines' = Append(lines, TranscriptLine("prompt", p, parent, 0))
       \/ \E o \in Others : lines' = Append(lines, TranscriptLine("result", o, parent, 0))
       \/ \E o \in Others :
            lines' = Append(lines, TranscriptLine("reply", o, parent, Len(lines) + 1))
  /\ UNCHANGED <<provider, submitted>>

\* A further line of a message follows its last one.
WriteMore ==
  /\ provider = "claude" /\ Len(lines) < MaxRecords
  /\ \E i \in DOMAIN lines :
       /\ lines[i].kind = "reply"
       /\ \A j \in i + 1..Len(lines) : lines[j].message # lines[i].message
       /\ lines' = Append(lines, [lines[i] EXCEPT !.parent = i, !.ts = Len(lines) + 1])
  /\ UNCHANGED <<provider, submitted>>

CodexLine(kind, text, of) ==
  [kind |-> kind, text |-> text, human |-> TRUE, here |-> TRUE, of |-> of, ts |-> Len(lines) + 1]

Submit ==
  /\ provider = "codex"
  /\ \E text \in Text, way \in Ways :
       /\ Len(lines) + Len(way) <= MaxLines
       /\ lines' = lines \o [k \in DOMAIN way |-> CodexLine(way[k], text, Len(submitted) + 1)]
       /\ submitted' = Append(submitted, [text |-> text, way |-> way])
  /\ UNCHANGED provider

Reply ==
  /\ provider = "codex" /\ Len(lines) < MaxLines
  /\ \E ts \in {0, Len(lines) + 1} :
       lines' = Append(lines, [CodexLine("reply", "none", Len(submitted)) EXCEPT !.ts = ts])
  /\ UNCHANGED <<provider, submitted>>

WriteMeta ==
  /\ provider = "codex" /\ Len(lines) < MaxLines
  /\ \E human, here \in BOOLEAN :
       lines' = Append(lines, [CodexLine("meta", "none", 0)
                                 EXCEPT !.human = human, !.here = here])
  /\ UNCHANGED <<provider, submitted>>

DumpNext == WriteRecord \/ WriteMore \/ Submit \/ Reply \/ WriteMeta

-----------------------------------------------------------------------------
(* Properties.                                                             *)

\* The prompt a record descends from, 0 when it has none: the record whose
\* parent is not in the transcript follows the line before it.
PromptOf[i \in 0..MaxLines] ==
  IF i \notin DOMAIN lines \/ lines[i].kind = "prompt" THEN i
  ELSE PromptOf[IF lines[i].parent = 0 THEN i - 1 ELSE lines[i].parent]
Path[i \in 0..MaxLines] ==
  IF i \notin DOMAIN lines THEN {}
  ELSE {i} \cup IF lines[i].kind = "prompt" THEN {}
                ELSE Path[IF lines[i].parent = 0 THEN i - 1 ELSE lines[i].parent]

DumpedLines == UNION {Range(DumpedSession.messages[k].texts) : k \in DOMAIN DumpedSession.messages}

\* extract.rs:246-318: a reply is dumped if and only if a person asked for it:
\* neither the harness nor an agent is between, on whatever branch.
RepliesAreAsked ==
  provider = "claude" =>
    \A i \in DOMAIN lines : lines[i].kind = "reply" /\ lines[i].here =>
      (i \in DumpedLines
         <=> /\ \A j \in Path[i] : ~IsAgent(lines[j])
             /\ PromptOf[i] = 0 \/ lines[PromptOf[i]].by = "human")

\* extract.rs:287-307: a message is one record, with all its lines in order.
MessagesWhole ==
  provider = "claude" =>
    LET out == DumpedSession.messages
        message(k) == lines[out[k].line].message
        texts(k) == out[k].texts
    IN /\ \A k, m \in DOMAIN out :
            k < m => out[k].line < out[m].line
                       /\ (out[m].role = "user" \/ message(k) # message(m))
       /\ \A k \in DOMAIN out : \A n \in 1..Len(texts(k)) - 1 : texts(k)[n] < texts(k)[n + 1]

\* extract.rs:519-533: a prompt of Codex is dumped once, whichever way it was
\* recorded, unless its text was submitted again the other way only.
PromptsDumpedOnce ==
  provider = "codex" /\ ~Dropped =>
    \A t \in Text :
      LET of == {k \in DOMAIN submitted : submitted[k].text = t}
          only(kind) == {k \in of : Range(submitted[k].way) = {kind}}
          dumped == {i \in DumpedLines : lines[i].text = t}
      IN /\ Cardinality(dumped) <= Cardinality(of)
         /\ only("event") = {} \/ only("response") = {} => Cardinality(dumped) = Cardinality(of)

\* extract.rs: what the index takes for the user's words is in the dump too,
\* but for prompts in the worktree of an agent and those of the system.
IndexedIsDumped ==
  IF provider = "claude"
  THEN \A i \in ClaudeIndex : lines[i].here =>
         i \in DumpedLines \/ lines[i].agent = "worktree" \/ lines[i].by = "system"
  ELSE ~Dropped =>
         {lines[i].text : i \in CodexIndex} = {lines[i].text : i \in DumpedLines} \ {"none"}

\* dump.rs:156-222: the bounds of a session are the first and the last time in it.
BoundsHold ==
  LET times == {DumpedSession.messages[k].ts : k \in DOMAIN DumpedSession.messages} \ {0}
  IN /\ times = {} => DumpedSession.started = 0 /\ DumpedSession.ended = 0
     /\ times # {} => DumpedSession.started = Min(times) /\ DumpedSession.ended = Max(times)

DumpSafe ==
  RepliesAreAsked /\ MessagesWhole /\ PromptsDumpedOnce /\ IndexedIsDumped /\ BoundsHold
=============================================================================
