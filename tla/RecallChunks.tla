---------------------------- MODULE RecallChunks ----------------------------
(***************************************************************************)
(* `pc recall chunked` (src/src/recall/chunked.rs): the corpus is cut into *)
(* slices that fit a model, threads ask the model what is relevant in each *)
(* slice, and the findings are reduced, over as many passes as it takes,   *)
(* to one answer.                                                          *)
(***************************************************************************)
EXTENDS Integers, Sequences, SequencesExt

CONSTANTS
  Corpora,     \* corpora: sequences of lines [kind, name, size]
  Relevant,    \* the turns a model may quote
  Thread,      \* the threads of the map
  MaxChars,    \* of a slice
  Budget,      \* of the findings in one prompt
  Separator,   \* characters between two findings of a prompt
  Attempts,    \* calls of a throttled model
  MaxPasses    \* reductions before the run gives up

VARIABLES
  corpus,
  chunks,    \* the slices it is cut into
  next,      \* the shared counter: the first slice nobody has taken
  thread,    \* of each thread: the slice it maps, 0 for none, and its calls
  mapped,    \* ghost: of each slice, how often it was mapped
  findings,  \* in the order in which they came: [chunk, quotes]
  stage,     \* "map", "reduce", "answered", "nothing" or "failed"
  round,     \* the findings of this pass
  replies,   \* of this pass so far
  pass,
  answer     \* what the answer quotes

chunkVars == <<corpus, chunks, next, thread, mapped, findings, stage, round, replies, pass, answer>>

CorpusLine == [kind : {"project", "session", "turn"}, name : STRING, size : Nat]
NoLine == [kind |-> "none", name |-> "", size |-> 0]

Resting == [chunk |-> 0, tries |-> 0]

-----------------------------------------------------------------------------
(* chunk_corpus                                                            *)

SizeOf(lines) == FoldSeq(LAMBDA l, n : l.size + n, 0, lines)
Present(line) == IF line = NoLine THEN <<>> ELSE <<line>>

\* append_context_headers: what a slice that begins with the line repeats.
Context(st, line) ==
  CASE line.kind = "project" -> <<>>
    [] line.kind = "session" -> Present(st.project)
    [] line.kind = "turn" -> Present(st.project) \o Present(st.session)

Cut(st, line) ==
  LET full == st.cur # <<>> /\ SizeOf(st.cur) + line.size > MaxChars
  IN [chunks |-> IF full THEN Append(st.chunks, st.cur) ELSE st.chunks,
      cur |-> Append(IF full THEN Context(st, line) ELSE st.cur, line),
      project |-> IF line.kind = "project" THEN line ELSE st.project,
      session |-> CASE line.kind = "project" -> NoLine
                    [] line.kind = "session" -> line
                    [] OTHER -> st.session]

Chunks(lines) ==
  LET st == FoldLeft(Cut, [chunks |-> <<>>, cur |-> <<>>, project |-> NoLine, session |-> NoLine],
                     lines)
  IN IF st.cur = <<>> THEN st.chunks ELSE Append(st.chunks, st.cur)

IsTurn(line) == line.kind = "turn"
TurnsOf(lines) == [k \in DOMAIN SelectSeq(lines, IsTurn) |-> SelectSeq(lines, IsTurn)[k].name]

-----------------------------------------------------------------------------
(* pack_reduce_batches.  A finding is the sequence of its quotes, each one *)
(* character, under a header of one character.                             *)

Item(finding) == SubSeq(finding.quotes, 1, Min({Len(finding.quotes), Budget - 1}))

Pack(st, finding) ==
  LET item == Item(finding)
      full == st.cur # <<>> /\ st.used + Separator + Len(item) + 1 > Budget
  IN IF finding.quotes = <<>> THEN st
     ELSE [batches |-> IF full THEN Append(st.batches, st.cur) ELSE st.batches,
           cur |-> IF full THEN item ELSE st.cur \o item,
           used |-> Len(item) + 1
                      + IF full \/ st.cur = <<>> THEN 0 ELSE st.used + Separator]

Batches(fs) ==
  LET st == FoldLeft(Pack, [batches |-> <<>>, cur |-> <<>>, used |-> 0], fs)
  IN IF st.cur = <<>> THEN st.batches ELSE Append(st.batches, st.cur)

-----------------------------------------------------------------------------
(* Actions.                                                                *)

ChunksInit ==
  /\ corpus \in Corpora /\ chunks = Chunks(corpus)
  /\ next = 1 /\ thread = [t \in Thread |-> Resting]
  /\ mapped = [k \in DOMAIN chunks |-> 0]
  /\ findings = <<>> /\ stage = "map"
  /\ round = <<>> /\ replies = <<>> /\ pass = 0 /\ answer = <<>>

\* A thread takes the next slice.
Take(t) ==
  /\ stage = "map" /\ thread[t] = Resting /\ next <= Len(chunks)
  /\ thread' = [thread EXCEPT ![t] = [chunk |-> next, tries |-> 1]]
  /\ next' = next + 1
  /\ UNCHANGED <<corpus, chunks, mapped, findings, stage, round, replies, pass, answer>>

\* with_backoff: a throttled call is made again, but for the last one.
Throttled(t) ==
  /\ thread[t].chunk # 0 /\ thread[t].tries < Attempts
  /\ thread' = [thread EXCEPT ![t].tries = @ + 1]
  /\ UNCHANGED <<corpus, chunks, next, mapped, findings, stage, round, replies, pass, answer>>

\* The model quotes relevant turns of the slice, says NONE or fails; only
\* quotes are kept.
Map(t) ==
  /\ thread[t].chunk # 0
  /\ LET chunk == thread[t].chunk
         quotable == SelectSeq(TurnsOf(chunks[chunk]), LAMBDA n : n \in Relevant)
     IN /\ mapped' = [mapped EXCEPT ![chunk] = @ + 1]
        /\ \E quotes \in {quotable, <<>>} :
             findings' = IF quotes = <<>> THEN findings
                         ELSE Append(findings, [chunk |-> chunk, quotes |-> quotes])
  /\ thread' = [thread EXCEPT ![t] = Resting]
  /\ UNCHANGED <<corpus, chunks, next, stage, round, replies, pass, answer>>

\* The threads have ended: the findings are sorted by their slices.
EndMap ==
  /\ stage = "map" /\ next > Len(chunks) /\ \A t \in Thread : thread[t] = Resting
  /\ stage' = IF findings = <<>> THEN "nothing" ELSE "reduce"
  /\ round' = SortSeq(findings, LAMBDA a, b : a.chunk < b.chunk)
  /\ UNCHANGED <<corpus, chunks, next, thread, mapped, findings, replies, pass, answer>>

Reducing == stage = "reduce" /\ Len(Batches(round)) > 1

\* One batch is reduced to a reply, which may quote less.
Reduce ==
  /\ Reducing /\ pass < MaxPasses /\ Len(replies) < Len(Batches(round))
  /\ LET batch == Batches(round)[Len(replies) + 1]
     IN \E n \in {1, Len(batch)} :
          replies' = Append(replies, [chunk |-> Len(replies) + 1, quotes |-> SubSeq(batch, 1, n)])
  /\ UNCHANGED <<corpus, chunks, next, thread, mapped, findings, stage, round, pass, answer>>

EndPass ==
  /\ Reducing /\ Len(replies) = Len(Batches(round))
  /\ round' = replies /\ replies' = <<>> /\ pass' = pass + 1
  /\ UNCHANGED <<corpus, chunks, next, thread, mapped, findings, stage, answer>>

\* A call fails, or the findings did not shrink in all the passes.
Fail ==
  /\ stage = "reduce" /\ stage' = "failed"
  /\ UNCHANGED <<corpus, chunks, next, thread, mapped, findings, round, replies, pass, answer>>

Answer ==
  /\ stage = "reduce" /\ Len(Batches(round)) <= 1
  /\ stage' = "answered"
  /\ answer' = IF Batches(round) = <<>> THEN <<>> ELSE Batches(round)[1]
  /\ UNCHANGED <<corpus, chunks, next, thread, mapped, findings, round, replies, pass>>

ChunksNext ==
  \/ \E t \in Thread : Take(t) \/ Throttled(t) \/ Map(t)
  \/ EndMap \/ Reduce \/ EndPass \/ Fail \/ Answer

-----------------------------------------------------------------------------
(* Properties.                                                             *)

ChunksTypeOK ==
  /\ next \in 1..Len(chunks) + 1
  /\ thread \in [Thread -> [chunk : 0..Len(chunks), tries : 0..Attempts]]
  /\ mapped \in [DOMAIN chunks -> 0..Len(chunks)]
  /\ stage \in {"map", "reduce", "answered", "nothing", "failed"}
  /\ pass \in 0..MaxPasses

LastOf(kind, lines) ==
  LET at == {k \in DOMAIN lines : lines[k].kind = kind}
  IN IF at = {} THEN NoLine ELSE lines[CHOOSE k \in at : \A j \in at : j <= k]

\* chunked.rs:38-68: the slices hold the turns of the corpus, each once and in
\* order, every turn under its own project and session; and only a slice that
\* holds one turn, or none, may be too long.
SlicesAreFaithful ==
  LET turns == FoldLeft(LAMBDA all, c : all \o TurnsOf(c), <<>>, chunks)
  IN next = 1 =>
     /\ turns = TurnsOf(corpus)
     /\ \A c \in DOMAIN chunks :
          /\ SizeOf(chunks[c]) > MaxChars => Len(TurnsOf(chunks[c])) <= 1
          /\ \A k \in DOMAIN chunks[c] : IsTurn(chunks[c][k]) =>
               \E j \in DOMAIN corpus :
                 /\ corpus[j] = chunks[c][k]
                 /\ \A kind \in {"project", "session"} :
                      LastOf(kind, SubSeq(chunks[c], 1, k)) = LastOf(kind, SubSeq(corpus, 1, j))

\* chunked.rs:160-186: however the threads run, every slice is mapped once
\* before anything is concluded from the findings.
MappedOnce ==
  /\ \A c \in DOMAIN chunks : mapped[c] <= 1
  /\ stage # "map" => \A c \in DOMAIN chunks : mapped[c] = 1

\* chunked.rs:104-135 and 190-234: a prompt fits, and what was quoted reaches the
\* first pass in the order of the corpus, but for what is cut from a finding
\* that is longer than a prompt.
FindingsReachReduction ==
  /\ \A b \in DOMAIN Batches(round) : Len(Batches(round)[b]) < Budget
  /\ stage = "reduce" /\ pass = 0 =>
       FoldLeft(LAMBDA all, b : all \o b, <<>>, Batches(round))
         = FoldLeft(LAMBDA all, c : all \o
                      FoldLeft(LAMBDA q, f : IF f.chunk = c THEN Item(f) ELSE q, <<>>, findings),
                    <<>>, [c \in DOMAIN chunks |-> c])

ChunksSafe == SlicesAreFaithful /\ MappedOnce /\ FindingsReachReduction
=============================================================================
