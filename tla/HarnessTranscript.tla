-------------------------- MODULE HarnessTranscript --------------------------
(***************************************************************************)
(* How a hook comes by the conversation of its session (harness/mod.rs,    *)
(* transcript.rs): Claude's transcript is read as it is, that of Codex and *)
(* the history that Hermes sends are first rewritten to a temporary file   *)
(* named after the session.  Hooks of a session run beside each other, and *)
(* the conversation goes on.  What is read is then cut to fit a model.     *)
(***************************************************************************)
EXTENDS Integers, Sequences, FiniteSets, SequencesExt

CONSTANTS
  Session, Hook,
  Setups,      \* [of, dialect]: of a hook its session, and of a session whether
               \* its harness is "claude", "codex" or "hermes"
  FileName,    \* of a session: its temporary file, whose name drops characters
  Rows,        \* what may be said: [role, text, size]
  Fits,        \* characters a model takes
  Separator,   \* characters between two turns
  MaxRows,     \* bound: rows of all conversations
  MaxKills     \* bound: hooks killed

VARIABLES
  setup,    \* the one there is
  source,   \* of each session: its conversation as the harness has it
  file,     \* of each name: the turns in the temporary file
  hook,     \* of each hook: where it is, what it wrote, read and saw beside it
  crossed,  \* ghost: the hooks whose file another hook has opened meanwhile
  kills

transcriptVars == <<setup, source, file, hook, crossed, kills>>

Row == [role : {"user", "assistant", "system"}, text : {"plain", "xml", "task"}, size : Nat]
NoHook == [at |-> "idle", turns |-> <<>>, got |-> <<>>, context |-> <<>>]
SessionOf(h) == setup.of[h]
NameOf(h) == FileName[SessionOf(h)]
DialectOf(h) == setup.dialect[SessionOf(h)]

TranscriptTypeOK ==
  /\ setup \in Setups
  /\ source \in [Session -> Seq(Row)]
  /\ file \in [Range(FileName) -> Seq(Row)]
  /\ hook \in [Hook -> [at : {"idle", "open", "write", "read", "context", "done"},
                        turns : Seq(Row), got : Seq(Row), context : Seq(Row)]]
  /\ crossed \subseteq Hook /\ kills \in 0..MaxKills

-----------------------------------------------------------------------------
(* What the parsers keep.                                                  *)

Spoken(row) == row.role \in {"user", "assistant"}

\* parse_codex_rollout: no text that begins with a tag.
Rollout(rows) == SelectSeq(rows, LAMBDA r : Spoken(r) /\ r.text = "plain")

\* parse_transcript: the report of a task is kept.
Visible(rows) == SelectSeq(rows, LAMBDA r : Spoken(r) /\ r.text # "xml")

-----------------------------------------------------------------------------
(* reduce_turns_to_fit                                                     *)

\* The cost of the turns whose places are kept.
Measure(turns, kept) ==
  IF kept = {} THEN 0
  ELSE FoldFunctionOnSet(+, 0, [k \in DOMAIN turns |-> turns[k].size], kept)
         + Separator * (Cardinality(kept) - 1)

Between(turns) ==
  {k \in 1..Len(turns) - 1 : turns[k].role = "assistant" /\ turns[k + 1].role = "assistant"}

\* Turns in between are dropped from the oldest on, while it is too long.
Kept(turns) ==
  FoldLeft(LAMBDA kept, k : IF k \in Between(turns) /\ Measure(turns, kept) > Fits
                            THEN kept \ {k} ELSE kept,
           DOMAIN turns, [k \in DOMAIN turns |-> k])

-----------------------------------------------------------------------------
TranscriptInit ==
  /\ setup \in Setups
  /\ source = [s \in Session |-> <<>>]
  /\ file = [n \in Range(FileName) |-> <<>>]
  /\ hook = [h \in Hook |-> NoHook]
  /\ crossed = {} /\ kills = 0

At(h, step) == hook[h].at = step

\* The harness adds a row.
Say(s) ==
  /\ s \in Range(setup.of)
  /\ FoldFunction(LAMBDA rows, n : Len(rows) + n, 0, source) < MaxRows
  /\ \E r \in Rows : source' = [source EXCEPT ![s] = Append(@, r)]
  /\ UNCHANGED <<setup, file, hook, crossed, kills>>

\* normalize_inner: without turns there is no transcript.
Normalize(h) ==
  /\ At(h, "idle")
  /\ LET rows == source[SessionOf(h)]
         turns == CASE DialectOf(h) = "claude" -> <<>>
                    [] DialectOf(h) = "codex" -> Rollout(rows)
                    [] DialectOf(h) = "hermes" -> rows
     IN hook' = [hook EXCEPT ![h].turns = turns,
                             ![h].at = CASE DialectOf(h) = "claude" -> "read"
                                         [] turns = <<>> -> "done"
                                         [] OTHER -> "open"]
  /\ UNCHANGED <<setup, source, file, crossed, kills>>

Neighbours(h) == {g \in Hook \ {h} : /\ NameOf(g) = NameOf(h)
                                      /\ hook[g].at \in {"write", "read", "context"}}

\* write_canonical_transcript: the file is opened and emptied, then written.
OpenFile(h) ==
  /\ At(h, "open")
  /\ file' = [file EXCEPT ![NameOf(h)] = <<>>]
  /\ hook' = [hook EXCEPT ![h].at = "write"]
  /\ crossed' = crossed \cup Neighbours(h)
  /\ UNCHANGED <<setup, source, kills>>

\* What another hook has written further on stays.
Over(old, new) == new \o SubSeq(old, Len(new) + 1, Len(old))

WriteFile(h) ==
  /\ At(h, "write")
  /\ file' = [file EXCEPT ![NameOf(h)] = Over(@, hook[h].turns)]
  /\ hook' = [hook EXCEPT ![h].at = "read"]
  /\ crossed' = crossed \cup {g \in Neighbours(h) : SessionOf(g) # SessionOf(h)}
                  \cup {g \in {h} : file[NameOf(h)] # <<>>}
  /\ UNCHANGED <<setup, source, kills>>

Contents(h) == IF DialectOf(h) = "claude" THEN source[SessionOf(h)] ELSE file[NameOf(h)]

Read(h) ==
  /\ At(h, "read")
  /\ hook' = [hook EXCEPT ![h].got = Visible(Contents(h)), ![h].at = "context"]
  /\ UNCHANGED <<setup, source, file, crossed, kills>>

\* What the model sees already: of Codex the rollout itself.
ReadContext(h) ==
  /\ At(h, "context")
  /\ hook' = [hook EXCEPT ![h].at = "done",
                          ![h].context = IF DialectOf(h) = "codex" THEN source[SessionOf(h)]
                                         ELSE Contents(h)]
  /\ UNCHANGED <<setup, source, file, crossed, kills>>

\* A hook is killed, and the harness may run it for the next prompt.
Again(h) ==
  /\ hook[h].at # "idle" /\ kills < MaxKills
  /\ kills' = kills + 1
  /\ hook' = [hook EXCEPT ![h] = NoHook] /\ crossed' = crossed \ {h}
  /\ UNCHANGED <<setup, source, file>>

TranscriptNext ==
  \/ \E s \in Session : Say(s)
  \/ \E h \in Hook : Normalize(h) \/ OpenFile(h) \/ WriteFile(h) \/ Read(h)
                       \/ ReadContext(h) \/ Again(h)

-----------------------------------------------------------------------------
(* Properties.                                                             *)

HasRead(h) == hook[h].at \in {"context", "done"}
Conversation(h, rows) == IF DialectOf(h) = "codex" THEN Rollout(rows) ELSE Visible(rows)
Alone(h) == \A s \in Session \ {SessionOf(h)} : FileName[s] # NameOf(h)

\* harness/mod.rs:285-308: a hook reads what it has written, or more, unless
\* another hook has opened the same file meanwhile, and never anything but a
\* first part of its session's conversation, unless another session has that name.
OwnWordsRead ==
  \A h \in Hook : HasRead(h) =>
    /\ h \notin crossed => IsPrefix(Visible(hook[h].turns), hook[h].got)
    /\ Alone(h) => IsPrefix(hook[h].got, Conversation(h, source[SessionOf(h)]))

\* harness/mod.rs:237-247: what the model is known to see holds all that the
\* hook took for the conversation, unless the file was opened in between.
ContextCovers ==
  \A h \in Hook : At(h, "done") /\ h \notin crossed =>
    IsPrefix(hook[h].got, Conversation(h, hook[h].context))

\* transcript.rs:628-706: no turn of the user and no last answer is dropped, no
\* turn without need, and what is still too long has no turn in between.
ReducedFaithfully ==
  \A h \in Hook :
    LET turns == hook[h].got
        dropped == DOMAIN turns \ Kept(turns)
    IN /\ \A k \in dropped : turns[k].role = "assistant" /\ turns[k + 1].role = "assistant"
       /\ Measure(turns, Kept(turns)) > Fits => Between(turns) \subseteq dropped
       /\ \A k \in dropped : Measure(turns, Kept(turns) \cup {j \in dropped : j >= k}) > Fits

TranscriptSafe == OwnWordsRead /\ ContextCovers /\ ReducedFaithfully
=============================================================================
