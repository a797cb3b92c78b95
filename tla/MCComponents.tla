------------------------------ MODULE MCComponents ------------------------------
(***************************************************************************)
(* The components that share no state with one another, side by side: a    *)
(* behaviour is one of one component, chosen in the initial state.  Each   *)
(* keeps its own constants and its own bounds.  StoreBinding, IndexDaemon, *)
(* SessionLedger, ClaimsLog, WarmPool, GuideWiki, EpisodeCards and         *)
(* EventLog have variables of their own, which stay as they were in the    *)
(* beginning while another component runs; the instantiated modules take   *)
(* turns at x1, x2, ..., and a slot that is not in use is Off.             *)
(***************************************************************************)
EXTENDS StoreBinding, IndexDaemon, SessionLedger, ClaimsLog, WarmPool, GuideWiki,
        EpisodeCards, EventLog, SequencesExt, TLC

CONSTANT NoGuide

VARIABLE part   \* the component that runs

VARIABLES
  x1, x2, x3, x4, x5, x6, x7, x8, x9, x10, x11, x12, x13, x14, x15, x16, x17,
  x18, x19, x20, x21, x22, x23, x24, x25, x26, x27, x28

Off == "off"

\* Two neighbours and a claim that is near only the second.
ClaimPoints == [c1 |-> 0, c2 |-> 2, c3 |-> 4]

WikiLevels == [h \in {"H", "K", "See also", "Retired"} |-> IF h = "K" THEN 3 ELSE 2]
PlainSection(h, said) == [head |-> h, said |-> said, cited |-> {}]
\* A guide with a subsection and a link to the other, which has none.
FirstWiki ==
  [a |-> [body |-> <<PlainSection("H", {"o1"}), PlainSection("K", {"o2"}),
                     PlainSection("See also", {})>>, sees |-> {"b"}],
   b |-> [body |-> <<PlainSection("H", {"o3"})>>, sees |-> {}]]
FirstWikis == {FirstWiki}

\* No arc, one, or two of one subject.
Related(a, b) == TRUE
CardAnswers == {<<>>, <<1>>, <<1, 1>>}

\* Nouns are referred to twice in one turn, again later, and by two sessions.
Conversations ==
  [s |-> << << <<"n", "operate">>, <<"m", "reject">> >>, << <<"n", "operate">> >> >>,
   t |-> << << <<"m", "operate">> >> >>]

\* What the user may write, and what the providers may serve.
Edited ==
  {[key |-> "malformed"],
   [key |-> "key", role |-> [compile |-> "cd", triage |-> "empty"], url |-> "remote",
    initial |-> 0, max |-> 0, knob |-> 60],
   [key |-> "no key", role |-> [compile |-> "ol", triage |-> "bogus"], url |-> "bad",
    initial |-> 40, max |-> 20, knob |-> 0]}
Offers ==
  {[openrouter |-> {"or"}, local |-> {"ol"}, remote |-> {}, claude |-> TRUE],
   [openrouter |-> {}, local |-> {}, remote |-> {"ol"}, claude |-> FALSE],
   [openrouter |-> {}, local |-> {}, remote |-> {}, claude |-> FALSE]}

Commands == (<<"l">> :> "last") @@ (<<"q">> :> "brief") @@ (<<"m">> :> "thinking")
Menu == <<[model |-> "x", provider |-> "openrouter"], [model |-> "y", provider |-> "ollama"]>>

\* Two projects, the first with two sessions, and turns of two sizes.
CorpusLine(k, n, size) == [kind |-> k, name |-> n, size |-> size]
CorpusOf(s) ==
  <<CorpusLine("project", "P", 1), CorpusLine("session", "S", 1), CorpusLine("turn", "a", s[1]),
    CorpusLine("turn", "b", s[2]), CorpusLine("session", "T", 1), CorpusLine("turn", "c", 1),
    CorpusLine("project", "Q", s[3]), CorpusLine("session", "U", 1), CorpusLine("turn", "d", 1),
    CorpusLine("turn", "e", s[4])>>

Written(by, agent, here) == [by |-> by, agent |-> agent, here |-> here]
PromptsBy ==
  {Written("human", "no", TRUE), Written("machine", "no", TRUE), Written("system", "no", TRUE),
   Written("human", "sidechain", TRUE), Written("human", "worktree", TRUE)}
OthersBy ==
  {Written("human", "no", TRUE), Written("human", "no", FALSE), Written("human", "sidechain", TRUE)}

\* Two hooks of one session, or of two that share a file name.
Setting(g, s, t) == [of |-> [h |-> "s", g |-> g], dialect |-> [s |-> s, t |-> t]]
Harnesses == {Setting("s", "codex", "codex"), Setting("s", "hermes", "hermes"),
              Setting("s", "claude", "claude"), Setting("t", "hermes", "codex")}
Turn(role, words, size) == [role |-> role, text |-> words, size |-> size]
\* Two names of one noun, and a guide that may take the other's title.
NounKeys ==
  ("cache" :> "cache") @@ ("caches" :> "cache") @@ ("Cache" :> "cache") @@ ("pool" :> "pool")
    @@ ("Relay pool" :> "relay pool") @@ [x \in {"", "s1", "s2", "tag"} |-> "prose"]
NounWords == ("cache" :> <<"cache">>) @@ ("relay pool" :> <<"relay", "pool">>)
NounAliases == [cache |-> {}, relay |-> {}, pool |-> {}, relaypool |-> {"relay pool"}]
Article(t, topic, s, b, g) ==
  [title |-> t, topic |-> topic, summary |-> s, body |-> b, tags |-> g,
   volatility |-> "low", verified |-> IF t = "" THEN "" ELSE "day"]
NounGuides ==
  [caches |-> {Article("Cache", "", "", "b1", "tag"), Article("", "cache", "s1", "", "")},
   pool |-> {Article("Relay pool", "cache", "s2", "b2", ""), Article("Cache", "pool", "s2", "", "tag"),
             Article("Relay pool", "", "s2", "", "tag")}]
Question(words, asks) == [says |-> words, asks |-> asks, short |-> asks]
NounPrompts ==
  {Question(<<"cache">>, TRUE), Question(<<"relaypool">>, TRUE), Question(<<"relay", "cache">>, FALSE)}
GuideScores == {[caches |-> 3, pool |-> 2], [caches |-> 2, pool |-> 2], [caches |-> 1, pool |-> 3]}
NounStances ==
  {[n \in {"cache", "relay pool"} |-> 3],
   [n \in {"cache", "relay pool"} |-> IF n = "cache" THEN -2 ELSE 1]}

\* Lines of every kind; a text of 18 is longer than a chunk.
MarkdownLine(k, size) == [kind |-> k, size |-> size]
Levelled(k, size, level) == [kind |-> k, size |-> size, level |-> level]
Fence(size, bare) == [kind |-> "fence", size |-> size, width |-> 3, bare |-> bare]
MarkdownLines ==
  {MarkdownLine("text", 5), MarkdownLine("text", 18), MarkdownLine("blank", 0),
   MarkdownLine("row", 5), Levelled("head", 2, 1), Levelled("head", 3, 2),
   Levelled("under", 3, 2), Fence(3, TRUE), Fence(5, FALSE)}

\* What a person, an agent, a tool, the harness and the assistant say; a hash of few digits.
Speech ==
  {[role |-> "user", kind |-> k, size |-> IF k = "task" THEN 2 ELSE 1] :
     k \in {"said", "task", "tool", "harness"}}
    \cup {[role |-> "assistant", kind |-> "said", size |-> 2]}
LinesAt(a, b) == [start |-> a, end |-> b]
ShortDigest(ranges, lines) == ranges[1].start + Cardinality(DOMAIN lines[1])

Said == {Turn("user", "plain", 1), Turn("assistant", "plain", 2), Turn("assistant", "task", 1)}

V == INSTANCE TraceView WITH
  Request <- {"i1", "i2", "c1", "c2"}, Captures <- {"c1", "c2"},
  SessionOf <- [r \in {"i1", "i2", "c1", "c2"} |-> IF r = "i2" THEN "t" ELSE "s"],
  RingCap <- 2, MaxRecords <- 3,
  records <- x1, arrived <- x2, runs <- x3, awaiting <- x4, again <- x5,
  follow <- x6, selected <- x7, modal <- x8, raw <- x9, sibling <- x10,
  kinds <- x11, only <- x12, picker <- x13

N == INSTANCE NounRealness WITH
  Noun <- {"n", "m"}, Session <- {"s", "t"}, Talk <- Conversations, MaxRefs <- 3,
  Chunk <- 2, Windows <- <<3, 1>>, MaxAttempts <- 2, MaxKills <- 1,
  turns <- x1, registry <- x2, pc <- x3, refs <- x4, from <- x5, res <- x6,
  round <- x7, todo <- x8, out <- x9, next <- x10, folds <- x11,
  attempts <- x12, kills <- x13, unread <- x14

R == INSTANCE Replay WITH
  Projects <- << << <<"s1", "s2">> >>, << <<"s3">> >> >>, Cadences <- {0, 2},
  FeedCap <- 2, MaxMisses <- 1,
  screen <- x1, driver <- x2, every <- x3, stats <- x4, requested <- x5,
  scanned <- x6, selected <- x7, shown <- x8, cursor <- x9, asked <- x10,
  confirmed <- x11, captured <- x12, plan <- x13, next <- x14, worker <- x15,
  stop <- x16, mail <- x17, ran <- x18, unkept <- x19, logged <- x20,
  tailed <- x21, seen <- x22, tally <- x23, feed <- x24, scroll <- x25,
  paused <- x26, detail <- x27, finished <- x28

U == INSTANCE StatusLine WITH
  Outcome <- {"compiled"}, Hook <- {"h1", "h2"}, Worker <- {"w1"},
  InjectCap <- 1, CaptureCap <- 1, MaxTime <- 1, MaxCuts <- 1,
  now <- x1, log <- x2, begun <- x3, running <- x4, guides <- x5, cuts <- x6

H == INSTANCE HookInstall WITH
  Binary <- {"pc", "pcdev"}, Longer <- {<<"pcdev", "pc">>}, Event <- {"Prompt", "Start"},
  Wired <- {"Prompt"}, MaxOps <- 4, MaxTears <- 1,
  harness <- x1, settings <- x2, legacy <- x3, text <- x4, plugin <- x5,
  last <- x6, own <- x7, clashed <- x8, ops <- x9, tears <- x10

C == INSTANCE ConfigFile WITH
  Reader <- {"r"}, Spec <- {"or", "ol", "cc", "cd"},
  ProviderOf <- [or |-> "openrouter", ol |-> "ollama", cc |-> "claude-cli", cd |-> "claude-cli"],
  DefaultSpec <- "or", Aliases <- {"cc"}, HandWritten <- Edited, Offering <- Offers,
  Word <- 63, Day <- 30, Lo <- 1, Hi <- 50, Shifts <- 4, MaxSaves <- 2,
  file <- x1, proc <- x2, intended <- x3, raced <- x4, saved <- x5,
  saves <- x6

I == INSTANCE RecallIndex WITH
  File <- {"f", "g"}, Prefix <- [f |-> 1, g |-> 2],
  Says <- [f |-> <<"a", "l">>, g |-> <<"a", "b">>], Long <- {"l"},
  MaxChanges <- 3, MaxRuns <- 2, MaxKills <- 1,
  disk <- x1, turns <- x2, files <- x3, gated <- x4, run <- x5, gate <- x6,
  spoiled <- x7, changes <- x8, runs <- x9, kills <- x10

O == INSTANCE RecallConsole WITH
  Char <- {"l", "m", "q"}, Blank <- {}, Meaning <- Commands, Entries <- Menu,
  MaxLength <- 2, MaxLines <- 3,
  buf <- x1, cursor <- x2, history <- x3, at <- x4, model <- x5, mode <- x6,
  question <- x7, menu <- x8, calls <- x9, asked <- x10, submitted <- x11

K == INSTANCE RecallChunks WITH
  Corpora <- {CorpusOf(s) : s \in [1..4 -> {1, 3}]}, Relevant <- {"a", "b", "d", "e"},
  Thread <- {"t", "u"}, MaxChars <- 5, Budget <- 4, Separator <- 1, Attempts <- 2,
  MaxPasses <- 2,
  corpus <- x1, chunks <- x2, next <- x3, thread <- x4, mapped <- x5,
  findings <- x6, stage <- x7, round <- x8, replies <- x9, pass <- x10,
  answer <- x11

P == INSTANCE TranscriptDump WITH
  Prompts <- PromptsBy, Others <- OthersBy, Text <- {"x", "y"},
  Ways <- {<<"event">>, <<"response">>, <<"event", "response">>, <<"response", "event">>},
  MaxRecords <- 3, MaxLines <- 4,
  provider <- x1, lines <- x2, submitted <- x3

T == INSTANCE HarnessTranscript WITH
  Session <- {"s", "t"}, Hook <- {"h", "g"}, Setups <- Harnesses,
  FileName <- [s |-> "n", t |-> "n"], Rows <- Said, Fits <- 5, Separator <- 1,
  MaxRows <- 3, MaxKills <- 1,
  setup <- x1, source <- x2, file <- x3, hook <- x4, crossed <- x5,
  kills <- x6

F == INSTANCE SessionStores WITH
  Session <- {"s", "t", "u"}, Started <- [s |-> 1, t |-> 2, u |-> 3],
  Homeless <- {"u"}, Since <- 1, Texts <- {"a", "xml"},
  MaxSaid <- 2, MaxRuns <- 2, MaxFaults <- 1,
  source <- x1, isolated <- x2, said <- x3, scan <- x4, listed <- x5,
  plan <- x6, marked <- x7, committed <- x8, captures <- x9,
  forgotten <- x10, runs <- x11, faults <- x12

Q == INSTANCE NounCatalog WITH
  Slug <- {"caches", "pool"}, Names <- <<"cache", "caches", "pool">>, Key <- NounKeys,
  Nouns <- <<"cache", "relay pool">>, WordsOf <- NounWords, Glued <- NounAliases, Common <- {"pool"},
  Versions <- NounGuides, Subjects <- {[of |-> "cache", says |-> "c1"]}, Prompts <- NounPrompts,
  Recents <- {<<>>, <<"relay", "cache">>}, Scores <- GuideScores, Floor <- 2, RealAt <- 3,
  Stances <- NounStances, Cap <- 1, Room <- 2, NoGuide <- NoGuide, MaxEdits <- 4, MaxPrompts <- 1,
  guide <- x1, index <- x2, claims <- x3, signed <- x4, stage <- x5,
  prompt <- x6, recent <- x7, rows <- x8, awake <- x9, catalog <- x10,
  moved <- x11, wasReal <- x12, edits <- x13, prompts <- x14

G == INSTANCE ModelCalls WITH
  MaxAttempts <- 3, PipeRoom <- 2, Sizes <- {1, 3}, Patience <- 3, Phase <- {1, 2}, MaxCalls <- 3,
  at <- x1, asked <- x2, phase <- x3, replies <- x4, result <- x5,
  child <- x6, looks <- x7, size <- x8, got <- x9, events <- x10, turn <- x11

B == INSTANCE CitedLines WITH
  Talk <- Speech, Slug <- {"r"}, Digest <- ShortDigest,
  Evidence <- {<<LinesAt(1, 4)>>, <<LinesAt(3, 4), LinesAt(1, 1)>>},
  MaxTurns <- 3, MaxAttempts <- 2, MaxKills <- 1,
  session <- x1, view <- x2, stage <- x3, claims <- x4, mark <- x5,
  marks <- x6, records <- x7, seeds <- x8, reports <- x9, lost <- x10,
  attempts <- x11, kills <- x12

J == INSTANCE MarkdownChunks WITH
  Menu <- MarkdownLines, Word <- 3, Target <- 15, Overlap <- 6, LeastBudget <- 10,
  MaxLines <- 4,
  doc <- x1, blocks <- x2, pending <- x3, fence <- x4, chunks <- x5

\* A line cites the fact of its name.
OneFact == [l \in {"l1", "l2"} |-> "f"]

Slots == <<x1, x2, x3, x4, x5, x6, x7, x8, x9, x10, x11, x12, x13, x14, x15,
           x16, x17, x18, x19, x20, x21, x22, x23, x24, x25, x26, x27, x28>>

From21 == <<x21, x22, x23, x24, x25, x26, x27, x28>>
From16 == <<x16, x17, x18, x19, x20, From21>>
From15 == <<x15, From16>>
From14 == <<x14, From15>>
From13 == <<x13, From14>>
From12 == <<x12, From13>>
From11 == <<x11, From12>>
From10 == <<x10, From11>>
From7 == <<x7, x8, x9, From10>>
From6 == <<x6, From7>>
From4 == <<x4, x5, From6>>
OffFrom21 ==
  /\ x21 = Off /\ x22 = Off /\ x23 = Off /\ x24 = Off /\ x25 = Off /\
     x26 = Off /\ x27 = Off /\ x28 = Off
OffFrom16 ==
  /\ x16 = Off /\ x17 = Off /\ x18 = Off /\ x19 = Off /\ x20 = Off /\
     OffFrom21
OffFrom15 ==
  /\ x15 = Off /\ OffFrom16
OffFrom14 ==
  /\ x14 = Off /\ OffFrom15
OffFrom13 ==
  /\ x13 = Off /\ OffFrom14
OffFrom12 ==
  /\ x12 = Off /\ OffFrom13
OffFrom11 ==
  /\ x11 = Off /\ OffFrom12
OffFrom10 ==
  /\ x10 = Off /\ OffFrom11
OffFrom7 ==
  /\ x7 = Off /\ x8 = Off /\ x9 = Off /\ OffFrom10
OffFrom6 ==
  /\ x6 = Off /\ OffFrom7
OffFrom4 ==
  /\ x4 = Off /\ x5 = Off /\ OffFrom6
SlotsOff ==
  /\ x1 = Off /\ x2 = Off /\ x3 = Off /\ OffFrom4

Component == {"binding", "pool", "claims", "ledger", "wiki", "cards", "log",
              "view", "realness", "replay", "index", "status", "install",
              "config", "corpus", "console", "chunks", "dump", "transcript",
              "stores", "nouns", "calls", "cited", "markdown"}

ComponentsInit ==
  /\ part \in Component
  /\ BindingInit /\ (part /= "binding" => uuids = 0)
  /\ IndexInit
  /\ Init
  /\ ClaimsInit
  /\ PoolInit /\ (part /= "pool" => socket = NoServer)
  /\ WikiInit
  /\ CardInit
  /\ LogInit /\ (part /= "log" => reader.style = "printer")
  /\ CASE part \in {"binding", "index", "ledger", "claims", "pool", "wiki", "cards", "log"} -> SlotsOff
       [] part = "view" -> V!ViewInit /\ OffFrom14
       [] part = "realness" -> N!RealInit /\ OffFrom15
       [] part = "replay" -> R!ReplayInit
       [] part = "status" -> U!StatusInit /\ OffFrom7
       [] part = "install" -> H!InstallInit /\ OffFrom11
       [] part = "config" -> C!ConfigInit /\ OffFrom7
       [] part = "corpus" -> I!RecallInit /\ OffFrom11
       [] part = "console" -> O!ConsoleInit /\ OffFrom12
       [] part = "chunks" -> K!ChunksInit /\ OffFrom12
       [] part = "dump" -> P!DumpInit /\ OffFrom4
       [] part = "transcript" -> T!TranscriptInit /\ OffFrom7
       [] part = "stores" -> F!StoresInit /\ OffFrom13
       [] part = "nouns" -> Q!CatalogInit /\ OffFrom15
       [] part = "calls" -> G!CallsInit /\ OffFrom12
       [] part = "cited" -> B!CitedInit /\ OffFrom13
       [] part = "markdown" -> J!ChunkerInit /\ OffFrom6

extendedVars ==
  <<bindingVars, indexVars, ledgerVars, claimsVars, warmVars, wikiVars, cardVars, eventVars>>

BindingStep ==
  /\ part = "binding" /\ BindingNext
  /\ UNCHANGED <<part, indexVars, ledgerVars, claimsVars, warmVars, wikiVars, cardVars, eventVars, Slots>>

PoolStep ==
  /\ part = "pool" /\ PoolNext
  /\ UNCHANGED <<part, bindingVars, indexVars, ledgerVars, claimsVars, wikiVars, cardVars, eventVars, Slots>>

ClaimsStep ==
  /\ part = "claims" /\ ClaimsNext
  /\ UNCHANGED <<part, bindingVars, indexVars, ledgerVars, warmVars, wikiVars, cardVars, eventVars, Slots>>

LedgerStep ==
  /\ part = "ledger" /\ Next
  /\ UNCHANGED <<part, bindingVars, indexVars, claimsVars, warmVars, wikiVars, cardVars, eventVars, Slots>>

WikiStep ==
  /\ part = "wiki" /\ WikiNext
  /\ UNCHANGED <<part, bindingVars, indexVars, ledgerVars, claimsVars, warmVars, cardVars, eventVars, Slots>>

CardsStep ==
  /\ part = "cards" /\ CardNext
  /\ UNCHANGED <<part, bindingVars, indexVars, ledgerVars, claimsVars, warmVars, wikiVars, eventVars, Slots>>

LogStep ==
  /\ part = "log" /\ LogNext
  /\ UNCHANGED <<part, bindingVars, indexVars, ledgerVars, claimsVars, warmVars, wikiVars, cardVars, Slots>>

ViewStep ==
  /\ part = "view" /\ V!ViewNext
  /\ UNCHANGED <<part, extendedVars, From14>>

RealnessStep ==
  /\ part = "realness" /\ N!RealNext
  /\ UNCHANGED <<part, extendedVars, From15>>

ReplayStep ==
  /\ part = "replay" /\ R!ReplayNext
  /\ UNCHANGED <<part, extendedVars>>

IndexStep ==
  /\ part = "index" /\ IndexNext
  /\ UNCHANGED <<part, bindingVars, ledgerVars, claimsVars, warmVars, wikiVars, cardVars, eventVars, Slots>>

StatusStep ==
  /\ part = "status" /\ U!StatusNext
  /\ UNCHANGED <<part, extendedVars, From7>>

InstallStep ==
  /\ part = "install" /\ H!InstallNext
  /\ UNCHANGED <<part, extendedVars, From11>>

ConfigStep ==
  /\ part = "config" /\ C!ConfigNext
  /\ UNCHANGED <<part, extendedVars, From7>>

CorpusStep ==
  /\ part = "corpus" /\ I!RecallNext
  /\ UNCHANGED <<part, extendedVars, From11>>

ConsoleStep ==
  /\ part = "console" /\ O!ConsoleNext
  /\ UNCHANGED <<part, extendedVars, From12>>

ChunksStep ==
  /\ part = "chunks" /\ K!ChunksNext
  /\ UNCHANGED <<part, extendedVars, From12>>

DumpStep ==
  /\ part = "dump" /\ P!DumpNext
  /\ UNCHANGED <<part, extendedVars, From4>>

TranscriptStep ==
  /\ part = "transcript" /\ T!TranscriptNext
  /\ UNCHANGED <<part, extendedVars, From7>>

StoresStep ==
  /\ part = "stores" /\ F!StoresNext
  /\ UNCHANGED <<part, extendedVars, From13>>

NounsStep ==
  /\ part = "nouns" /\ Q!CatalogNext
  /\ UNCHANGED <<part, extendedVars, From15>>

CallsStep ==
  /\ part = "calls" /\ G!CallsNext
  /\ UNCHANGED <<part, extendedVars, From12>>

CitedStep ==
  /\ part = "cited" /\ B!CitedNext
  /\ UNCHANGED <<part, extendedVars, From13>>

MarkdownStep ==
  /\ part = "markdown" /\ J!ChunkerNext
  /\ UNCHANGED <<part, extendedVars, From6>>

ComponentsNext ==
  \/ BindingStep
  \/ PoolStep
  \/ ClaimsStep
  \/ LedgerStep
  \/ WikiStep
  \/ CardsStep
  \/ LogStep
  \/ ViewStep
  \/ RealnessStep
  \/ ReplayStep
  \/ IndexStep
  \/ StatusStep
  \/ InstallStep
  \/ ConfigStep
  \/ CorpusStep
  \/ ConsoleStep
  \/ ChunksStep
  \/ DumpStep
  \/ TranscriptStep
  \/ StoresStep
  \/ NounsStep
  \/ CallsStep
  \/ CitedStep
  \/ MarkdownStep

ComponentsSpec ==
  ComponentsInit /\ [][ComponentsNext]_<<part, extendedVars, Slots>>

-----------------------------------------------------------------------------
(* Properties: those of the components, each of the component that runs;   *)
(* BindingSafe, IndexSafe, LedgerSafe, ClaimsSafe, PoolSafe, WikiSafe,     *)
(* CardsSafe and LogSafe are in the modules they are of.                   *)

\* Every component keeps the types of its variables.
ComponentsTypeOK ==
  CASE part = "pool" -> PoolTypeOK
    [] part = "binding" -> BindingTypeOK
    [] part = "claims" -> ClaimsTypeOK
    [] part = "ledger" -> TypeOK
    [] part = "wiki" -> WikiTypeOK
    [] part = "cards" -> CardTypeOK
    [] part = "log" -> LogTypeOK
    [] part = "view" -> V!ViewTypeOK
    [] part = "realness" -> N!RealTypeOK
    [] part = "replay" -> R!ReplayTypeOK
    [] part = "index" -> IndexTypeOK
    [] part = "status" -> U!StatusTypeOK
    [] part = "install" -> H!InstallTypeOK
    [] part = "config" -> C!ConfigTypeOK
    [] part = "corpus" -> I!RecallTypeOK
    [] part = "console" -> O!ConsoleTypeOK
    [] part = "chunks" -> K!ChunksTypeOK
    [] part = "dump" -> P!DumpTypeOK
    [] part = "transcript" -> T!TranscriptTypeOK
    [] part = "stores" -> F!StoresTypeOK
    [] part = "nouns" -> Q!CatalogTypeOK
    [] part = "calls" -> G!CallsTypeOK
    [] part = "cited" -> B!CitedTypeOK
    [] part = "markdown" -> J!ChunkerTypeOK

\* tui.rs, statusline.rs and recall/repl.rs: the cursor is on a row, and an
\* injection's row shows one capture; a status that says someone is at work is
\* recent, and shows the newest prompt; the console's history and usage are
\* those of what was asked.
ViewSafe ==
  /\ part = "view" => V!CursorOnRow /\ V!OneCapturePerRow
  /\ part = "status" => U!StatusTrue
  /\ part = "console" => O!ConsoleSafe

\* realness.rs and nouns.rs: an answer is that to its own reference, and the
\* registry is the sum of what was folded into it; catalog_nouns.rs: only what
\* the user made real is offered, with one guide behind it and what was said
\* of it, and to the prompt that it let pass.
RealnessSafe ==
  /\ part = "realness" => N!AnswersAligned /\ N!RegistryIsSum
  /\ part = "nouns" => Q!NounsSafe

\* archeologist.rs: what runs was asked for, a wiki is maintained before the
\* replay leaves it, the report counts every session, and a paused feed does
\* not move under its reader.
ReplaySafe ==
  /\ [](part = "replay" => R!RunsAreConfirmed /\ R!MaintenanceKeepsUp /\ R!ReportComplete)
  /\ [][part = "replay" => R!LineKept]_Slots

\* install.rs, config.rs, configure.rs, health.rs and store_sync.rs: hooks are
\* installed once and removed entirely, those of the user are kept, what is
\* configured is kept and healthy, and retries are spaced whatever the numbers;
\* capture.rs, openrouter.rs and claude_cli.rs: what a call of the configured
\* model returns was answered to it, whole, and is traced.
SetupSafe ==
  /\ part = "install" => H!InstalledOnce /\ H!RemovedEntirely /\ H!UsersHooksKept
  /\ part = "config" => C!ConfigSafe
  /\ part = "calls" => G!CallsSafe

\* recall: what an incremental run skips is indexed whole, verdicts stay with
\* their texts, slices lose no turn and findings reach the reduction; chunker.rs:
\* no text of a document is lost, torn or put under another's headings.
RecallSafe ==
  /\ part = "corpus" => I!RecallSafe
  /\ part = "chunks" => K!ChunksSafe
  /\ part = "markdown" => J!ChunksSafe

\* harness/mod.rs, transcript.rs and recall/extract.rs: a hook reads its own
\* session's words, a reply is dumped if a person asked for it, and a prompt
\* once; opencode.rs, tenex.rs and codex.rs: the archeologist finds every
\* session, copies what was said in order, and captures it once; capture.rs and
\* research_capture.rs: a marker's receipt, a seed and a research record hold
\* the lines that were said, and a claim is its author's.
TranscriptSafe ==
  /\ part = "transcript" => T!TranscriptSafe
  /\ part = "dump" => P!DumpSafe
  /\ part = "stores" => F!StoresSafe
  /\ part = "cited" => B!CitesSafe
================================================================================
