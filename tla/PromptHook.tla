------------------------------ MODULE PromptHook ------------------------------
(***************************************************************************)
(* The injection hook of a prompt (src/src/inject/): from the prompt to    *)
(* what SessionLedger commits and prints.  A hook reads what the           *)
(* transcript shows already, retrieves evidence that is not in it, lets    *)
(* one model select keys of a catalog and another compile lines that cite  *)
(* the selected sources, asks each of them once more if the answer is      *)
(* malformed, and fails closed, without a word, on every error.            *)
(*                                                                         *)
(* A key of the catalog stands for a source: a guide has its own row and   *)
(* may have the row of a noun beside it.  A source is here the set of      *)
(* lines that cite it.                                                     *)
(***************************************************************************)
EXTENDS SessionLedger, SequencesExt

CONSTANTS
  Key, Source,
  SourceOf,    \* the source a key stands for
  KindOf,      \* of a key: guide, noun, episode, ...
  TierOf,      \* of a key: its currentness and authority, larger is better
  MaxTier,
  Catalog,     \* all keys, best score first
  FoundIn,     \* the source a fact is in
  MaxGuides    \* sources compiled at most (inject_max_guides)

ASSUME PromptAssumption ==
  /\ SourceOf \in [Key -> Source]
  /\ MaxTier \in Nat /\ TierOf \in [Key -> 0..MaxTier]
  /\ Catalog \in Seq(Key) /\ IsInjective(Catalog) /\ ToSet(Catalog) = Key
  /\ DOMAIN KindOf = Key
  /\ FoundIn \in [Fact -> Source]
  /\ MaxGuides \in Nat \ {0}

VARIABLES
  stage,    \* of each hook: where it is before and around the commit
  asker,    \* the session that sent the prompt
  context,  \* the lines the hook saw in the transcript
  sources,  \* the sources in play: those with evidence, then those selected,
            \* then those given to the compiling model
  selected, \* the keys the selecting model named, until they are read
  visible,  \* what the recent part of a session's transcript shows
  flagged,  \* the session's warning marker exists
  warned,   \* warnings printed to the session
  asked     \* prompts so far

stageVars == <<stage, asker, context, sources, selected>>
warnVars == <<flagged, warned>>
promptVars == <<ledgerVars, stageVars, visible, warnVars, asked>>

Stage == {"off", "config", "warn", "select", "reselect", "read",
          "compile", "recompile", "commit"}

PromptTypeOK ==
  /\ TypeOK
  /\ stage \in [Hook -> Stage]
  /\ asker \in [Hook -> Session \cup {None}]
  /\ context \in [Hook -> SUBSET Line]
  /\ sources \in [Hook -> SUBSET Source]
  /\ selected \in [Hook -> SUBSET Key]
  /\ visible \in [Session -> SUBSET Line]
  /\ flagged \in [Session -> BOOLEAN]
  /\ warned \in [Session -> Nat]
  /\ asked \in 0..MaxPrompts

-----------------------------------------------------------------------------
(* The ranking of what was selected.                                       *)

\* The keys of a tier in catalog order: of two keys of one source the first
\* stays, the first key of each kind goes before the others.
InTier(keys, ranked, t) ==
  LET taken(split) == {SourceOf[k] : k \in ToSet(ranked \o split.first \o split.rest)}
      place(split, k) ==
        IF SourceOf[k] \in taken(split) THEN split
        ELSE IF KindOf[k] \in {KindOf[j] : j \in ToSet(split.first)}
        THEN [split EXCEPT !.rest = Append(@, k)]
        ELSE [split EXCEPT !.first = Append(@, k)]
      split == FoldLeft(place, [first |-> <<>>, rest |-> <<>>],
                        SelectSeq(Catalog, LAMBDA k : k \in keys /\ TierOf[k] = t))
  IN split.first \o split.rest

\* Tier after tier, the largest first.
Ranked(keys) ==
  FoldLeft(LAMBDA ranked, t : ranked \o InTier(keys, ranked, t), <<>>,
           [i \in 1..(MaxTier + 1) |-> MaxTier + 1 - i])

\* Mutant: the catalog's order alone decides.
GuidesInCatalogOrder(keys) ==
  LET order == SelectSeq(Catalog, LAMBDA k : k \in keys)
  IN {k \in keys : \E i \in DOMAIN order : i <= MaxGuides /\ order[i] = k}

\* The keys whose sources are read.
Guides(keys) ==
  LET order == Ranked(keys)
  IN {k \in keys : \E i \in DOMAIN order : i <= MaxGuides /\ order[i] = k}

Cites(x) == FoundIn[FactOf[x]]

LinesOf(srcs) == {x \in Line : Cites(x) \in srcs}

\* A source all of whose lines the transcript shows is masked entirely.
Masked(h) == {src \in Source : LinesOf({src}) \subseteq context[h]}

\* build_catalog gives a row to the sources that have evidence.
Evidenced(h) == SUBSET (Source \ Masked(h))

\* The answers that validate: each line cites a source that was given.
Answers(h) == SUBSET LinesOf(sources[h])

\* What the hook sees of the transcript: its recent part, or nothing if the
\* harness exposes none, it cannot be read, or the prompt names no session.
Shown(s) == IF s = None THEN {{}} ELSE {{}, visible[s]}

\* suppress_compiled
Unsaid(h, lines) == lines \ context[h]

-----------------------------------------------------------------------------
(* Actions.                                                                *)

PromptInit ==
  /\ Init
  /\ stage = [h \in Hook |-> "off"]
  /\ asker = [h \in Hook |-> None]
  /\ context = [h \in Hook |-> {}]
  /\ sources = [h \in Hook |-> {}]
  /\ selected = [h \in Hook |-> {}]
  /\ visible = [s \in Session |-> {}]
  /\ flagged = [s \in Session |-> FALSE]
  /\ warned = [s \in Session |-> 0]
  /\ asked = 0

Enter(h, st) == stage' = [stage EXCEPT ![h] = st]

\* The process ends; what it had in memory is gone.
End(h) ==
  /\ Enter(h, "off")
  /\ asker' = [asker EXCEPT ![h] = None]
  /\ context' = [context EXCEPT ![h] = {}]
  /\ sources' = [sources EXCEPT ![h] = {}]
  /\ selected' = [selected EXCEPT ![h] = {}]

\* A prompt is submitted; the hook reads its input and the transcript.
Begin(h, s) ==
  /\ stage[h] = "off"
  /\ asked < MaxPrompts
  /\ asked' = asked + 1
  /\ Enter(h, "config")
  /\ asker' = [asker EXCEPT ![h] = s]
  /\ \E seen \in Shown(s) : context' = [context EXCEPT ![h] = seen]
  /\ UNCHANGED <<ledgerVars, sources, selected, visible, warnVars>>

\* Mutant: the warning is printed and then remembered.
ConfigBrokenUnmarked(h) ==
  /\ stage[h] = "config"
  /\ LET s == asker[h] IN
       IF s = None \/ (s /= None /\ flagged[s])
       THEN End(h) /\ UNCHANGED warnVars
       ELSE Enter(h, "warn") /\ UNCHANGED <<asker, context, sources, selected, warnVars>>
  /\ UNCHANGED <<ledgerVars, visible, asked>>

\* Without a usable configuration the session is warned once: by the hook that
\* creates the marker.
ConfigBroken(h) ==
  /\ stage[h] = "config"
  /\ LET s == asker[h] IN
       IF s = None \/ (s /= None /\ flagged[s])
       THEN End(h) /\ UNCHANGED warnVars
       ELSE /\ flagged' = [flagged EXCEPT ![s] = TRUE]
            /\ Enter(h, "warn")
            /\ UNCHANGED <<asker, context, sources, selected, warned>>
  /\ UNCHANGED <<ledgerVars, visible, asked>>

Warn(h) ==
  /\ stage[h] = "warn"
  /\ warned' = [warned EXCEPT ![asker[h]] = @ + 1]
  /\ End(h)
  /\ UNCHANGED <<ledgerVars, visible, flagged, asked>>

\* The prompt is trivial, there is no index yet, the retrieval fails, a key is
\* missing; a model call fails; the deadline of the browse passes; the process
\* is killed: the hook ends without a word.
FailClosed(h) ==
  /\ stage[h] \notin {"off", "commit"}
  /\ End(h)
  /\ UNCHANGED <<ledgerVars, visible, warnVars, asked>>

\* Sources that score above the floor by a passage the transcript does not
\* show.  Without one there is nothing to select from.
Retrieve(h) ==
  /\ stage[h] = "config"
  /\ \E found \in Evidenced(h) :
       IF found = {}
       THEN End(h)
       ELSE /\ sources' = [sources EXCEPT ![h] = found]
            /\ Enter(h, "select")
            /\ UNCHANGED <<asker, context, selected>>
  /\ UNCHANGED <<ledgerVars, visible, warnVars, asked>>

\* Mutant: the keys go on where their sources are expected.
SelectKeepsKeys(h) ==
  /\ stage[h] \in {"select", "reselect"}
  /\ \E keys \in SUBSET {k \in Key : SourceOf[k] \in sources[h]} :
       IF keys = {}
       THEN End(h)
       ELSE /\ selected' = [selected EXCEPT ![h] = keys]
            /\ sources' = [sources EXCEPT ![h] = keys]
            /\ Enter(h, "read")
            /\ UNCHANGED <<asker, context>>
  /\ UNCHANGED <<ledgerVars, visible, warnVars, asked>>

\* The selecting model names keys of the catalog (others are dropped), or says
\* that nothing is relevant.
Select(h) ==
  /\ stage[h] \in {"select", "reselect"}
  /\ \E keys \in SUBSET {k \in Key : SourceOf[k] \in sources[h]} :
       IF keys = {}
       THEN End(h)
       ELSE /\ selected' = [selected EXCEPT ![h] = keys]
            /\ sources' = [sources EXCEPT ![h] = {SourceOf[k] : k \in keys}]
            /\ Enter(h, "read")
            /\ UNCHANGED <<asker, context>>
  /\ UNCHANGED <<ledgerVars, visible, warnVars, asked>>

\* An answer that is neither is asked for once more, then the hook fails.
SelectMalformed(h) ==
  /\ stage[h] = "select"
  /\ Enter(h, "reselect")
  /\ UNCHANGED <<ledgerVars, asker, context, sources, selected, visible, warnVars, asked>>

\* The best of what was selected is read, as far as it can be read, fits the
\* budget and is not masked by now.
ReadGuides(h) ==
  /\ stage[h] = "read"
  /\ \E read \in SUBSET ({SourceOf[k] : k \in Guides(selected[h])} \ Masked(h)) :
       IF read = {}
       THEN End(h)
       ELSE /\ sources' = [sources EXCEPT ![h] = read]
            /\ selected' = [selected EXCEPT ![h] = {}]
            /\ Enter(h, "compile")
            /\ UNCHANGED <<asker, context>>
  /\ UNCHANGED <<ledgerVars, visible, warnVars, asked>>

\* Mutant: what the transcript shows is not taken out.
CompileRepeats(h) ==
  /\ stage[h] \in {"compile", "recompile"}
  /\ \E lines \in Answers(h) :
       IF lines = {}
       THEN End(h) /\ UNCHANGED ledgerVars
       ELSE /\ Propose(h, asker[h], {lines})
            /\ Enter(h, "commit")
            /\ UNCHANGED <<asker, context, sources, selected>>
  /\ UNCHANGED <<visible, warnVars, asked>>

\* The compiling model answers with lines that cite what was read.  Lines the
\* transcript shows are taken out; the rest goes to the ledger.
Compile(h) ==
  /\ stage[h] \in {"compile", "recompile"}
  /\ \E lines \in Answers(h) :
       IF Unsaid(h, lines) = {}
       THEN End(h) /\ UNCHANGED ledgerVars
       ELSE /\ Propose(h, asker[h], {Unsaid(h, lines)})
            /\ Enter(h, "commit")
            /\ UNCHANGED <<asker, context, sources, selected>>
  /\ UNCHANGED <<visible, warnVars, asked>>

CompileMalformed(h) ==
  /\ stage[h] = "compile"
  /\ Enter(h, "recompile")
  /\ UNCHANGED <<ledgerVars, asker, context, sources, selected, visible, warnVars, asked>>

\* Mutant: a ledger that has nothing new to say keeps its lock.
CommitOrWait(h) ==
  /\ stage[h] = "commit"
  /\ CommitStep(h)
  /\ pc'[h] = "idle" => UNCHANGED inode
  /\ IF pc'[h] = "idle" THEN End(h) ELSE UNCHANGED stageVars
  /\ UNCHANGED <<visible, warnVars, asked>>

\* A step of commit_context, which may end the hook.
Commit(h) ==
  /\ stage[h] = "commit"
  /\ CommitStep(h)
  /\ IF pc'[h] = "idle" THEN End(h) ELSE UNCHANGED stageVars
  /\ UNCHANGED <<visible, warnVars, asked>>

\* Mutant: the body is printed before it is committed.
DeliverUncommitted(h) ==
  /\ stage[h] = "commit"
  /\ delivered' = [s \in Session |-> [f \in Fact |->
       delivered[s][f] + IF s = session[h] /\ f \in FactsIn(body[h]) THEN 1 ELSE 0]]
  /\ Finish(h)
  /\ UNCHANGED <<fileVars, damage, boundVars, visible>>
  /\ End(h)
  /\ UNCHANGED <<warnVars, asked>>

\* What is printed becomes part of the transcript.
Deliver(h) ==
  /\ stage[h] = "commit"
  /\ Emit(h)
  /\ visible' = [s \in Session |->
       IF s = session[h] THEN visible[s] \cup body[h] ELSE visible[s]]
  /\ End(h)
  /\ UNCHANGED <<warnVars, asked>>

\* The conversation moves on, or is compacted.
Scroll(s) ==
  /\ visible[s] /= {}
  /\ visible' = [visible EXCEPT ![s] = {}]
  /\ UNCHANGED <<ledgerVars, stageVars, warnVars, asked>>

HookStep(h) ==
  \/ ConfigBroken(h) \/ Warn(h) \/ FailClosed(h)
  \/ Retrieve(h) \/ Select(h) \/ SelectMalformed(h) \/ ReadGuides(h)
  \/ Compile(h) \/ CompileMalformed(h) \/ Commit(h) \/ Deliver(h)

PromptNext ==
  \/ \E h \in Hook, s \in Session \cup {None} : Begin(h, s)
  \/ \E h \in Hook : HookStep(h)
  \/ \E s \in Session : Scroll(s)

\* A prompt is under a deadline (the browse timeout, and the harness' own) up
\* to the commit, and a hook that commits runs on.
PromptFairness ==
  \A h \in Hook :
    /\ WF_promptVars(FailClosed(h))
    /\ WF_promptVars(Commit(h) \/ Deliver(h))

PromptSpec == PromptInit /\ [][PromptNext]_promptVars /\ PromptFairness

-----------------------------------------------------------------------------
(* Properties.                                                             *)

\* What a hook commits and prints cites sources that were selected, read and
\* had evidence, and says nothing the transcript it saw did say: no error,
\* retry or concurrent hook gets a line past retrieval, selection and masking.
PrintedIsSupported ==
  [][\A h \in Hook :
       /\ sources[h] /= {} => sources'[h] \subseteq sources[h]
       /\ pc[h] = "idle" => body'[h] \subseteq LinesOf(sources[h]) \ context[h]
       /\ pc[h] /= "idle" => body'[h] \subseteq body[h]]_promptVars

\* The guides read are the best of what was selected: a selected source that
\* is left out is of no higher tier than one that is read, and in its tier a
\* kind is read twice only if each selected kind of the tier is read.
BestAreRead ==
  \A h \in {hook \in Hook : selected[hook] /= {}} :
    LET guides == Guides(selected[h])
        left == {k \in selected[h] : SourceOf[k] \notin {SourceOf[g] : g \in guides}}
    IN /\ Cardinality({SourceOf[g] : g \in guides}) = Cardinality(guides)
       /\ left /= {} => Cardinality(guides) = MaxGuides
       /\ \A g \in guides, k \in left : TierOf[g] >= TierOf[k]
       /\ \A g1, g2 \in guides, k \in left :
            /\ g1 /= g2 /\ KindOf[g1] = KindOf[g2]
            /\ TierOf[g1] = TierOf[g2] /\ TierOf[k] = TierOf[g1]
            => \E g3 \in guides : TierOf[g3] = TierOf[k] /\ KindOf[g3] = KindOf[k]

\* A session is warned of a missing configuration once, by whichever of its
\* concurrent hooks comes first.
WarnedOnce == \A s \in Session : warned[s] <= 1

\* The hook commits and prints as SessionLedger says: nothing reaches the
\* session but through its ledger.
CommitsThroughLedger == Spec

\* Every hook ends, whatever the models answer and whoever holds the lock.
HookEnds == \A h \in Hook : (stage[h] /= "off") ~> (stage[h] = "off")
=============================================================================
