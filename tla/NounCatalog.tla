------------------------------ MODULE NounCatalog ------------------------------
(***************************************************************************)
(* The nouns of a project in the catalog of an injection (nouns.rs,        *)
(* inject/catalog_nouns.rs, inject/catalog_build.rs).  A noun is offered   *)
(* if the user made it real, the prompt names it, and one current guide    *)
(* with evidence backs it; what guides, topics and claims say only         *)
(* describes it.                                                           *)
(*                                                                         *)
(* A hook reads the wiki's index at its start, and the guides, the claims  *)
(* and the realness registry twice: to see whether a short question names  *)
(* a noun, and after the retrieval to build the catalog.  Captures write   *)
(* all four, the index last.                                               *)
(*                                                                         *)
(* A name stands for the texts that slugify alike, its Key for those that  *)
(* canonicalize alike; a definition is a sequence of texts.  Titles hold   *)
(* no |, which would end a cell of the index.                              *)
(***************************************************************************)
EXTENDS Integers, Sequences, FiniteSets, SequencesExt

CONSTANTS
  Slug,       \* slugs of guides
  Names,      \* slugs, topics, subjects of claims, in the order of slugs
  Key,        \* the canonical key of a name
  Nouns,      \* the keys the user's turns refer to, in the order of slugs
  WordsOf,    \* the words of a noun
  Glued,      \* the nouns whose compact key a word has
  Common,     \* words too short or too generic to name a noun alone
  Versions,   \* of each slug: what its guide may be
  Subjects,   \* claims about a subject: [of, says]
  Prompts,    \* [says, asks, short]
  Recents,    \* what a conversation may have said before
  Scores,     \* evidence: the score of each guide, 0 if not retrieved
  Floor,      \* MINIMUM_RELEVANCE_SCORE
  RealAt,     \* realness::REAL_THRESHOLD
  Stances,    \* what the turns of a session may add to the nouns' realness
  Cap,        \* MAX_PRIME_PER_TURN
  Room,       \* CATALOG_MAX
  NoGuide,
  MaxEdits,   \* bound: changes of the project
  MaxPrompts  \* bound

VARIABLES
  guide,    \* the live guides
  index,    \* the rows read_index finds in _index.md
  claims,   \* the claims with a subject, oldest first
  signed,   \* the realness registry
  stage, prompt, recent,
  rows,     \* the index as the hook read it
  awake,    \* the nouns that let a short prompt pass
  catalog,  \* the catalog built
  moved,    \* the project changed since the prompt
  wasReal,  \* nouns that were real at some time since the prompt
  edits, prompts

diskVars == <<guide, index, claims, signed>>
hookVars == <<stage, prompt, recent, rows, awake, catalog>>
catalogVars == <<diskVars, hookVars, moved, wasReal, edits, prompts>>

Row == [slug : Slug, title : STRING]
Item == [kind : {"guide", "noun"}, name : STRING, source : Slug,
         score : Nat, says : Seq(STRING)]

CatalogTypeOK ==
  /\ \A s \in Slug : guide[s] \in Versions[s] \cup {NoGuide}
  /\ index \in Seq(Row) /\ rows \in Seq(Row)
  /\ claims \in Seq(Subjects)
  /\ signed \in [ToSet(Nouns) -> Int]
  /\ stage \in {"off", "begun", "query", "offered"}
  /\ awake \subseteq ToSet(Nouns) /\ wasReal \subseteq ToSet(Nouns)
  /\ catalog \in Seq(Item) /\ Len(catalog) <= Room
  /\ moved \in BOOLEAN
  /\ edits \in 0..MaxEdits /\ prompts \in 0..MaxPrompts

-----------------------------------------------------------------------------
(* What describes a name.                                                  *)

Live(s) == guide[s] # NoGuide
LiveSlugs == SelectSeq(Names, LAMBDA x : x \in Slug /\ Live(x))

\* An empty title is replaced by the slug.
TitleOf(s) == IF guide[s].title = "" THEN s ELSE guide[s].title

Stated(text) == IF text = "" THEN <<>> ELSE <<text>>

\* The first three different summaries of the other guides of a topic.
TopicText(t) ==
  LET add(said, s) ==
        IF s = t \/ guide[s].topic # t \/ guide[s].summary \in ToSet(said) \cup {""}
             \/ Len(said) = 3
        THEN said ELSE Append(said, guide[s].summary)
  IN FoldLeft(add, <<>>, LiveSlugs)

\* The oldest claim of the subject.
ClaimText(x) ==
  LET about == SelectSeq(claims, LAMBDA c : c.of = x)
  IN IF about = <<>> THEN <<>> ELSE <<about[1].says>>

IsGuide(x) == x \in Slug /\ Live(x)

\* derive_registry: what is richer goes first, the rest only fills a gap; the
\* body of a guide comes last of all.
Definition(x) ==
  LET sources == <<IF IsGuide(x) THEN Stated(guide[x].summary) ELSE <<>>,
                   TopicText(x), ClaimText(x),
                   IF IsGuide(x) THEN Stated(guide[x].body) ELSE <<>> >>
      filled == SelectSeq(sources, LAMBDA d : d # <<>>)
  IN IF filled = <<>> THEN <<>> ELSE filled[1]

\* A guide is found under the keys of its title and its slug.
KeysOf(x) == {Key[x]} \cup IF IsGuide(x) THEN {Key[TitleOf(x)]} ELSE {}

Derived(x) == \/ IsGuide(x)
              \/ \E s \in Slug : Live(s) /\ guide[s].topic = x
              \/ \E i \in DOMAIN claims : claims[i].of = x

\* The first of the derived entries of that key that says something, in the
\* order of their slugs, whatever it was derived from.
DefinitionOf(n) ==
  LET defined == SelectSeq(Names, LAMBDA x : Derived(x) /\ n \in KeysOf(x) /\ Definition(x) # <<>>)
  IN IF defined = <<>> THEN <<>> ELSE Definition(defined[1])

-----------------------------------------------------------------------------
(* The index.                                                              *)

\* A row of _index.md has a slug, a title, a summary, tags, a volatility, a
\* date and a topic; the reader passes over cells without a text, so that what
\* follows moves up, and over rows with less than five cells.  (Rows are kept in
\* the order of slugs; the file has them by topic, which decides only ties.)
Cells(s) ==
  SelectSeq(<<guide[s].title, guide[s].summary, guide[s].tags, guide[s].volatility,
              guide[s].verified, IF guide[s].topic = "" THEN "general" ELSE guide[s].topic>>,
            LAMBDA c : c # "")
RowsOf ==
  LET full == SelectSeq(LiveSlugs, LAMBDA s : Len(Cells(s)) + 1 >= 5)
  IN [i \in DOMAIN full |-> [slug |-> full[i], title |-> Cells(full[i])[1]]]

-----------------------------------------------------------------------------
(* The prompt.                                                             *)

Says(said, phrase) ==
  \E i \in DOMAIN said :
    i + Len(phrase) - 1 <= Len(said) /\ SubSeq(said, i, i + Len(phrase) - 1) = phrase

\* The words that may name a noun of several words alone.
Distinctive(n) ==
  IF Cardinality(ToSet(WordsOf[n])) < 2 THEN {} ELSE ToSet(WordsOf[n]) \ Common

\* MatchStrength: 4 a phrase, 3 a compact alias, 2 several words, 1 a word.
Strength(said, n) ==
  LET words == Cardinality(Distinctive(n) \cap ToSet(said))
  IN CASE Says(said, WordsOf[n]) -> 4
       [] \E i \in DOMAIN said : n \in Glued[said[i]] -> 3
       [] OTHER -> IF words >= 2 THEN 2 ELSE words

HighConfidence(strength) == strength >= 2

\* The gate: what the user made real, and not what a guide is titled.
Promoted(n) == signed[n] >= RealAt

\* A noun the conversation has just mentioned is offered again only to a
\* direct question that names it.  The strongest go first.
Candidates ==
  LET named == SelectSeq(Nouns, LAMBDA n :
                 /\ Promoted(n) /\ Strength(prompt.says, n) > 0
                 /\ Strength(recent, n) > 0 =>
                      prompt.asks /\ HighConfidence(Strength(prompt.says, n)))
      ofStrength(k) == SelectSeq(named, LAMBDA n : Strength(prompt.says, n) = k)
      ranked == ofStrength(4) \o ofStrength(3) \o ofStrength(2) \o ofStrength(1)
  IN SubSeq(ranked, 1, IF Len(ranked) < Cap THEN Len(ranked) ELSE Cap)

\* The guides that go by a noun's name, if there is exactly one.
Backing(n) ==
  LET named == SelectSeq(rows, LAMBDA r : n \in {Key[r.title], Key[r.slug]} /\ Live(r.slug))
  IN IF Len(named) = 1 THEN named ELSE <<>>

\* noun_catalog_seeds
Seeds == SelectSeq(Candidates, LAMBDA n : DefinitionOf(n) # <<>> /\ Backing(n) # <<>>)

\* build_catalog: guides and then nouns, the best score first, cut to the room
\* there is, and what has no evidence left out.
Built(score) ==
  LET guides == [i \in DOMAIN rows |->
        [kind |-> "guide", name |-> rows[i].slug, source |-> rows[i].slug,
         score |-> score[rows[i].slug], says |-> <<>>]]
      noun(n) == [kind |-> "noun", name |-> n, source |-> Backing(n)[1].slug,
                  score |-> score[Backing(n)[1].slug], says |-> DefinitionOf(n)]
      nouns == SelectSeq([i \in DOMAIN Seeds |-> noun(Seeds[i])], LAMBDA it : it.score >= Floor)
      all == guides \o nouns
      best == {score[s] : s \in Slug}
      down == SetToSortSeq(best, LAMBDA a, b : a > b)
      sorted == FoldLeft(LAMBDA done, v : done \o SelectSeq(all, LAMBDA it : it.score = v), <<>>, down)
      kept == SubSeq(sorted, 1, IF Len(sorted) < Room THEN Len(sorted) ELSE Room)
  IN SelectSeq(kept, LAMBDA it : it.score >= Floor)

-----------------------------------------------------------------------------
(* Actions.                                                                *)

Real == {n \in ToSet(Nouns) : signed[n] >= RealAt}

NoPrompt == [says |-> <<>>, asks |-> FALSE, short |-> FALSE]

CatalogInit ==
  /\ guide = [s \in Slug |-> NoGuide]
  /\ index = <<>> /\ claims = <<>>
  /\ signed = [n \in ToSet(Nouns) |-> 0]
  /\ stage = "off" /\ prompt = NoPrompt /\ recent = <<>> /\ rows = <<>>
  /\ awake = {} /\ catalog = <<>>
  /\ moved = FALSE /\ wasReal = {}
  /\ edits = 0 /\ prompts = 0

Edit ==
  /\ edits < MaxEdits /\ edits' = edits + 1
  /\ moved' = (stage # "off")
  /\ wasReal' = IF stage = "off" THEN {} ELSE wasReal \cup Real'
  /\ UNCHANGED <<hookVars, prompts>>

\* A capture, or an operator's pass, writes a guide; or it retires one.
WriteGuide(s) ==
  /\ \E v \in (Versions[s] \cup {NoGuide}) \ {guide[s]} : guide' = [guide EXCEPT ![s] = v]
  /\ UNCHANGED <<index, claims, signed>>
  /\ Edit

AppendClaim(c) ==
  /\ claims' = Append(claims, c)
  /\ UNCHANGED <<guide, index, signed>>
  /\ Edit

\* The realness stage folds the stances of a session into the registry.
FoldStances(sums) ==
  /\ signed' = [n \in DOMAIN signed |-> signed[n] + sums[n]]
  /\ UNCHANGED <<guide, index, claims>>
  /\ Edit

\* The end of a capture; a capture that was killed does not get there.
RebuildIndex ==
  /\ index # RowsOf /\ index' = RowsOf
  /\ moved' = (stage # "off")
  /\ UNCHANGED <<guide, claims, signed, hookVars, wasReal, edits, prompts>>

End ==
  /\ stage' = "off" /\ prompt' = NoPrompt /\ recent' = <<>> /\ rows' = <<>>
  /\ awake' = {} /\ catalog' = <<>>
  /\ moved' = FALSE /\ wasReal' = {}

Begin(p, said) ==
  /\ stage = "off" /\ prompts < MaxPrompts
  /\ prompts' = prompts + 1
  /\ stage' = "begun" /\ prompt' = p /\ recent' = said /\ rows' = index
  /\ wasReal' = Real
  /\ UNCHANGED <<diskVars, awake, catalog, moved, edits>>

\* A prompt that is short passes only if it asks for a noun.
Activate ==
  /\ stage = "begun"
  /\ LET asked == IF prompt.short /\ prompt.asks THEN ToSet(Seeds) ELSE {}
     IN IF prompt.short /\ asked = {}
        THEN End
        ELSE /\ stage' = "query" /\ awake' = asked
             /\ UNCHANGED <<prompt, recent, rows, catalog, moved, wasReal>>
  /\ UNCHANGED <<diskVars, edits, prompts>>

Build(score) ==
  /\ stage = "query"
  /\ stage' = "offered"
  /\ catalog' = Built(score)
  /\ UNCHANGED <<diskVars, prompt, recent, rows, awake, moved, wasReal, edits, prompts>>

\* The models have answered, or the retrieval or a model has failed.
Finish ==
  /\ stage \in {"query", "offered"}
  /\ End
  /\ UNCHANGED <<diskVars, edits, prompts>>

CatalogNext ==
  \/ \E s \in Slug : WriteGuide(s)
  \/ \E c \in Subjects : AppendClaim(c)
  \/ \E sums \in Stances : FoldStances(sums)
  \/ RebuildIndex
  \/ \E p \in Prompts, said \in Recents : Begin(p, said)
  \/ Activate
  \/ \E score \in Scores : Build(score)
  \/ Finish

-----------------------------------------------------------------------------
(* Properties.                                                             *)

\* The nouns of a catalog and their place in it.
Offered == {i \in DOMAIN catalog : catalog[i].kind = "noun"}

\* No guide, topic or claim makes a noun: what is offered was real at some time
\* since the prompt, after all the stances for and against it.
OnlyUserReal == \A i \in Offered : catalog[i].name \in wasReal

\* A noun stands for a guide that was there, and goes after that guide's row:
\* the cut of the catalog never leaves the noun alone.
BackedByItsGuide ==
  \A i \in Offered :
    /\ ~moved => Live(catalog[i].source)
    /\ \E j \in 1..(i - 1) : catalog[j].kind = "guide" /\ catalog[j].name = catalog[i].source

\* While the project stands still and its index is that of its guides, no two
\* indexed guides go by the name of a noun that is offered.
Unambiguous ==
  (~moved /\ index = RowsOf) =>
    \A i \in Offered :
      Cardinality({j \in DOMAIN index :
                     catalog[i].name \in {Key[index[j].title], Key[index[j].slug]}}) = 1

\* What a noun is said to be was said of it: by a guide of its name, by the
\* guides of a topic of its name, or by a claim about it.
SaidOfIt ==
  ~moved => \A i \in Offered : \A text \in ToSet(catalog[i].says) :
    \/ \E s \in Slug : /\ Live(s) /\ text \in {guide[s].summary, guide[s].body}
                       /\ catalog[i].name \in KeysOf(s) \cup {Key[guide[s].topic]}
    \/ \E j \in DOMAIN claims : claims[j].says = text /\ Key[claims[j].of] = catalog[i].name

\* The first and the second reading agree: the noun that let a short prompt
\* pass is offered to it, if its guide has evidence and the catalog is not full.
AwakeIsOffered ==
  (stage = "offered" /\ ~moved) =>
    \A n \in awake :
      \/ \E i \in Offered : catalog[i].name = n
      \/ ~ \E j \in DOMAIN catalog : catalog[j].name = Backing(n)[1].slug
      \/ Len(catalog) = Room

NounsSafe == OnlyUserReal /\ BackedByItsGuide /\ Unambiguous /\ SaidOfIt /\ AwakeIsOffered
=============================================================================
