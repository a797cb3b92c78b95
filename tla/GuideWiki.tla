------------------------------ MODULE GuideWiki ------------------------------
(***************************************************************************)
(* The guides of a live wiki and everyone who writes them: the staged      *)
(* capture pipeline (capture.rs), one operation at a time under the        *)
(* project's wiki lock; its structural maintenance (wiki.rs) under that    *)
(* lock; and the operator passes (doctor.rs, cross_supersede.rs), which    *)
(* load the whole wiki, ask models about it and write what they loaded,    *)
(* under no lock.                                                          *)
(*                                                                         *)
(* A guide is a sequence of sections; a section holds the statements in    *)
(* its prose, each with the marker of its evidence, and the markers of its *)
(* citations trailer or its quoted history.  A marker stands for the claim *)
(* it receipts.  One capture is in work at a time (the store lock), and is *)
(* attempted again after a failure, a crash or a failed commit.            *)
(***************************************************************************)
EXTENDS Integers, SequencesExt

CONSTANTS
  Slug,
  WikiClaim,    \* claims of the capture, each with its evidence
  Old,          \* markers of earlier captures
  GuideHeading,
  LevelOf,      \* number of #s; 0 for a heading given without any
  SeeAlso, Retired,   \* two headings the program writes itself
  CaptureJob, Pass,   \* the writers: the capture and the operator passes
  NoFile,      \* no guide
  FirstGuides,  \* the wikis it may start with
  MaxAttempts,  \* bound: attempts at the capture
  MaxPasses,    \* bound: guides or wikis loaded by passes
  MaxFaults     \* bound: failed writes and killed processes

Marker == WikiClaim \cup Old
Section == [head : GuideHeading, said : SUBSET Marker, cited : SUBSET Marker]
GuideText == [body : Seq(Section), sees : SUBSET Slug]
Guides == [Slug -> GuideText \cup {NoFile}]
IsPlan(x) == \E some \in SUBSET Slug : x \in [some -> GuideText]

ASSUME WikiAssumption ==
  /\ NoFile \notin GuideText
  /\ FirstGuides \subseteq Guides
  /\ IsFiniteSet(WikiClaim)
  /\ {SeeAlso, Retired} \subseteq GuideHeading
  /\ LevelOf \in [GuideHeading -> Nat]
  /\ CaptureJob \notin Pass
  /\ MaxAttempts \in Nat /\ MaxPasses \in Nat /\ MaxFaults \in Nat

VARIABLES
  guide,      \* of each slug: the guide's file
  wikiLock,   \* whether the capture holds the project's wiki lock
  stage,      \* where the attempt is
  admitted,   \* claims with valid evidence
  route,      \* the slug each of them goes to
  edits,      \* operations still to apply
  failed,     \* the staged pipeline did not complete
  committed,
  receipts,   \* markers with a citation record
  passAt,     \* of each pass: where it is
  loaded,     \* of each writer: what it has read of the wiki
  latest,     \* the guides nobody has written since it read them
  plan,       \* the guides it is going to write
  dropped,    \* the guides it is going to delete
  written,    \* markers ever saved in a guide
  owed,       \* admitted claims the model did not pass over and no logged
              \* error dropped
  overwritten,\* some guide was replaced by one made from an older reading
  attempts, passes, faults

attemptVars == <<wikiLock, stage, admitted, route, edits, failed>>
passVars == <<passAt, loaded, latest, plan, dropped>>
wikiHistory == <<written, owed, overwritten>>
wikiBounds == <<attempts, passes, faults>>
wikiVars == <<guide, attemptVars, committed, receipts, passVars, wikiHistory, wikiBounds>>

Writer == Pass \cup {CaptureJob}
Op == [slug : Slug, op : {"add", "revise", "remove"}, head : GuideHeading, claim : WikiClaim]

WikiTypeOK ==
  /\ guide \in Guides
  /\ wikiLock \in BOOLEAN
  /\ stage \in {"off", "extract", "route", "reconcile", "save", "receipt",
                "maintain", "links", "finish"}
  /\ admitted \subseteq WikiClaim
  /\ DOMAIN route \subseteq WikiClaim /\ \A c \in DOMAIN route : route[c] \in Slug
  /\ edits \in Seq(Op)
  /\ failed \in BOOLEAN /\ committed \in BOOLEAN /\ overwritten \in BOOLEAN
  /\ receipts \subseteq Marker /\ written \subseteq Marker /\ owed \subseteq WikiClaim
  /\ passAt \in [Pass -> {"off", "loaded", "write", "links"}]
  /\ loaded \in [Writer -> Guides]
  /\ latest \in [Writer -> SUBSET Slug]
  /\ plan = [w \in Writer |-> plan[w]] /\ \A w \in Writer : IsPlan(plan[w])
  /\ dropped \in [Writer -> SUBSET Slug]
  /\ attempts \in 0..MaxAttempts /\ passes \in 0..MaxPasses /\ faults \in 0..MaxFaults

-----------------------------------------------------------------------------
(* Guide bodies.                                                           *)

MarkersIn(body) == UNION {body[i].said \cup body[i].cited : i \in DOMAIN body}
Present(g) == {s \in Slug : g[s] /= NoFile}
Markers(g) == UNION {MarkersIn(g[s].body) : s \in Present(g)}

Sect(h, said, cited) == [head |-> h, said |-> said, cited |-> cited]

\* The first section with the heading; 0 if there is none.
Find(body, h) ==
  LET at == {i \in DOMAIN body : body[i].head = h}
  IN IF at = {} THEN 0 ELSE Min(at)

\* Where the section at i ends: before the next heading, or, for the full
\* section, before the next one of its level or above.
Extent(body, i, full) ==
  LET ends == {k \in (i + 1)..Len(body) :
                 /\ LevelOf[body[k].head] > 0
                 /\ full => LevelOf[body[k].head] <= LevelOf[body[i].head]}
  IN IF ends = {} THEN Len(body) ELSE Min(ends) - 1

Cut(body, i, j, replacement) ==
  SubSeq(body, 1, i - 1) \o replacement \o SubSeq(body, j + 1, Len(body))

\* add_statement_to_section
Add(g, h, m) ==
  LET i == Find(g.body, h)
      see == Find(g.body, SeeAlso)
      at == IF see = 0 THEN Len(g.body) + 1 ELSE see
  IN IF i /= 0
     THEN [g EXCEPT !.body[i].said = @ \cup {m}]
     ELSE [g EXCEPT !.body = Cut(@, at, at - 1, <<Sect(h, {m}, {})>>)]

\* revise_section carries the markers of the old prose into the trailer; a
\* section that is not there is added.
Revise(g, h, m) ==
  LET i == Find(g.body, h)
      j == Extent(g.body, i, FALSE)
  IN IF i = 0 THEN Add(g, h, m)
     ELSE [g EXCEPT !.body =
             Cut(@, i, j, <<Sect(h, {m}, MarkersIn(SubSeq(@, i, j)) \cup {m})>>)]

\* The section with its subsections is quoted at the end of the guide.
RetireSection(g, h, m) ==
  LET i == Find(g.body, h)
      j == Extent(g.body, i, TRUE)
      gone == SubSeq(g.body, i, j)
  IN [g EXCEPT !.body = Append(Cut(@, i, j, <<>>), Sect(Retired, {m}, MarkersIn(gone))),
               !.sees = IF Find(gone, SeeAlso) = 0 THEN @ ELSE {}]

\* What an operation makes of the guide it read; NoFile if it fails.
Applied(o, g) ==
  IF g = NoFile
  THEN IF o.op = "remove" THEN NoFile
       ELSE [body |-> <<Sect(o.head, {o.claim}, {})>>, sees |-> {}]
  ELSE CASE o.op = "add" -> Add(g, o.head, o.claim)
         [] o.op = "revise" -> Revise(g, o.head, o.claim)
         [] o.op = "remove" -> IF Find(g.body, o.head) = 0 THEN g
                               ELSE RetireSection(g, o.head, o.claim)

\* add_see_also_link, for every guide that links to this one.
SeeBack(g, back) ==
  [body |-> IF Find(g.body, SeeAlso) = 0 THEN Append(g.body, Sect(SeeAlso, {}, {})) ELSE g.body,
   sees |-> g.sees \cup back]

\* enforce_bidirectional_links: what it adds to the guides it has loaded.
LinkedBack(g) ==
  LET back(t) == {s \in Present(g) \ {t} : t \in g[s].sees} \ g[t].sees
  IN [t \in {u \in Present(g) : back(u) /= {}} |-> SeeBack(g[t], back(t))]

-----------------------------------------------------------------------------
(* The capture.                                                            *)

WikiInit ==
  /\ guide \in FirstGuides
  /\ wikiLock = FALSE /\ stage = "off" /\ admitted = {} /\ route = <<>> /\ edits = <<>>
  /\ failed = FALSE /\ committed = FALSE
  /\ receipts = {}
  /\ passAt = [p \in Pass |-> "off"]
  /\ loaded = [w \in Writer |-> [s \in Slug |-> NoFile]]
  /\ latest = [w \in Writer |-> {}]
  /\ plan = [w \in Writer |-> <<>>] /\ dropped = [w \in Writer |-> {}]
  /\ written = Markers(guide) /\ owed = {} /\ overwritten = FALSE
  /\ attempts = 0 /\ passes = 0 /\ faults = 0

\* w reads some guides, and has done with what it has read.
Load(w, some) ==
  /\ loaded' = [loaded EXCEPT ![w] = [s \in Slug |-> IF s \in some THEN guide[s] ELSE NoFile]]
  /\ latest' = [latest EXCEPT ![w] = some]
Close(w) == loaded' = [loaded EXCEPT ![w] = [s \in Slug |-> NoFile]]
Forget(w) == Close(w) /\ latest' = [latest EXCEPT ![w] = {}]

\* w, which has read guide s before, replaces or deletes it: what anybody has
\* read of it is no longer the latest.
Put(w, s, new) ==
  /\ guide' = [guide EXCEPT ![s] = new]
  /\ overwritten' = (overwritten \/ s \notin latest[w])
  /\ latest' = [v \in Writer |-> latest[v] \ {s}]

StartAttempt ==
  /\ stage = "off" /\ ~committed
  /\ attempts < MaxAttempts
  /\ attempts' = attempts + 1
  /\ stage' = "extract"
  /\ failed' = FALSE /\ owed' = {}
  /\ UNCHANGED <<guide, wikiLock, admitted, route, edits, committed, receipts,
                 passVars, written, overwritten, passes, faults>>

\* EXTRACT: claims with evidence that verifies are admitted.  With none the
\* capture is complete.
Extract ==
  /\ stage = "extract"
  /\ \E claims \in SUBSET WikiClaim :
       /\ admitted' = claims /\ owed' = claims
       /\ stage' = IF claims = {} THEN "maintain" ELSE "route"
  /\ UNCHANGED <<guide, wikiLock, route, edits, failed, committed, receipts,
                 passVars, written, overwritten, wikiBounds>>

\* The answers to ROUTE that validate: each claim has one slug, which need not
\* be that of a guide there is; a claim left out, given twice or sent outside
\* its candidates fails the stage.
Routed(claims) == [claims -> Slug]

\* ROUTE: the model places every admitted claim.
RouteClaims ==
  /\ stage = "route"
  /\ route' \in Routed(admitted)
  /\ stage' = "reconcile"
  /\ UNCHANGED <<guide, wikiLock, admitted, edits, failed, committed, receipts,
                 passVars, wikiHistory, wikiBounds>>

\* RECONCILE, one guide after the other: the model answers with operations
\* for claims that are not merely proposed.
Reconcile ==
  /\ stage = "reconcile" /\ edits = <<>> /\ admitted /= {}
  /\ \E s \in {route[c] : c \in admitted} :
       LET mine == {c \in admitted : route[c] = s} IN
       /\ \E told \in SUBSET mine :
            /\ \E kind \in [told -> {"add", "revise", "remove"}],
                  head \in [told -> GuideHeading \ {SeeAlso}] :
                 edits' = SetToSeq({[slug |-> s, op |-> kind[c], head |-> head[c],
                                    claim |-> c] : c \in told})
            /\ owed' = owed \ (mine \ told)
       /\ admitted' = admitted \ mine
  /\ UNCHANGED <<guide, wikiLock, stage, route, failed, committed, receipts,
                 passVars, written, overwritten, wikiBounds>>

Reconciled ==
  /\ stage = "reconcile" /\ edits = <<>> /\ admitted = {}
  /\ stage' = "maintain"
  /\ UNCHANGED <<guide, wikiLock, admitted, route, edits, failed, committed, receipts,
                 passVars, wikiHistory, wikiBounds>>

\* A model call fails, is malformed or passes the deadline: what earlier
\* guides were given stays.
StageFails ==
  /\ stage \in {"extract", "route"} \/ (stage = "reconcile" /\ edits = <<>> /\ admitted /= {})
  /\ failed' = TRUE
  /\ stage' = "maintain" /\ admitted' = {}
  /\ UNCHANGED <<guide, wikiLock, route, edits, committed, receipts, passVars,
                 wikiHistory, wikiBounds>>

\* with_guide_locked reads the guide again under the lock, ...
ReadGuide ==
  /\ stage = "reconcile" /\ edits /= <<>>
  /\ wikiLock' = TRUE
  /\ Load(CaptureJob, {Head(edits).slug})
  /\ stage' = "save"
  /\ UNCHANGED <<guide, admitted, route, edits, failed, committed, receipts, passAt, plan,
                 dropped, wikiHistory, wikiBounds>>

NextOp == edits' = Tail(edits) /\ stage' = "reconcile"

\* ... and replaces it by what the operation made of it.
SaveGuide ==
  /\ stage = "save"
  /\ LET o == Head(edits)
         new == Applied(o, loaded[CaptureJob][o.slug])
     IN /\ new /= NoFile
        /\ Put(CaptureJob, o.slug, new)
        /\ written' = written \cup MarkersIn(new.body)
        /\ IF o.claim \in MarkersIn(new.body)
           THEN stage' = "receipt" /\ UNCHANGED <<edits, owed>>
           ELSE NextOp /\ owed' = owed \ {o.claim}
  /\ Close(CaptureJob)
  /\ wikiLock' = FALSE
  /\ UNCHANGED <<admitted, route, failed, committed, receipts, passAt, plan, dropped,
                 wikiBounds>>

\* The error is logged, the operation forgotten.
SaveFails ==
  /\ stage = "save"
  /\ LET o == Head(edits)
     IN /\ \/ Applied(o, loaded[CaptureJob][o.slug]) = NoFile /\ UNCHANGED faults
           \/ faults < MaxFaults /\ faults' = faults + 1
        /\ owed' = owed \ {o.claim}
  /\ NextOp
  /\ Forget(CaptureJob)
  /\ wikiLock' = FALSE
  /\ UNCHANGED <<guide, admitted, route, failed, committed, receipts, passAt, plan,
                 dropped, written, overwritten, attempts, passes>>

\* append_citation_log; a failure is only logged.
Receipt ==
  /\ stage = "receipt"
  /\ \/ receipts' = receipts \cup {Head(edits).claim} /\ UNCHANGED faults
     \/ faults < MaxFaults /\ faults' = faults + 1 /\ UNCHANGED receipts
  /\ NextOp
  /\ UNCHANGED <<guide, wikiLock, admitted, route, failed, committed, passVars,
                 wikiHistory, attempts, passes>>

-----------------------------------------------------------------------------
(* Writers that load the wiki and write it later.                          *)

\* One guide of the plan is saved.
WritePlanned(w) ==
  \E s \in DOMAIN plan[w] :
    /\ Put(w, s, plan[w][s])
    /\ written' = written \cup MarkersIn(plan[w][s].body)
    /\ plan' = [plan EXCEPT ![w] = Restrict(@, DOMAIN @ \ {s})]

\* run_structural_maintenance, whether the pipeline completed or not.  The
\* links are made from one reading of the wiki, the index is derived.
Maintain ==
  /\ stage = "maintain"
  /\ Load(CaptureJob, Slug)
  /\ plan' = [plan EXCEPT ![CaptureJob] = LinkedBack(guide)]
  /\ wikiLock' = TRUE
  /\ stage' = "links"
  /\ UNCHANGED <<guide, admitted, route, edits, failed, committed, receipts,
                 passAt, dropped, wikiHistory, wikiBounds>>

LinkGuide ==
  /\ stage = "links"
  /\ WritePlanned(CaptureJob)
  /\ UNCHANGED <<attemptVars, committed, receipts, passAt, loaded, dropped, owed, wikiBounds>>

\* What is left of the maintenance is dropped when a write fails.
LinksEnd ==
  /\ stage = "links"
  /\ \/ plan[CaptureJob] = <<>> /\ UNCHANGED faults
     \/ faults < MaxFaults /\ faults' = faults + 1
  /\ plan' = [plan EXCEPT ![CaptureJob] = <<>>]
  /\ Forget(CaptureJob)
  /\ wikiLock' = FALSE
  /\ stage' = "finish"
  /\ UNCHANGED <<guide, admitted, route, edits, failed, committed, receipts,
                 passAt, dropped, wikiHistory, attempts, passes>>

\* Mutant: an attempt that broke off is committed.
FinishAnyway ==
  /\ stage = "finish"
  /\ committed' = TRUE
  /\ stage' = "off" /\ route' = <<>> /\ failed' = FALSE
  /\ UNCHANGED <<guide, wikiLock, admitted, edits, receipts, passVars,
                 wikiHistory, wikiBounds>>

\* The wiki is committed if the pipeline completed; otherwise, or if the
\* commit fails, the entry is retried.
FinishAttempt ==
  /\ stage = "finish"
  /\ \/ ~failed /\ committed' = TRUE /\ UNCHANGED faults
     \/ failed /\ UNCHANGED <<committed, faults>>
     \/ faults < MaxFaults /\ faults' = faults + 1 /\ UNCHANGED committed
  /\ stage' = "off" /\ route' = <<>> /\ failed' = FALSE
  /\ UNCHANGED <<guide, wikiLock, admitted, edits, receipts, passVars,
                 wikiHistory, attempts, passes>>

\* The worker is killed.
KillCapture ==
  /\ stage /= "off"
  /\ faults < MaxFaults /\ faults' = faults + 1
  /\ stage' = "off" /\ wikiLock' = FALSE /\ admitted' = {} /\ route' = <<>> /\ edits' = <<>>
  /\ failed' = FALSE
  /\ plan' = [plan EXCEPT ![CaptureJob] = <<>>]
  /\ Forget(CaptureJob)
  /\ UNCHANGED <<guide, committed, receipts, passAt, dropped, wikiHistory, attempts, passes>>

PassGoto(p, x) == passAt' = [passAt EXCEPT ![p] = x]

\* A pass reads every guide and sets out to ask models.
PassLoads(p) ==
  /\ passAt[p] = "off" /\ passes < MaxPasses
  /\ passes' = passes + 1
  /\ Load(p, Slug)
  /\ PassGoto(p, "loaded")
  /\ UNCHANGED <<guide, attemptVars, committed, receipts, plan, dropped, wikiHistory,
                 attempts, faults>>

\* merge_cluster: the canonical guide as the model rewrote it, with every
\* marker it left out carried forward.
Merged(g, c, cluster, h) ==
  [body |-> <<Sect(h, {}, UNION {MarkersIn(g[s].body) : s \in cluster})>>,
   sees |-> g[c].sees]

\* remap_see_also
Remapped(x, absorbed, c) ==
  [x EXCEPT !.sees = IF @ \cap absorbed = {} THEN @ ELSE (@ \ absorbed) \cup {c}]

\* The doctor writes all it has loaded; of a confirmed cluster only the
\* canonical guide, the others are deleted in the end.
DoctorPlans(p) ==
  /\ passAt[p] = "loaded"
  /\ LET g == loaded[p] IN
     \E cluster \in {c \in SUBSET Present(g) : Cardinality(c) /= 1} :
       \E c \in IF cluster = {} THEN Present(g) ELSE cluster,
          h \in GuideHeading \ {SeeAlso, Retired} :
         /\ plan' = [plan EXCEPT ![p] =
              [s \in Present(g) \ (cluster \ {c}) |->
                 Remapped(IF s = c /\ cluster /= {} THEN Merged(g, c, cluster, h) ELSE g[s],
                          cluster \ {c}, c)]]
         /\ dropped' = [dropped EXCEPT ![p] = cluster \ {c}]
  /\ PassGoto(p, "write")
  /\ UNCHANGED <<guide, attemptVars, committed, receipts, loaded, latest, wikiHistory, wikiBounds>>

\* Cross-supersession rewords statements of some guides, markers and old
\* wording included; a new topic leaves the body as it is.
RewordPlans(p) ==
  /\ passAt[p] = "loaded"
  /\ \E some \in (SUBSET Present(loaded[p])) \ {{}} :
       plan' = [plan EXCEPT ![p] = [s \in some |-> loaded[p][s]]]
  /\ PassGoto(p, "write")
  /\ UNCHANGED <<guide, attemptVars, committed, receipts, loaded, latest, dropped, wikiHistory,
                 wikiBounds>>

PassWrites(p) ==
  /\ passAt[p] \in {"write", "links"}
  /\ WritePlanned(p)
  /\ UNCHANGED <<attemptVars, committed, receipts, passAt, loaded, dropped, owed, wikiBounds>>

\* Absorbed guides are deleted when everything is written.
PassDeletes(p) ==
  /\ passAt[p] = "write" /\ plan[p] = <<>>
  /\ \E s \in dropped[p] :
       /\ guide' = [guide EXCEPT ![s] = NoFile]
       /\ overwritten' = (overwritten \/ (guide[s] /= NoFile /\ s \notin latest[p]))
       /\ latest' = [v \in Writer |-> latest[v] \ {s}]
       /\ dropped' = [dropped EXCEPT ![p] = @ \ {s}]
  /\ UNCHANGED <<attemptVars, committed, receipts, passAt, loaded, plan, written, owed, wikiBounds>>

\* Then the links are mended, from a new reading, without the wiki's lock.
PassLinks(p) ==
  /\ passAt[p] = "write" /\ plan[p] = <<>> /\ dropped[p] = {}
  /\ Load(p, Slug)
  /\ plan' = [plan EXCEPT ![p] = LinkedBack(guide)]
  /\ PassGoto(p, "links")
  /\ UNCHANGED <<guide, attemptVars, committed, receipts, dropped, wikiHistory, wikiBounds>>

\* The pass is done, fails, finds nothing to do, or is killed.
PassEnds(p) ==
  /\ \/ (passAt[p] = "loaded" \/ (passAt[p] = "links" /\ plan[p] = <<>>)) /\ UNCHANGED faults
     \/ passAt[p] /= "off" /\ faults < MaxFaults /\ faults' = faults + 1
  /\ PassGoto(p, "off")
  /\ Forget(p)
  /\ plan' = [plan EXCEPT ![p] = <<>>] /\ dropped' = [dropped EXCEPT ![p] = {}]
  /\ UNCHANGED <<guide, attemptVars, committed, receipts, wikiHistory, attempts, passes>>

CaptureWrites ==
  \/ StartAttempt \/ Extract \/ RouteClaims \/ Reconcile \/ Reconciled \/ StageFails
  \/ ReadGuide \/ SaveGuide \/ SaveFails \/ Receipt
  \/ Maintain \/ LinkGuide \/ LinksEnd \/ FinishAttempt \/ KillCapture

PassStep(p) ==
  \/ PassLoads(p) \/ DoctorPlans(p) \/ RewordPlans(p) \/ PassWrites(p)
  \/ PassDeletes(p) \/ PassLinks(p) \/ PassEnds(p)

WikiNext == CaptureWrites \/ \E p \in Pass : PassStep(p)

WikiSpec == WikiInit /\ [][WikiNext]_wikiVars

-----------------------------------------------------------------------------
(* Properties.                                                             *)

\* No operation, retirement, merge or link mending loses a citation marker,
\* wherever it stops: one that was ever saved is gone only if somebody
\* replaced or deleted a guide that had been written since he read it.
MarkersConserved == ~overwritten => written \cup receipts \subseteq Markers(guide)

\* What was admitted is in the wiki when the capture is committed, after however
\* many attempts: except what the model passed over or a logged error dropped.
CommittedHoldsClaims == committed /\ ~overwritten => owed \subseteq Markers(guide)

\* After the capture's maintenance a link is answered by a link back, unless
\* a pass wrote at the same time or a write failed.
LinksMutual ==
  (stage = "finish" /\ passes = 0 /\ faults = 0) =>
    \A s \in Present(guide) : \A t \in guide[s].sees \cap Present(guide) : s \in guide[t].sees

\* capture.rs, wiki.rs, doctor.rs and cross_supersede.rs: what the guides
\* promise, whoever writes them.
WikiSafe == MarkersConserved /\ CommittedHoldsClaims /\ LinksMutual
=============================================================================
