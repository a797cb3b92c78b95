----------------------------- MODULE SessionStores -----------------------------
(***************************************************************************)
(* The sessions of other harnesses, for the archeologist to replay:        *)
(* opencode.rs and tenex.rs copy what a live database holds of a session   *)
(* to a transcript, codex.rs takes the harness' own file.  They leave out  *)
(* what has been captured, which is a marker per session in a tree of its  *)
(* own (--output-dir), and a commit of the very transcript in the store of *)
(* the project.  The sessions go on meanwhile.                             *)
(***************************************************************************)
EXTENDS Integers, Sequences, FiniteSets, SequencesExt

CONSTANTS
  Session,
  Started,     \* when each session started; all of one group differ
  Homeless,    \* the sessions that name no directory
  Since,       \* sessions that started before are left out
  Texts,       \* what is said: some are "blank", some harness XML, "xml"
  MaxSaid,     \* bound: messages of all sessions
  MaxRuns,     \* bound: scans
  MaxFaults    \* bound: captures that fail, and resets

VARIABLES
  source,     \* "opencode", "tenex" or "codex"
  isolated,   \* whether --output-dir is given
  said,       \* the messages of each session, as the harness has them
  scan,       \* the scan: where it is, what is to do, the messages just read
  listed,     \* the sessions it has found, with what the transcript holds
  plan,       \* those still to be captured
  marked,     \* the sessions that have a marker
  committed,  \* of each session the transcripts that are committed
  captures,   \* ghost: the captures of the run, in order
  forgotten,  \* ghost: sessions that were dropped though they had words
  runs, faults

storesVars == <<source, isolated, said, scan, listed, plan, marked, committed,
                captures, forgotten, runs, faults>>

Role == {"user", "assistant", "system"}
Message == [role : Role, text : Texts, stored : BOOLEAN]
Turn == [role : Role, text : Texts]
Found == [session : Session, turns : Seq(Turn), copied : BOOLEAN]
AtRest == [at |-> "idle", todo |-> <<>>, seen |-> <<>>]

StoresTypeOK ==
  /\ source \in {"opencode", "tenex", "codex"} /\ isolated \in BOOLEAN
  /\ said \in [Session -> Seq(Message)]
  /\ scan.at \in {"idle", "next", "parts", "replay"}
  /\ scan.todo \in Seq(Session) /\ scan.seen \in Seq(1..MaxSaid)
  /\ listed \in Seq(Found) /\ plan \in Seq(Found) /\ captures \in Seq(Found)
  /\ marked \subseteq Session /\ forgotten \subseteq Session
  /\ committed \in [Session -> SUBSET Seq(Turn)]
  /\ runs \in 0..MaxRuns /\ faults \in 0..MaxFaults

-----------------------------------------------------------------------------
(* What becomes of the messages.                                           *)

TurnOf(message) == [role |-> message.role, text |-> message.text]
TurnsAt(s, places) == [k \in DOMAIN places |-> TurnOf(said[s][places[k]])]
All(s) == [k \in DOMAIN said[s] |-> k]

\* synthesize_session_jsonl: messages of people and models that have parts with
\* words, and not what the harness put in.
OpencodeKeeps(message) ==
  message.role # "system" /\ message.stored /\ message.text \notin {"blank", "xml"}

\* synthesize_conversation_jsonl: what repeats the words before it is a retry.
Retried(turns, turn) ==
  IF turns # <<>> /\ Last(turns).text = turn.text THEN turns ELSE Append(turns, turn)
TenexTurns(s) ==
  FoldLeft(Retried, <<>>,
           SelectSeq(TurnsAt(s, All(s)), LAMBDA t : t.role # "system" /\ t.text # "blank"))

\* The transcript at a place, as a capture reads it: Codex' own file, or the copy.
Contents(found) ==
  IF source = "codex" THEN TurnsAt(found.session, All(found.session)) ELSE found.turns

\* archeologist_is_already_captured
Captured(found) ==
  IF isolated THEN found.session \in marked
  ELSE Contents(found) \in committed[found.session]

\* Words a scan may not leave out.
HasWords(s) ==
  \E k \in DOMAIN said[s] :
    CASE source = "opencode" -> OpencodeKeeps(said[s][k])
      [] source = "tenex" -> said[s][k].role = "user"
      [] OTHER -> TRUE

-----------------------------------------------------------------------------
StoresInit ==
  /\ source \in {"opencode", "tenex", "codex"} /\ isolated \in BOOLEAN
  /\ said = [s \in Session |-> <<>>]
  /\ scan = AtRest /\ listed = <<>> /\ plan = <<>>
  /\ marked = {} /\ committed = [s \in Session |-> {}]
  /\ captures = <<>> /\ forgotten = {}
  /\ runs = 0 /\ faults = 0

\* A session goes on.  Opencode stores a message before its parts.
Say(s) ==
  /\ FoldFunction(LAMBDA messages, n : Len(messages) + n, 0, said) < MaxSaid
  /\ \E r \in Role, t \in Texts :
       /\ r = "system" => t = "xml"
       /\ said' = [said EXCEPT ![s] = Append(@, [role |-> r, text |-> t,
                                                 stored |-> source # "opencode"])]
  /\ UNCHANGED <<source, isolated, scan, listed, plan, marked, committed, captures,
                 forgotten, runs, faults>>

StoreParts(s) ==
  /\ \E k \in DOMAIN said[s] : ~said[s][k].stored /\ said' = [said EXCEPT ![s][k].stored = TRUE]
  /\ UNCHANGED <<source, isolated, scan, listed, plan, marked, committed, captures,
                 forgotten, runs, faults>>

Unread == <<source, isolated, said, marked, committed, runs, faults>>

\* query_sessions, query_user_conversations, collect_codex_files: the sessions
\* there are by the time they started.  In TENEX a person must have spoken.
Present(s) ==
  /\ said[s] # <<>>
  /\ Started[s] >= Since
  /\ source = "tenex" => \E k \in DOMAIN said[s] : said[s][k].role = "user"

StartScan ==
  /\ scan = AtRest /\ runs < MaxRuns /\ runs' = runs + 1
  /\ scan' = [AtRest EXCEPT !.at = "next",
                !.todo = SetToSortSeq({s \in Session : Present(s)},
                                      LAMBDA a, b : Started[a] < Started[b])]
  /\ listed' = <<>> /\ captures' = <<>> /\ forgotten' = {}
  /\ UNCHANGED <<source, isolated, said, plan, marked, committed, faults>>

First == scan.todo[1]
Listing(found) == listed' = Append(listed, found)
Going == scan' = [scan EXCEPT !.at = "next", !.todo = Tail(@), !.seen = <<>>]
Skipping(s) ==
  /\ UNCHANGED listed
  /\ forgotten' = IF HasWords(s) /\ s \notin Homeless THEN forgotten \cup {s} ELSE forgotten

\* A session without a directory belongs to no project.
SkipHomeless ==
  /\ scan.at = "next" /\ scan.todo # <<>> /\ First \in Homeless
  /\ Skipping(First) /\ Going
  /\ UNCHANGED <<plan, captures, Unread>>

\* In a tree of its own a marked session is listed, but not copied.
ListMarked ==
  /\ scan.at = "next" /\ scan.todo # <<>> /\ First \notin Homeless
  /\ source # "codex" /\ isolated /\ First \in marked
  /\ Listing([session |-> First, turns |-> <<>>, copied |-> FALSE]) /\ Going
  /\ UNCHANGED <<plan, captures, forgotten, Unread>>

Copying == /\ scan.at = "next" /\ scan.todo # <<>> /\ First \notin Homeless
           /\ ~(isolated /\ First \in marked)

ListCodex ==
  /\ source = "codex" /\ scan.at = "next" /\ scan.todo # <<>> /\ First \notin Homeless
  /\ Listing([session |-> First, turns |-> <<>>, copied |-> FALSE]) /\ Going
  /\ UNCHANGED <<plan, captures, forgotten, Unread>>

\* A conversation without text of a person or a model is skipped; one of blank
\* text is copied to an empty transcript.
CopyTenex ==
  /\ source = "tenex" /\ Copying
  /\ IF \E k \in DOMAIN said[First] : said[First][k].role # "system"
     THEN /\ Listing([session |-> First, turns |-> TenexTurns(First), copied |-> TRUE])
          /\ UNCHANGED forgotten
     ELSE Skipping(First)
  /\ Going
  /\ UNCHANGED <<plan, captures, Unread>>

\* The messages are read, and then the parts, in two queries.
ReadMessages ==
  /\ source = "opencode" /\ Copying
  /\ scan' = [scan EXCEPT !.at = "parts", !.seen = All(First)]
  /\ UNCHANGED <<listed, plan, captures, forgotten, Unread>>

\* An empty transcript is removed again.
ReadParts ==
  /\ scan.at = "parts"
  /\ LET kept == SelectSeq(scan.seen, LAMBDA k : OpencodeKeeps(said[First][k]))
     IN IF kept = <<>>
        THEN /\ UNCHANGED listed
             /\ forgotten' = forgotten \cup
                  {s \in {First} : \E k \in ToSet(scan.seen) : OpencodeKeeps(said[s][k])}
        ELSE /\ Listing([session |-> First, turns |-> TurnsAt(First, kept), copied |-> TRUE])
             /\ UNCHANGED forgotten
  /\ Going
  /\ UNCHANGED <<plan, captures, Unread>>

\* build_work_plan
EndScan ==
  /\ scan.at = "next" /\ scan.todo = <<>>
  /\ plan' = SelectSeq(listed, LAMBDA f : ~Captured(f))
  /\ scan' = [AtRest EXCEPT !.at = "replay"]
  /\ UNCHANGED <<listed, captures, forgotten, Unread>>

\* run_capture_for_archeologist: what the path holds by now.
RunCapture ==
  /\ scan.at = "replay" /\ plan # <<>>
  /\ LET found == [Head(plan) EXCEPT !.turns = Contents(Head(plan))]
         s == found.session
     IN /\ IF Captured(Head(plan)) THEN UNCHANGED captures
           ELSE captures' = Append(captures, found)
        /\ marked' = marked \cup {s}
        /\ committed' = IF isolated THEN committed
                        ELSE [committed EXCEPT ![s] = @ \cup {found.turns}]
  /\ plan' = Tail(plan)
  /\ UNCHANGED <<source, isolated, said, scan, listed, forgotten, runs, faults>>

\* The capture fails, and the replay goes on with the next.
FailCapture ==
  /\ scan.at = "replay" /\ plan # <<>>
  /\ faults < MaxFaults /\ faults' = faults + 1
  /\ plan' = Tail(plan)
  /\ UNCHANGED <<source, isolated, said, scan, listed, marked, committed, captures,
                 forgotten, runs>>

EndReplay ==
  /\ scan.at = "replay" /\ plan = <<>>
  /\ scan' = AtRest
  /\ UNCHANGED <<source, isolated, said, listed, plan, marked, committed, captures,
                 forgotten, runs, faults>>

\* run_reset: the markers go, commits stay.
Reset ==
  /\ scan = AtRest
  /\ faults < MaxFaults /\ faults' = faults + 1
  /\ marked' = {}
  /\ listed' = <<>> /\ captures' = <<>> /\ forgotten' = {}
  /\ UNCHANGED <<source, isolated, said, scan, plan, committed, runs>>

StoresNext ==
  \/ \E s \in Session : Say(s) \/ StoreParts(s)
  \/ StartScan \/ SkipHomeless \/ ListMarked \/ ListCodex \/ CopyTenex
  \/ ReadMessages \/ ReadParts \/ EndScan
  \/ RunCapture \/ FailCapture \/ EndReplay \/ Reset

-----------------------------------------------------------------------------
(* Properties.                                                             *)

\* The turns are among the others in their order, each as early as it can be.
Within(turns, others) ==
  LET step(k, t) == LET after == {j \in DOMAIN others : j > k /\ others[j] = t}
                    IN IF k < 0 \/ after = {} THEN -1
                       ELSE CHOOSE j \in after : \A i \in after : j <= i
  IN FoldLeft(step, 0, turns) >= 0

\* opencode.rs:300-367, tenex.rs:340-413: whatever is said between two queries,
\* a transcript holds what was said in the order in which it was said, each
\* thing once, and nothing of the harness but in TENEX.
CopiesInOrder ==
  \A k \in DOMAIN listed : listed[k].copied =>
    LET turns == listed[k].turns
    IN /\ Within(turns, TurnsAt(listed[k].session, All(listed[k].session)))
       /\ \A i \in DOMAIN turns : turns[i].role # "system" /\ turns[i].text # "blank"
       /\ source = "opencode" => turns # <<>>

\* opencode.rs:100-127, tenex.rs:131-153: no session that has words and a
\* directory is dropped by a scan, and those listed are there once, oldest first.
ScanComplete ==
  /\ forgotten = {}
  /\ \A j, k \in DOMAIN listed :
       j < k => Started[listed[j].session] < Started[listed[k].session]

\* archeologist.rs:949-959: once a replay has ended, whatever was listed is
\* captured, but for a capture that failed; in the project's store with at
\* least the words that were found.
ReplayComplete ==
  scan.at = "replay" /\ plan = <<>> /\ faults = 0 =>
    \A k \in DOMAIN listed :
      LET s == listed[k].session
      IN IF isolated THEN s \in marked
         ELSE \E turns \in committed[s] :
                IF listed[k].copied THEN turns = listed[k].turns ELSE turns # <<>>

\* capture.rs:3366-3394, archeologist.rs:949-959: a replay captures oldest first
\* and no session twice; of the transcripts of one session that are committed,
\* the later keeps every turn of the earlier.
RecapturedOnlyGrown ==
  /\ \A j, k \in DOMAIN captures :
       j < k => Started[captures[j].session] < Started[captures[k].session]
  /\ \A s \in Session : \A old, new \in committed[s] : Within(old, new) \/ Within(new, old)

StoresSafe == CopiesInOrder /\ ScanComplete /\ ReplayComplete /\ RecapturedOnlyGrown
=============================================================================
