------------------------------- MODULE Replay -------------------------------
(***************************************************************************)
(* The archeologist (archeologist.rs): it replays old transcripts through  *)
(* the capture pipeline.  A picker has project directories scanned by a    *)
(* thread while the user selects; the plan of the sessions not captured    *)
(* yet is run by a worker thread, which mails its progress to a driver     *)
(* (the live view, or the line log) that also follows the event log.       *)
(***************************************************************************)
EXTENDS Integers, Sequences, FiniteSets, SequencesExt

CONSTANTS
  Projects,         \* of each directory 1, 2, ...: its projects, sequences of
                    \* sessions in the order of their first messages
  Cadences,         \* sessions between two checkpoints of a project; 0 for
                    \* a run into the project stores, which needs none
  FeedCap,          \* lines the feed of the live view keeps
  MaxMisses         \* bound on sessions that are not captured

VARIABLES
  screen,      \* "pick", "pickKey", "run", "key", "closing", "over"
  driver,      \* "live" or "log"
  every,       \* the run's cadence
  stats, requested, scanned,           \* of the directories, and the scanner's channels
  selected, shown, cursor, asked,
  confirmed,   \* what was selected when the run was last asked for
  captured,    \* sessions with a committed capture
  plan, next, worker, stop, mail,
  ran,         \* of each session: how its replay ended
  unkept,      \* sessions replayed since the last maintenance of their wiki
  logged, tailed,                      \* events in the log, and read from it
  seen, tally,
  feed, scroll, paused, detail, finished

pickVars == <<stats, requested, scanned, selected, shown, cursor, asked, confirmed>>
workVars == <<captured, plan, next, worker, ran, unkept, logged>>
feedVars == <<feed, scroll, paused, detail>>
replayVars == <<screen, driver, every, pickVars, workVars, stop, mail, tailed, seen, tally,
                feedVars, finished>>

Dir == DOMAIN Projects
Sessions(d) == UNION {ToSet(p) : p \in ToSet(Projects[d])}
EverySession == UNION {Sessions(d) : d \in Dir}
Ending == {"captured", "failed", "skipped", "short", "refused"}

-----------------------------------------------------------------------------
(* The plan.                                                               *)

\* A session of the plan, and the checkpoints that follow it.
Item == [session : EverySession, check : BOOLEAN, last : BOOLEAN]

WorkOf(p) ==
  LET new == SelectSeq(p, LAMBDA s : s \notin captured) IN
  [i \in DOMAIN new |->
    [session |-> new[i], last |-> i = Len(new),
     check |-> every > 0 /\ i % every = 0 /\ i < Len(new)]]

\* chosen_lazy_projects and build_work_plan, in the order of the directories.
PlanOf(dirs) ==
  FlattenSeq([d \in Dir |-> IF d \notin dirs THEN <<>>
                            ELSE FlattenSeq([k \in DOMAIN Projects[d] |-> WorkOf(Projects[d][k])])])

\* With nothing chosen or nothing new the program says so and ends.
StartRun ==
  /\ plan' = PlanOf(selected) /\ next' = 1
  /\ screen' = IF plan' = <<>> THEN "over" ELSE "run"
  /\ worker' = IF plan' = <<>> THEN "gone" ELSE "next"

-----------------------------------------------------------------------------
(* The picker.                                                             *)

\* enqueue_lazy_stats, of several directories in turn.
Enqueue(ds) ==
  LET new == SelectSeq([d \in Dir |-> d], LAMBDA d : d \in ds /\ stats[d] = "pending") IN
  /\ stats' = [d \in Dir |-> IF d \in ToSet(new) THEN "loading" ELSE stats[d]]
  /\ requested' = requested \o new

Scan ==
  /\ requested /= <<>>
  /\ scanned' = scanned \cup {Head(requested)} /\ requested' = Tail(requested)
  /\ UNCHANGED <<screen, driver, every, stats, selected, shown, cursor, asked, confirmed, workVars,
                 stop, mail, tailed, seen, tally, feedVars, finished>>

\* The head of the picker's loop: results are taken, and a request is met once
\* every selected directory is ready.  A picker that is left forgets its state.
Look ==
  /\ screen = "pick"
  /\ LET got == [d \in Dir |-> IF d \in scanned THEN "ready" ELSE stats[d]] IN
     IF asked /= "no" /\ \A d \in selected : got[d] = "ready"
     THEN /\ IF asked = "run" THEN StartRun
             ELSE screen' = "over" /\ worker' = "gone" /\ UNCHANGED <<plan, next>>
          /\ stats' = [d \in Dir |-> "pending"] /\ requested' = <<>> /\ scanned' = {}
          /\ shown' = Dir /\ cursor' = 0
     ELSE /\ stats' = got /\ scanned' = {}
          /\ cursor' = IF cursor < Cardinality(shown) THEN cursor
                       ELSE IF shown = {} THEN 0 ELSE Cardinality(shown) - 1
          /\ screen' = "pickKey" /\ UNCHANGED <<requested, shown, plan, next, worker>>
  /\ UNCHANGED <<driver, every, selected, asked, confirmed, captured, ran, unkept,
                 logged, stop, mail, tailed, seen, tally, feedVars, finished>>

PickKey ==
  /\ screen = "pickKey"
  /\ UNCHANGED <<driver, every, scanned, workVars, stop, mail, tailed, seen, tally, feedVars, finished>>

\* The row of a directory among those shown.
Row(d) == Cardinality({e \in shown : e < d})

Toggle ==
  /\ PickKey /\ screen' = "pick"
  /\ \E d \in shown :
       /\ Row(d) = cursor
       /\ selected' = IF d \in selected THEN selected \ {d} ELSE selected \cup {d}
       /\ IF d \in selected THEN UNCHANGED <<stats, requested>> ELSE Enqueue({d})
  /\ asked' = "no" /\ UNCHANGED <<shown, cursor, confirmed>>

SelectShown ==
  /\ PickKey /\ screen' = "pick"
  /\ selected' = selected \cup shown /\ Enqueue(shown)
  /\ asked' = "no" /\ UNCHANGED <<shown, cursor, confirmed>>

SelectNone ==
  /\ PickKey /\ screen' = "pick"
  /\ selected' = selected \ shown
  /\ asked' = "no" /\ UNCHANGED <<stats, requested, shown, cursor, confirmed>>

Ask(what) ==
  /\ PickKey /\ screen' = "pick"
  /\ Enqueue(selected)
  /\ asked' = what /\ confirmed' = IF what = "run" THEN selected ELSE confirmed
  /\ UNCHANGED <<selected, shown, cursor>>

\* The search line: some of the directories match it.
Search(matching) ==
  /\ PickKey /\ screen' = "pick"
  /\ shown' = matching /\ cursor' = 0
  /\ UNCHANGED <<stats, requested, selected, asked, confirmed>>

MoveCursor ==
  /\ PickKey /\ screen' = "pick"
  /\ \/ cursor > 0 /\ cursor' = cursor - 1
     \/ cursor + 1 < Cardinality(shown) /\ cursor' = cursor + 1
  /\ UNCHANGED <<stats, requested, selected, shown, asked, confirmed>>

NoPickKey ==
  /\ PickKey /\ screen' = "pick" /\ UNCHANGED pickVars

QuitPicker ==
  /\ PickKey /\ screen' = "over" /\ UNCHANGED pickVars

-----------------------------------------------------------------------------
(* The worker.                                                             *)

Work ==
  UNCHANGED <<screen, driver, every, pickVars, plan, stop, tailed, seen, tally, feedVars, finished>>

BeginSession ==
  /\ worker = "next" /\ ~ stop /\ next <= Len(plan)
  /\ worker' = "capturing" /\ mail' = Append(mail, "start")
  /\ Work /\ UNCHANGED <<captured, next, ran, unkept, logged>>

\* Past triage the pipeline runs, and says so.
BeginCapture ==
  /\ worker = "capturing"
  /\ worker' = "pipeline" /\ logged' = Append(logged, "capture.start")
  /\ Work /\ UNCHANGED <<captured, next, ran, unkept, mail>>

\* A capture whose pipeline failed ends like one that was committed; a session
\* that is too short or skipped is committed; one whose inbox, lock or history
\* fails is not, and only a skip is logged.
EndCapture(how) ==
  /\ worker = IF how \in {"captured", "failed"} THEN "pipeline" ELSE "capturing"
  /\ worker' = "done"
  /\ how = "captured" \/ Cardinality({s \in EverySession : ran[s] \notin {"no", "captured"}}) < MaxMisses
  /\ ran' = [ran EXCEPT ![plan[next].session] = how]
  /\ captured' = IF how \in {"failed", "refused"} THEN captured
                 ELSE captured \cup {plan[next].session}
  /\ unkept' = IF every > 0 /\ how \in {"captured", "failed"}
               THEN unkept \cup {plan[next].session} ELSE unkept
  /\ logged' = CASE how = "skipped" -> Append(logged, "capture.triage")
                 [] how \in {"short", "refused"} -> logged
                 [] OTHER -> Append(logged, "capture.done")
  /\ Work /\ UNCHANGED <<next, mail>>

\* Maintenance of an output directory; a project store's is in each capture.
Checkpoint ==
  /\ worker = "done"
  /\ LET due == plan[next].check \/ plan[next].last IN
     /\ mail' = mail \o (IF due THEN <<"done", "checkpoint">> ELSE <<"done">>)
     /\ unkept' = IF due THEN {} ELSE unkept
  /\ worker' = "next" /\ next' = next + 1
  /\ Work /\ UNCHANGED <<captured, ran, logged>>

FinishPlan ==
  /\ worker = "next" /\ (stop \/ next > Len(plan))
  /\ worker' = "gone" /\ mail' = Append(mail, "finished")
  /\ Work /\ UNCHANGED <<captured, next, ran, unkept, logged>>

\* The thread that follows the event log.
Follow ==
  /\ logged /= <<>>
  /\ tailed' = tailed \o logged /\ logged' = <<>>
  /\ UNCHANGED <<screen, driver, every, pickVars, captured, plan, next, worker, ran, unkept, stop,
                 mail, seen, tally, feedVars, finished>>

-----------------------------------------------------------------------------
(* The drivers.                                                            *)

Count(s, e) == Cardinality({i \in DOMAIN s : s[i] = e})
Tallied(t, es) ==
  [started |-> t.started + Count(es, "capture.start"),
   done |-> t.done + Count(es, "capture.done"),
   skipped |-> t.skipped + Count(es, "capture.triage")]

\* push_feed_line_preserving_scroll
PushFeed(f, line) ==
  LET lines == Append(IF Len(f.lines) >= FeedCap THEN Tail(f.lines) ELSE f.lines, line) IN
  [lines |-> lines,
   scroll |-> IF ~ paused /\ f.scroll = 0 THEN 0
              ELSE IF f.scroll < Len(lines) THEN f.scroll + 1 ELSE Len(lines)]

\* feed_cursor_idx, from 1.
CursorAt(total, s) ==
  IF total = 0 THEN 0 ELSE IF s <= 1 THEN total ELSE IF s > total THEN 1 ELSE total - s + 1

\* The head of the live view's loop.
Drain ==
  /\ screen = "run" /\ driver = "live"
  /\ seen' = seen + Count(mail, "start")
  /\ finished' = (finished \/ Count(mail, "finished") > 0) /\ mail' = <<>>
  /\ tally' = Tallied(tally, tailed) /\ tailed' = <<>>
  /\ LET made == IF feed = <<>> THEN 0 ELSE Last(feed)
         after == FoldLeft(PushFeed, [lines |-> feed, scroll |-> scroll],
                           [i \in DOMAIN tailed |-> made + i])
     IN feed' = after.lines /\ scroll' = after.scroll
  /\ screen' = "key"
  /\ UNCHANGED <<driver, every, pickVars, workVars, stop, paused, detail>>

Key ==
  /\ screen = "key"
  /\ UNCHANGED <<driver, every, pickVars, workVars, mail, tailed, seen, tally, feed, finished>>

\* The end of the loop: a finished run is left.
Looped == screen' = (IF finished THEN "closing" ELSE "run") /\ stop' = (stop \/ finished)

NoKey == Key /\ Looped /\ UNCHANGED <<scroll, paused, detail>>

KeyUp ==
  /\ Key /\ Looped /\ UNCHANGED <<paused, detail>>
  /\ scroll' = IF detail \/ scroll >= Len(feed) THEN scroll ELSE scroll + 1

KeyDown ==
  /\ Key /\ Looped /\ UNCHANGED <<paused, detail>>
  /\ scroll' = IF detail \/ scroll = 0 THEN scroll ELSE scroll - 1

KeyPause ==
  /\ Key /\ Looped /\ UNCHANGED detail
  /\ paused' = ~ paused /\ scroll' = IF paused THEN 0 ELSE scroll

KeyEnter ==
  /\ Key /\ Looped /\ UNCHANGED <<scroll, paused>>
  /\ detail' = (~ detail /\ feed /= <<>>)

\* q and Ctrl-C at any time, Esc after closing the detail window.
KeyEsc ==
  /\ Key /\ detail /\ Looped /\ detail' = FALSE /\ UNCHANGED <<scroll, paused>>

KeyQuit ==
  /\ Key /\ stop' = TRUE /\ screen' = "closing" /\ UNCHANGED <<scroll, paused, detail>>

\* Mutant: nothing is read after the worker has ended.
JoinAtOnce ==
  /\ screen = "closing" /\ worker = "gone" /\ screen' = "over"
  /\ UNCHANGED <<tally, logged, tailed>>
  /\ UNCHANGED <<driver, every, pickVars, captured, plan, next, worker, ran, unkept, stop, mail, seen,
                 feedVars, finished>>

\* The session in work is awaited; then the follower is given time to catch up,
\* in the live view only.
Join ==
  /\ screen = "closing" /\ worker = "gone" /\ screen' = "over"
  /\ IF driver = "live"
     THEN tally' = Tallied(tally, tailed \o logged) /\ logged' = <<>>
     ELSE tally' = Tallied(tally, tailed) /\ UNCHANGED logged
  /\ tailed' = <<>>
  /\ UNCHANGED <<driver, every, pickVars, captured, plan, next, worker, ran, unkept, stop, mail, seen,
                 feedVars, finished>>

\* run_linelog takes the worker's messages one by one.
LogLine ==
  /\ screen = "run" /\ driver = "log" /\ mail /= <<>>
  /\ tally' = Tallied(tally, tailed) /\ tailed' = <<>>
  /\ seen' = IF Head(mail) = "start" THEN seen + 1 ELSE seen
  /\ screen' = IF Head(mail) = "finished" THEN "closing" ELSE "run"
  /\ mail' = Tail(mail)
  /\ UNCHANGED <<driver, every, pickVars, workVars, stop, feedVars, finished>>

-----------------------------------------------------------------------------
\* The picker starts with the directory the program was called in, if it is one
\* of them; --yes and --project select without a picker.
ReplayInit ==
  /\ screen = "pick" /\ driver \in {"live", "log"} /\ every \in Cadences
  /\ stats = [d \in Dir |-> "pending"] /\ requested = <<>> /\ scanned = {}
  /\ \/ selected = {} /\ asked = "no"
     \/ selected \in {{1}, Dir} /\ asked = "run"
  /\ shown = Dir /\ cursor = 0 /\ confirmed = selected
  /\ captured \in {{}, {Last(Projects[1][1])}}
  /\ plan = <<>> /\ next = 1 /\ worker = "idle" /\ stop = FALSE /\ mail = <<>>
  /\ ran = [s \in EverySession |-> "no"] /\ unkept = {} /\ logged = <<>> /\ tailed = <<>>
  /\ seen = 0 /\ tally = [started |-> 0, done |-> 0, skipped |-> 0]
  /\ feed = <<>> /\ scroll = 0 /\ paused = FALSE /\ detail = FALSE /\ finished = FALSE
ReplayNext ==
  \/ Scan \/ Look \/ Toggle \/ SelectShown \/ SelectNone \/ MoveCursor \/ NoPickKey \/ QuitPicker
  \/ (\E what \in {"run", "dry"} : Ask(what)) \/ (\E matching \in SUBSET Dir : Search(matching))
  \/ BeginSession \/ BeginCapture \/ (\E how \in Ending : EndCapture(how)) \/ Checkpoint \/ FinishPlan
  \/ Follow \/ Drain \/ NoKey \/ KeyUp \/ KeyDown \/ KeyPause \/ KeyEnter \/ KeyEsc \/ KeyQuit
  \/ LogLine \/ Join

ReplaySpec == ReplayInit /\ [][ReplayNext]_replayVars

-----------------------------------------------------------------------------
(* Properties.                                                             *)

\* Types, and a cursor on a row of the picker and on a line of the feed.
ReplayTypeOK ==
  /\ screen \in {"pick", "pickKey", "run", "key", "closing", "over"}
  /\ stats \in [Dir -> {"pending", "loading", "ready"}]
  /\ selected \subseteq Dir /\ shown \subseteq Dir /\ confirmed \subseteq Dir /\ scanned \subseteq Dir
  /\ cursor = 0 \/ cursor < Cardinality(shown) \/ screen = "pick"
  /\ plan \in Seq(Item) /\ next \in 1..(Len(plan) + 1)
  /\ worker \in {"idle", "next", "capturing", "pipeline", "done", "gone"}
  /\ ran \in [EverySession -> Ending \cup {"no"}]
  /\ Len(feed) <= FeedCap /\ scroll \in 0..Len(feed)

\* What is replayed is what was selected when the run was last asked for,
\* whatever was toggled, filtered or scanned in between: each of its sessions
\* not captured before, once (run_requested and selected_ready in
\* run_lazy_picker, build_work_plan).
RunsAreConfirmed ==
  LET planned == {plan[i].session : i \in DOMAIN plan} IN
  plan /= <<>> =>
    /\ planned \subseteq UNION {Sessions(d) : d \in confirmed}
    /\ UNION {Sessions(d) : d \in confirmed} \subseteq planned \cup captured
    /\ Cardinality(planned) = Len(plan)

\* The wiki of an output directory is never more than `every` sessions
\* behind its maintenance, no project is left behind when the next begins, and
\* none at the end unless the run was stopped ("Mandatory final checkpoint at
\* project end" in replay_worker).
MaintenanceKeepsUp ==
  /\ unkept = {} \/ \E d \in Dir : \E p \in ToSet(Projects[d]) : unkept \subseteq ToSet(p)
  /\ worker = "next" /\ every > 0 => Cardinality(unkept) < every
  /\ worker = "gone" /\ ~ stop => unkept = {}

\* The summary of the live view counts every session whose pipeline ran and
\* every one skipped, and none as interrupted, also those that ended after the
\* user had quit (the last drain in run_tui_mode).
ReportComplete ==
  screen = "over" /\ driver = "live" /\ plan /= <<>> =>
    /\ tally.started = tally.done
    /\ tally.done = Cardinality({s \in EverySession : ran[s] \in {"captured", "failed"}})
    /\ tally.skipped = Cardinality({s \in EverySession : ran[s] = "skipped"})

\* A user who has scrolled up keeps the line under the cursor while new lines
\* arrive, until the ring drops it (push_feed_line_preserving_scroll).
LineKept ==
  screen = "run" /\ scroll > 0 =>
    LET line == feed[CursorAt(Len(feed), scroll)] IN
    IF line \in ToSet(feed') THEN feed'[CursorAt(Len(feed'), scroll')] = line
    ELSE CursorAt(Len(feed'), scroll') = 1
FeedHeld == [][LineKept]_replayVars
=============================================================================
