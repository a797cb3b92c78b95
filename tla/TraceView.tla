----------------------------- MODULE TraceView ------------------------------
(***************************************************************************)
(* The interactive trace view (tui.rs): a ring of event records, the runs  *)
(* folded from them, and a list with a cursor, filters, a detail window    *)
(* and a picker.                                                           *)
(*                                                                         *)
(* Records come from a follower of the event log (EventLog), which loses   *)
(* lines when its channel is full and may show one again, in between the   *)
(* user's keys.  A run is one request: of the injection hook or a capture. *)
(***************************************************************************)
EXTENDS Integers, Sequences, FiniteSets, SequencesExt

CONSTANTS
  Request,          \* requests
  Captures,         \* those that are captures
  SessionOf,        \* of each request: its session
  RingCap,          \* records kept
  MaxRecords        \* bound

VARIABLES
  records,   \* the ring of <<request, event>>
  arrived,   \* records taken so far
  runs,      \* the runs, in order of their first record
  awaiting,  \* of each session: its last compiled injection, 0 if none
  again,     \* of each request: how often it was shown to have compiled, up to twice
  follow, selected,
  modal,     \* the run in the detail window, 0 if closed
  raw, sibling,
  kinds, only,  \* the filters: a kind of run, a session
  picker

viewVars == <<records, arrived, runs, awaiting, again, follow, selected, modal, raw, sibling,
              kinds, only, picker>>
windowVars == <<modal, raw, sibling>>
filterVars == <<kinds, only>>
dataVars == <<records, arrived, runs, awaiting, again>>

TracedSession == {SessionOf[r] : r \in Request}
Injects == {"inject.start", "inject.skip", "inject.compiled", "inject.skipped",
            "error"}
\* "inject.start" stands for every line that only adds detail.
EventsOf(r) == IF r \in Captures THEN {"capture.start", "capture.done"} ELSE Injects
Outcome == {"inflight", "compiled", "skipped", "error", "captured"}
Run == [req : Request, outcome : Outcome, merged : 0..Cardinality(Request),
        linked : Request \cup {"none"}, shows : Outcome \cup {"none"}]
Closed == [pc |-> "closed"]

ViewTypeOK ==
  /\ \A k \in DOMAIN records : records[k][1] \in Request /\ records[k][2] \in EventsOf(records[k][1])
  /\ Len(records) <= RingCap /\ arrived \in 0..MaxRecords
  /\ \A i \in DOMAIN runs : runs[i] \in Run
  /\ \A i, j \in DOMAIN runs : runs[i].req = runs[j].req => i = j
  /\ awaiting \in [TracedSession -> 0..Len(runs)]
  /\ selected \in 0..Len(runs) /\ modal \in 0..Len(runs) /\ sibling \in 0..(RingCap - 1)
  /\ follow \in BOOLEAN /\ raw \in BOOLEAN
  /\ kinds \in {"all", "inject", "capture"} /\ only \in TracedSession \cup {"all"}
  /\ picker = Closed \/ picker.at \in DOMAIN picker.ids

-----------------------------------------------------------------------------
(* Rows.                                                                   *)

\* visible_run_indices, of given runs under given filters.
Visible(rs, kind, sess) ==
  SelectSeq([i \in DOMAIN rs |-> i],
    LAMBDA i : /\ rs[i].merged = 0
               /\ kind = "inject" => rs[i].req \notin Captures
               /\ kind = "capture" => rs[i].req \in Captures
               /\ sess = "all" \/ SessionOf[rs[i].req] = sess)

Rows == Visible(runs, kinds, only)
LastOf(rows) == IF rows = <<>> THEN 0 ELSE Last(rows)

\* reconcile_selection, after a filter has changed.
Reconcile(rows) ==
  IF ~ follow /\ selected \in ToSet(rows) THEN selected ELSE LastOf(rows)

-----------------------------------------------------------------------------
(* Records.                                                                *)

\* Mutant: only the latest run is looked up.
IndexLast(r) == IF runs /= <<>> /\ Last(runs).req = r THEN Len(runs) ELSE Len(runs) + 1

Index(r) == IF \E i \in DOMAIN runs : runs[i].req = r
            THEN CHOOSE i \in DOMAIN runs : runs[i].req = r ELSE Len(runs) + 1
New(r) == [req |-> r, outcome |-> "inflight", merged |-> 0, linked |-> "none", shows |-> "none"]

\* An injection's outcome after an event: a skip is final unless the run
\* compiles after all, and an error counts while nothing else has happened.
After(o, e) ==
  CASE e = "inject.skip" -> "skipped"
    [] e = "inject.compiled" -> "compiled"
    [] e = "inject.skipped" /\ o = "inflight" -> "skipped"
    [] e = "error" /\ o = "inflight" -> "error"
    [] e = "capture.done" -> "captured"
    [] OTHER -> o

\* fold_into_run: the run's own state, the link of a capture to the injection
\* its session awaits, and a finished capture copied into the injection's row.
Folded(r, e, rs, i) ==
  LET own == [rs EXCEPT ![i].outcome = After(@, e)]
      inj == awaiting[SessionOf[r]]
      to == own[i].merged
  IN CASE e = "capture.start" /\ inj /= 0 ->
            [own EXCEPT ![i].merged = inj, ![inj].linked = r]
       [] e = "capture.done" /\ to /= 0 -> [own EXCEPT ![to].shows = own[i].outcome]
       [] OTHER -> own

Awaited(r, e, i) ==
  CASE e = "inject.compiled" -> [awaiting EXCEPT ![SessionOf[r]] = i]
    [] e = "capture.start" -> [awaiting EXCEPT ![SessionOf[r]] = 0]
    [] OTHER -> awaiting

\* push_record
Push(r, e) ==
  LET i == Index(r) rs == IF i > Len(runs) THEN Append(runs, New(r)) ELSE runs IN
  /\ arrived < MaxRecords /\ arrived' = arrived + 1
  /\ records' = Append(IF Len(records) < RingCap THEN records ELSE Tail(records), <<r, e>>)
  /\ runs' = Folded(r, e, rs, i) /\ awaiting' = Awaited(r, e, i)
  /\ again' = IF e = "inject.compiled" /\ again[r] < 2 THEN [again EXCEPT ![r] = @ + 1] ELSE again
  /\ selected' = IF follow THEN LastOf(Visible(runs', kinds, only)) ELSE selected
  /\ UNCHANGED <<follow, windowVars, filterVars, picker>>

-----------------------------------------------------------------------------
(* Keys of the list: it has the keyboard when no window is open.           *)

Listing == modal = 0 /\ picker = Closed
Position(rows, at) == Cardinality({k \in DOMAIN rows : rows[k] < at})

SelectUp ==
  /\ Listing /\ Rows /= <<>>
  /\ selected' = LET p == Position(Rows, selected)
                 IN IF selected = 0 THEN Last(Rows) ELSE IF p = 0 THEN Rows[1] ELSE Rows[p]
  /\ follow' = FALSE
  /\ UNCHANGED <<dataVars, windowVars, filterVars, picker>>

SelectDown ==
  /\ Listing /\ Rows /= <<>>
  /\ selected' = LET p == Position(Rows, selected + 1)
                 IN IF p >= Len(Rows) THEN Last(Rows) ELSE Rows[p + 1]
  /\ follow' = (selected' = Last(Rows))
  /\ UNCHANGED <<dataVars, windowVars, filterVars, picker>>

JumpToBottom ==
  /\ Listing /\ selected' = LastOf(Rows) /\ follow' = TRUE
  /\ UNCHANGED <<dataVars, windowVars, filterVars, picker>>

JumpToTop ==
  /\ Listing /\ selected' = (IF Rows = <<>> THEN 0 ELSE Rows[1]) /\ follow' = FALSE
  /\ UNCHANGED <<dataVars, windowVars, filterVars, picker>>

CycleKind ==
  /\ Listing
  /\ kinds' = [all |-> "inject", inject |-> "capture", capture |-> "all"][kinds]
  /\ selected' = Reconcile(Visible(runs, kinds', only))
  /\ UNCHANGED <<dataVars, follow, windowVars, only, picker>>

\* The picker offers the sessions of the records still in the ring.
OpenPicker ==
  /\ Listing
  /\ LET ids == <<"all">> \o SetToSeq({SessionOf[records[k][1]] : k \in DOMAIN records})
     IN picker' = [pc |-> "open", ids |-> ids,
                   at |-> IF \E k \in DOMAIN ids : ids[k] = only
                          THEN CHOOSE k \in DOMAIN ids : ids[k] = only ELSE 1]
  /\ UNCHANGED <<dataVars, follow, selected, windowVars, filterVars>>

MovePicker ==
  /\ picker /= Closed
  /\ \E to \in {picker.at - 1, picker.at + 1} \cap DOMAIN picker.ids :
       picker' = [picker EXCEPT !.at = to]
  /\ UNCHANGED <<dataVars, follow, selected, windowVars, filterVars>>

\* Mutant: the session is chosen and the cursor left where it was.
ChooseUnreconciled ==
  /\ picker /= Closed /\ picker' = Closed
  /\ only' = picker.ids[picker.at]
  /\ UNCHANGED <<dataVars, follow, selected, windowVars, kinds>>

Choose ==
  /\ picker /= Closed /\ picker' = Closed
  /\ only' = picker.ids[picker.at]
  /\ selected' = Reconcile(Visible(runs, kinds, only'))
  /\ UNCHANGED <<dataVars, follow, windowVars, kinds>>

ClosePicker ==
  /\ picker /= Closed /\ picker' = Closed
  /\ UNCHANGED <<dataVars, follow, selected, windowVars, filterVars>>

-----------------------------------------------------------------------------
(* The detail window.                                                      *)

OpenModal ==
  /\ Listing /\ selected /= 0
  /\ modal' = selected /\ raw' = FALSE /\ sibling' = 0
  /\ UNCHANGED <<dataVars, follow, selected, filterVars, picker>>

ToggleRaw ==
  /\ modal /= 0 /\ picker = Closed /\ raw' = ~ raw /\ sibling' = 0
  /\ UNCHANGED <<dataVars, follow, selected, modal, filterVars, picker>>

CloseModal ==
  /\ modal /= 0 /\ picker = Closed /\ modal' = 0 /\ raw' = FALSE /\ sibling' = 0
  /\ UNCHANGED <<dataVars, follow, selected, filterVars, picker>>

\* The records of the window's run that are still in the ring.
Siblings == IF modal = 0 THEN <<>>
            ELSE SelectSeq(records, LAMBDA rec : rec[1] = runs[modal].req)

\* Left and right in the raw window; eviction may leave the index behind.
MoveSibling ==
  /\ modal /= 0 /\ picker = Closed /\ raw
  /\ \/ sibling > 0 /\ sibling' = sibling - 1
     \/ sibling + 1 < Len(Siblings) /\ sibling' = sibling + 1
  /\ UNCHANGED <<dataVars, follow, selected, modal, raw, filterVars, picker>>

-----------------------------------------------------------------------------
ViewInit ==
  /\ records = <<>> /\ arrived = 0 /\ runs = <<>> /\ awaiting = [s \in TracedSession |-> 0]
  /\ again = [r \in Request |-> 0]
  /\ follow = TRUE /\ selected = 0 /\ modal = 0 /\ raw = FALSE /\ sibling = 0
  /\ kinds = "all" /\ only = "all" /\ picker = Closed

ViewNext ==
  \/ \E r \in Request : \E e \in EventsOf(r) : Push(r, e)
  \/ SelectUp \/ SelectDown \/ JumpToBottom \/ JumpToTop \/ CycleKind
  \/ OpenPicker \/ MovePicker \/ Choose \/ ClosePicker
  \/ OpenModal \/ ToggleRaw \/ CloseModal \/ MoveSibling

-----------------------------------------------------------------------------
\* While the list follows, the cursor is on its last row, and a paused cursor
\* is on a row (tui.rs:722: "keep `selected` pointing at a visible run"),
\* whatever keys and records came; only a row whose capture was linked to an
\* injection behind the user's back goes away under it.
CursorOnRow ==
  IF follow THEN selected = LastOf(Rows)
  ELSE selected \in ToSet(Rows) \cup {0} \/ runs[selected].merged /= 0

\* A run has its own row, or is a capture shown in the row of an injection of
\* its session; two captures share one row only if the line that the
\* injection compiled was shown twice, so none is lost behind another.
OneCapturePerRow ==
  \A i \in DOMAIN runs : runs[i].merged /= 0 =>
    LET row == runs[runs[i].merged] IN
    /\ runs[i].req \in Captures /\ row.req \notin Captures /\ row.merged = 0
    /\ SessionOf[row.req] = SessionOf[runs[i].req]
    /\ row.linked = runs[i].req \/ again[row.req] = 2

ViewSpec == ViewInit /\ [][ViewNext]_viewVars
=============================================================================
