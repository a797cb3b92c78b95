---------------------------- MODULE RecallConsole ----------------------------
(***************************************************************************)
(* The prompt of `pc recall repl` (src/src/recall/repl.rs) and its menu of *)
(* models (picker.rs), key by key: the line that is edited, the history,   *)
(* the commands, the two models and what the answers of each have cost.    *)
(***************************************************************************)
EXTENDS Integers, Sequences, FiniteSets, SequencesExt

CONSTANTS
  Char,       \* the characters of a line
  Blank,      \* lines of spaces only
  Meaning,    \* of a line: the command it is, or "ask"
  Entries,    \* the menu: a sequence of [model, provider]
  MaxLength,  \* bound: characters in a line
  MaxLines    \* bound: lines submitted

VARIABLES
  buf, cursor,   \* the line and the place in it
  history, at,   \* the lines submitted, and the one that is shown, 0 for none
  model,         \* the model of each role
  mode,          \* of the answers
  question,      \* the last question, or NoLine
  menu,          \* the menu that is open: role, tab, row and filter, or Closed
  calls,         \* of each model the answers it gave
  asked,         \* ghost: the questions, each with its model
  submitted      \* ghost: the lines

consoleVars == <<buf, cursor, history, at, model, mode, question, menu, calls, asked, submitted>>

Role == {"fast", "thinking"}
Models == {Entries[k].model : k \in DOMAIN Entries}
\* tabs_for: All first, then the providers there are models of.
Tabs == <<"all">> \o SelectSeq(<<"openrouter", "ollama", "claude">>,
                               LAMBDA p : \E k \in DOMAIN Entries : Entries[k].provider = p)
NoLine == <<"no line">>
NoFilter == "none"
Closed == [role |-> "closed", tab |-> 1, row |-> 1, filter |-> NoFilter]

\* Line texts are sequences of characters; a command is one by its meaning.
What(line) == IF line \in DOMAIN Meaning THEN Meaning[line] ELSE "ask"

ConsoleTypeOK ==
  /\ buf \in Seq(Char) /\ Len(buf) <= MaxLength
  /\ cursor \in 0..MaxLength
  /\ at \in 0..Len(history)
  /\ model \in [Role -> Models] /\ mode \in {"full", "brief"}
  /\ menu.role \in Role \cup {"closed"} /\ menu.tab \in DOMAIN Tabs /\ menu.row \in 1..Len(Entries)
  /\ calls \in [Models -> 0..MaxLines]
  /\ submitted \in 0..MaxLines

ConsoleInit ==
  /\ buf = <<>> /\ cursor = 0 /\ history = <<>> /\ at = 0
  /\ model = [r \in Role |-> Entries[1].model] /\ mode = "full" /\ question = NoLine
  /\ menu = Closed /\ calls = [m \in Models |-> 0] /\ asked = <<>> /\ submitted = 0

-----------------------------------------------------------------------------
(* read_prompt_raw: the line.                                              *)

Editing == menu = Closed /\ submitted < MaxLines
Same == <<model, mode, question, menu, calls, asked, submitted>>

Type ==
  /\ Editing /\ Len(buf) < MaxLength
  /\ \E c \in Char : buf' = InsertAt(buf, cursor + 1, c)
  /\ cursor' = cursor + 1
  /\ UNCHANGED <<history, at, Same>>

Backspace ==
  /\ Editing /\ cursor > 0
  /\ buf' = RemoveAt(buf, cursor) /\ cursor' = cursor - 1
  /\ UNCHANGED <<history, at, Same>>

DeleteKey ==
  /\ Editing /\ cursor < Len(buf)
  /\ buf' = RemoveAt(buf, cursor + 1)
  /\ UNCHANGED <<cursor, history, at, Same>>

Move ==
  /\ Editing
  /\ cursor' \in {IF cursor = 0 THEN 0 ELSE cursor - 1,
                  IF cursor < Len(buf) THEN cursor + 1 ELSE cursor, 0, Len(buf)}
  /\ UNCHANGED <<buf, history, at, Same>>

Show(k) == /\ at' = k
           /\ buf' = IF k = 0 THEN <<>> ELSE history[k]
           /\ cursor' = Len(buf')

Up ==
  /\ Editing /\ history # <<>>
  /\ Show(IF at = 0 THEN Len(history) ELSE IF at = 1 THEN 1 ELSE at - 1)
  /\ UNCHANGED <<history, Same>>

Down ==
  /\ Editing /\ at # 0
  /\ Show(IF at < Len(history) THEN at + 1 ELSE 0)
  /\ UNCHANGED <<history, Same>>

\* Ctrl-C drops the line.
Interrupt ==
  /\ Editing
  /\ buf' = <<>> /\ cursor' = 0 /\ at' = 0
  /\ UNCHANGED <<history, Same>>

-----------------------------------------------------------------------------
(* run and handle_command: the line that was submitted.                    *)

\* remember: a line of spaces, and one like the last, are not kept.
Remembered(line) ==
  IF line = <<>> \/ line \in Blank \/ (history # <<>> /\ Last(history) = line)
  THEN history ELSE Append(history, line)

\* A question goes to the thinking model, whose answer may fail.
Ask(line) ==
  /\ question' = line
  /\ asked' = Append(asked, [line |-> line, model |-> model["thinking"]])
  /\ \E answered \in BOOLEAN :
       calls' = IF answered THEN [calls EXCEPT ![model["thinking"]] = @ + 1] ELSE calls
  /\ UNCHANGED <<model, mode, menu>>

Submit ==
  /\ Editing /\ submitted' = submitted + 1
  /\ history' = Remembered(buf)
  /\ buf' = <<>> /\ cursor' = 0 /\ at' = 0
  /\ LET what == IF buf = <<>> \/ buf \in Blank THEN "nothing" ELSE What(buf)
     IN CASE what = "ask" -> Ask(buf)
          [] what = "last" /\ question # NoLine -> Ask(question)
          [] what \in {"full", "brief"} ->
               mode' = what /\ UNCHANGED <<model, question, menu, calls, asked>>
          [] what \in Role ->
               menu' = [Closed EXCEPT !.role = what]
                 /\ UNCHANGED <<model, mode, question, calls, asked>>
          [] OTHER -> UNCHANGED <<model, mode, question, menu, calls, asked>>

-----------------------------------------------------------------------------
(* pick_inner: the menu of the models.                                     *)

Open == menu # Closed
Matching(m) ==
  SelectSeq(Entries, LAMBDA e : /\ Tabs[m.tab] \in {"all", e.provider}
                                /\ m.filter \in {NoFilter, e.model})
\* The row is brought back onto the list before it is drawn.
Drawn(m) ==
  LET rows == Len(Matching(m))
  IN [m EXCEPT !.row = IF @ <= rows THEN @ ELSE IF rows = 0 THEN 1 ELSE rows]
lineVars == <<buf, cursor, history, at, mode, question, calls, asked, submitted>>

RowKey ==
  /\ Open
  /\ \E step \in {-1, 1} :
       /\ menu.row + step \in 1..Len(Matching(menu))
       /\ menu' = Drawn([menu EXCEPT !.row = @ + step])
  /\ UNCHANGED <<model, lineVars>>

\* To the left it stops at the first tab, to the right it goes round.
TabKey ==
  /\ Open
  /\ \E tab \in {IF menu.tab = 1 THEN 1 ELSE menu.tab - 1,
                 IF menu.tab < Len(Tabs) THEN menu.tab + 1 ELSE 1} :
       menu' = Drawn([menu EXCEPT !.tab = tab, !.row = 1])
  /\ UNCHANGED <<model, lineVars>>

FilterKey ==
  /\ Open
  /\ \E f \in Models \cup {NoFilter} : menu' = Drawn([menu EXCEPT !.filter = f, !.row = 1])
  /\ UNCHANGED <<model, lineVars>>

\* Enter takes the row that is marked, nothing from an empty list; Esc leaves.
CloseMenu ==
  /\ Open /\ menu' = Closed
  /\ LET rows == Matching(menu)
     IN model' \in {model} \cup
          {[model EXCEPT ![menu.role] = rows[k].model] : k \in {menu.row} \cap DOMAIN rows}
  /\ UNCHANGED lineVars

ConsoleNext ==
  \/ Type \/ Backspace \/ DeleteKey \/ Move \/ Up \/ Down \/ Interrupt \/ Submit
  \/ RowKey \/ TabKey \/ FilterKey \/ CloseMenu

-----------------------------------------------------------------------------
(* Properties.                                                             *)

\* repl.rs:622-700: the cursor is within the line, whatever was edited, removed
\* or fetched from the history: buf.insert and buf.remove do not panic.
CursorInLine == cursor <= Len(buf)

\* picker.rs:319-321: the row that Enter takes is on the list, unless it is empty.
RowOnList == Open /\ Matching(menu) # <<>> => menu.row <= Len(Matching(menu))

\* repl.rs:736-744: the history holds every question that was typed, in order,
\* and never the same line twice in a row.
HistoryKept ==
  /\ \A k \in 1..Len(history) - 1 : history[k] # history[k + 1]
  /\ \A k \in DOMAIN asked : \E j \in DOMAIN history : history[j] = asked[k].line

\* repl.rs:879: what a model has answered was asked of it.
UsageIsOfAsked ==
  \A m \in Models : calls[m] <= Cardinality({k \in DOMAIN asked : asked[k].model = m})

ConsoleSafe == CursorInLine /\ RowOnList /\ HistoryKept /\ UsageIsOfAsked
=============================================================================
