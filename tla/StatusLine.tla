------------------------------ MODULE StatusLine ------------------------------
(***************************************************************************)
(* The status line of a session (src/src/statusline.rs): a process without *)
(* memory that the harness runs over and over, and that derives what the   *)
(* session's hooks are doing from the tail of the shared event log.  Hooks *)
(* and captures of the session run beside each other and may die.          *)
(***************************************************************************)
EXTENDS Integers, Sequences, SequencesExt

CONSTANTS
  Hook, Worker,            \* the prompts and the captures of the session
  Outcome,                 \* of a prompt: compiled, fallback, none
  InjectCap, CaptureCap,   \* age from which an unanswered start is stale
  MaxTime,                 \* bound: the clock
  MaxCuts                  \* bound: how often the log is cut

VARIABLES
  now,       \* the clock
  log,       \* the session's events that are still in the tail of the log
  begun,     \* of each process: when it logged its start; Never before
  running,   \* the processes that have logged a start and not ended
  guides,    \* guides of the project's wiki
  cuts       \* cuts so far

statusVars == <<now, log, begun, running, guides, cuts>>

Never == -1
Process == Hook \cup Worker

Event == [kind : {"inject.start", "inject.done", "capture.start", "capture.done", "error"},
          at : 0..MaxTime, req : Process, outcome : Outcome \cup {"none"}]

StatusTypeOK ==
  /\ now \in 0..MaxTime
  /\ log \in Seq(Event)
  /\ begun \in [Process -> 0..MaxTime \cup {Never}]
  /\ running \subseteq Process
  /\ guides \in 0..1
  /\ cuts \in 0..MaxCuts

-----------------------------------------------------------------------------
(* derive_state                                                            *)

\* The latest event of a kind; of several of one instant the first.
Latest(kind) ==
  LET of == SelectSeq(log, LAMBDA e : e.kind = kind)
      i == CHOOSE k \in DOMAIN of :
             /\ \A j \in DOMAIN of : of[j].at <= of[k].at
             /\ \A j \in 1..(k - 1) : of[j].at < of[k].at
  IN of[i]

Logged(kind) == \E i \in DOMAIN log : log[i].kind = kind

Answered(req) == \E i \in DOMAIN log : log[i].kind = "inject.done" /\ log[i].req = req

InFlight ==
  /\ Logged("inject.start")
  /\ ~Answered(Latest("inject.start").req)
  /\ now - Latest("inject.start").at < InjectCap

CaptureRunning ==
  /\ Logged("capture.start")
  /\ Logged("capture.done") => Latest("capture.done").at < Latest("capture.start").at
  /\ now - Latest("capture.start").at < CaptureCap

Failed ==
  /\ Logged("error")
  /\ Logged("inject.done") => Latest("inject.done").at < Latest("error").at

Status ==
  IF guides = 0 THEN "nothing"
  ELSE IF InFlight THEN "injecting"
  ELSE IF CaptureRunning THEN "capturing"
  ELSE IF Failed THEN "error"
  ELSE IF Logged("inject.done") THEN Latest("inject.done").outcome
  ELSE "idle"

-----------------------------------------------------------------------------
(* Actions.                                                                *)

StatusInit ==
  /\ now = 0 /\ log = <<>> /\ cuts = 0
  /\ begun = [p \in Process |-> Never] /\ running = {}
  /\ guides \in 0..1

Log(kind, p, outcome) ==
  log' = Append(log, [kind |-> kind, at |-> now, req |-> p, outcome |-> outcome])

Start(p) ==
  /\ begun[p] = Never
  /\ begun' = [begun EXCEPT ![p] = now]
  /\ running' = running \cup {p}
  /\ Log(IF p \in Hook THEN "inject.start" ELSE "capture.start", p, "none")
  /\ UNCHANGED <<now, guides, cuts>>

\* A hook logs its outcome; one that fails logs the error first.
Inject(h) ==
  /\ h \in running
  /\ running' = running \ {h}
  /\ \/ \E outcome \in Outcome : Log("inject.done", h, outcome)
     \/ log' = log \o << [kind |-> "error", at |-> now, req |-> h, outcome |-> "none"],
                         [kind |-> "inject.done", at |-> now, req |-> h, outcome |-> "none"] >>
  /\ UNCHANGED <<now, begun, guides, cuts>>

\* So does a capture, whose first guide gives the project a wiki.
RunCapture(w) ==
  /\ w \in running
  /\ running' = running \ {w}
  /\ \/ Log("capture.done", w, "none") /\ guides' = 1
     \/ /\ log' = log \o << [kind |-> "error", at |-> now, req |-> w, outcome |-> "none"],
                            [kind |-> "capture.done", at |-> now, req |-> w, outcome |-> "none"] >>
        /\ UNCHANGED guides
  /\ UNCHANGED <<now, begun, cuts>>

Die(p) ==
  /\ p \in running
  /\ running' = running \ {p}
  /\ UNCHANGED <<now, log, begun, guides, cuts>>

Tick ==
  /\ now < MaxTime
  /\ now' = now + 1
  /\ UNCHANGED <<log, begun, running, guides, cuts>>

\* The session's first lines leave the tail, or the log is rotated.
Cut ==
  /\ cuts < MaxCuts /\ log /= <<>>
  /\ \E n \in DOMAIN log : log' = SubSeq(log, n + 1, Len(log))
  /\ cuts' = cuts + 1
  /\ UNCHANGED <<now, begun, running, guides>>

StatusNext ==
  \/ \E p \in Process : Start(p) \/ Die(p)
  \/ \E h \in Hook : Inject(h)
  \/ \E w \in Worker : RunCapture(w)
  \/ Tick \/ Cut

-----------------------------------------------------------------------------
(* Properties.                                                             *)

Young(p, cap) == begun[p] /= Never /\ now - begun[p] < cap
Newest(p, procs) == \A q \in procs \ {p} : begun[q] < begun[p]

\* A line that says a prompt or a capture is at work is soon right again, even
\* if the process died or its start or its end has left the log: the one meant
\* has started a short time ago, and if it is over, it died, its end was cut
\* off or another capture started after that end.
BusyIsRecent ==
  /\ Status = "injecting" =>
       \E h \in Hook : Young(h, InjectCap) /\ ~Answered(h)
  /\ Status = "capturing" =>
       /\ \E w \in Worker : Young(w, CaptureCap)
       /\ ~InFlight

\* While the prompt that came last is worked on, the line says so, unless its
\* start is no longer in the tail: no older prompt, capture or error hides it.
NewestPromptIsShown ==
  \A h \in running \cap Hook :
    (/\ guides = 1 /\ Young(h, InjectCap) /\ Newest(h, Hook)
     /\ \E i \in DOMAIN log : log[i].kind = "inject.start" /\ log[i].req = h)
      => Status = "injecting"

\* An error stays on the line only until a prompt is answered, and a prompt's
\* own failure, which is answered at once, never shows.
ErrorsAreOfCaptures ==
  Status = "error" =>
    \E i \in DOMAIN log :
      /\ log[i].kind = "error" /\ log[i].req \in Worker
      /\ \A j \in DOMAIN log : log[j].kind = "inject.done" => log[j].at < log[i].at

StatusTrue == BusyIsRecent /\ NewestPromptIsShown /\ ErrorsAreOfCaptures
=============================================================================
