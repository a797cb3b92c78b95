------------------------------- MODULE ModelCalls -------------------------------
(***************************************************************************)
(* One process that calls models, one call after the other: a capture over *)
(* HTTP with retries (capture.rs), the phases of an injection over HTTP    *)
(* with a trace (openrouter.rs, inject/model.rs), and the cold start of    *)
(* the claude program (claude_cli.rs), whose reply comes through a pipe.   *)
(*                                                                         *)
(* A reply is known by the number of its call.  The pipe holds PipeRoom    *)
(* pieces; the program that starts the child looks whether it has exited,  *)
(* waits, looks again, and reads the pipe afterwards.                      *)
(***************************************************************************)
EXTENDS Integers, Sequences, FiniteSets, SequencesExt

CONSTANTS
  MaxAttempts,  \* requests of a capture's call
  PipeRoom,     \* what a pipe holds before its writer waits
  Sizes,        \* lengths of a reply of the child
  Patience,     \* looks at the child before the timeout
  Phase,        \* of an injection: 1 selects, 2 compiles
  MaxCalls      \* bound

VARIABLES
  at,       \* what the process does
  asked,    \* calls so far, the number of the present one
  phase,    \* that of the present call, 0 for a capture
  replies,  \* to the requests of the present call
  result,   \* of the last call: its number, 0 for an empty text, -1 for an error
  child,    \* the claude program: what it owes and has piped, and its state
  looks,    \* at the child
  size,     \* of the reply the child of the present call has to give, 0 without
  got,      \* how much of it was read
  events,   \* llm.request and llm.response of the phases
  turn      \* of each phase: whose reply the file of the turn holds

childVars == <<child, looks, size, got>>
traceVars == <<events, turn>>
callVars == <<at, asked, phase, replies, result, childVars, traceVars>>

Reply == {"ok", "no content", "garbled", "refused", "busy"}
NoChild == [owes |-> 0, piped |-> 0, state |-> "none"]

CallsTypeOK ==
  /\ at \in {"off", "send", "pause", "ask", "http", "watch"}
  /\ asked \in 0..MaxCalls /\ phase \in Phase \cup {0}
  /\ replies \in Seq(Reply) /\ result \in -1..MaxCalls
  /\ child.owes \in Nat /\ child.piped \in 0..PipeRoom
  /\ child.state \in {"none", "runs", "exited", "failed", "killed"}
  /\ looks \in 0..Patience /\ size \in Sizes \cup {0} /\ got \in Nat
  /\ \A i \in DOMAIN events : events[i].of \in 1..MaxCalls /\ events[i].phase \in Phase
  /\ turn \in [Phase -> 0..MaxCalls]

-----------------------------------------------------------------------------
CallsInit ==
  /\ at = "off" /\ asked = 0 /\ phase = 0 /\ replies = <<>> /\ result = 0
  /\ child = NoChild /\ looks = 0 /\ size = 0 /\ got = 0
  /\ events = <<>> /\ turn = [p \in Phase |-> 0]

Event(type) == [type |-> type, of |-> asked, phase |-> phase]

Start(place, p) ==
  /\ at = "off" /\ asked < MaxCalls
  /\ at' = place /\ asked' = asked + 1 /\ phase' = p
  /\ replies' = <<>> /\ size' = 0 /\ got' = 0

Return(value) == at' = "off" /\ result' = value

(* A call of a capture.                                                    *)

CallCapture == Start("send", 0) /\ UNCHANGED <<result, child, looks, traceVars>>

\* A reply in time, or none, which counts as a server that is busy; a model
\* that was evicted is busy, too.
Respond(reply) ==
  /\ at = "send"
  /\ replies' = Append(replies, reply)
  /\ CASE reply = "ok" -> Return(asked)
       [] reply = "no content" -> Return(0)
       [] reply = "busy" /\ Len(replies') < MaxAttempts -> at' = "pause" /\ UNCHANGED result
       [] OTHER -> Return(-1)
  /\ UNCHANGED <<asked, phase, childVars, traceVars>>

Again ==
  /\ at = "pause" /\ at' = "send"
  /\ UNCHANGED <<asked, phase, replies, result, childVars, traceVars>>

(* A phase of an injection over HTTP.                                      *)

CallPhase(p) ==
  /\ Start("ask", p)
  /\ UNCHANGED <<result, child, looks, traceVars>>

\* openrouter.rs logs the request before it is sent.
SendPhase ==
  /\ at = "ask" /\ at' = "http"
  /\ events' = Append(events, Event("request"))
  /\ UNCHANGED <<asked, phase, replies, result, childVars, turn>>

\* The trace of a call that has been answered: the file of its phase, then the
\* events; the file of an earlier call of the phase is written over.
Trace(logged) ==
  /\ turn' = [turn EXCEPT ![phase] = asked]
  /\ events' = events \o logged \o <<Event("response")>>

\* One request: what is not an answer fails; an error is logged if the server
\* told it in JSON.
AnswerPhase(reply) ==
  /\ at = "http"
  /\ replies' = Append(replies, reply)
  /\ IF reply \in {"ok", "no content"}
     THEN Trace(<<>>) /\ Return(IF reply = "ok" THEN asked ELSE 0)
     ELSE /\ Return(-1) /\ UNCHANGED turn
          /\ \/ UNCHANGED events
             \/ reply # "garbled" /\ events' = Append(events, Event("error"))
  /\ UNCHANGED <<asked, phase, childVars>>

\* The client of Ollama answers or fails; its call is recorded afterwards.
AnswerExternally(reply) ==
  /\ at = "ask"
  /\ replies' = Append(replies, reply)
  /\ IF reply = "ok"
     THEN Trace(<<Event("request")>>) /\ Return(asked)
     ELSE Return(-1) /\ UNCHANGED traceVars
  /\ UNCHANGED <<asked, phase, childVars>>

(* The cold start of claude.                                               *)

Spawn(n) ==
  /\ at = "ask" /\ at' = "watch"
  /\ child' = [owes |-> n, piped |-> 0, state |-> "runs"]
  /\ looks' = 0 /\ size' = n
  /\ UNCHANGED <<asked, phase, replies, result, got, traceVars>>

\* It writes while there is room.
ChildWrites ==
  /\ child.state = "runs" /\ child.owes > 0 /\ child.piped < PipeRoom
  /\ child' = [child EXCEPT !.owes = @ - 1, !.piped = @ + 1]
  /\ UNCHANGED <<at, asked, phase, replies, result, looks, size, got, traceVars>>

ChildExits ==
  /\ child.state = "runs" /\ child.owes = 0
  /\ \E s \in {"exited", "failed"} : child' = [child EXCEPT !.state = s]
  /\ UNCHANGED <<at, asked, phase, replies, result, looks, size, got, traceVars>>

\* A look at the child: its output is read when it has exited; a child that
\* runs after the timeout is killed.
Look ==
  /\ at = "watch"
  /\ IF child.state # "runs"
     THEN /\ child' = NoChild /\ looks' = 0 /\ got' = child.piped
          /\ replies' = Append(replies, IF child.state = "exited" THEN "ok" ELSE "refused")
          /\ IF child.state = "exited"
             THEN Trace(<<Event("request")>>) /\ Return(asked)
             ELSE Return(-1) /\ UNCHANGED traceVars
     ELSE IF looks < Patience
     THEN looks' = looks + 1 /\ UNCHANGED <<at, replies, result, child, got, traceVars>>
     ELSE /\ child' = [child EXCEPT !.state = "killed"] /\ looks' = 0
          /\ Return(-1) /\ UNCHANGED <<replies, got, traceVars>>
  /\ UNCHANGED <<asked, phase, size>>

\* The deadline of the hook passes, or the process dies; nobody reads what a
\* child still writes.
Abandon ==
  /\ at # "off" /\ Return(-1)
  /\ child' = NoChild /\ looks' = 0
  /\ UNCHANGED <<asked, phase, replies, size, got, traceVars>>

CallsNext ==
  \/ CallCapture \/ Again \/ SendPhase \/ ChildWrites \/ ChildExits \/ Look \/ Abandon
  \/ \E reply \in Reply : Respond(reply) \/ AnswerPhase(reply) \/ AnswerExternally(reply)
  \/ \E p \in Phase : CallPhase(p)
  \/ \E n \in Sizes : Spawn(n)

-----------------------------------------------------------------------------
(* Properties.                                                             *)

\* A request is repeated only while the server is busy, and so often; what is
\* returned is the reply to the last one.
BusyIsRepeated ==
  /\ Len(replies) <= MaxAttempts
  /\ \A i \in 1..(Len(replies) - 1) : replies[i] = "busy"
  /\ at = "off" /\ asked > 0 /\ result >= 0 =>
       /\ replies # <<>> /\ Last(replies) \in {"ok", "no content"}
       /\ result = IF Last(replies) = "ok" THEN asked ELSE 0

\* A reply through the pipe is whole, and therefore no longer than the pipe: a
\* longer one is never read, and its writer waits until it is killed.
PipedIsWhole ==
  (at = "off" /\ size > 0 /\ result = asked) => got = size /\ size <= PipeRoom

\* A call with an answer has one request and one response in the log, in that
\* order, and the file of its turn has its reply until a later call of the
\* phase is answered.
AnsweredIsTraced ==
  LET of(n, type) == {i \in DOMAIN events : events[i].of = n /\ events[i].type = type}
      answered(n) == of(n, "response") # {}
  IN /\ \A i \in DOMAIN events : events[i].type = "response" =>
          /\ of(events[i].of, "response") = {i}
          /\ of(events[i].of, "request") = {i - 1}
          /\ \/ turn[events[i].phase] = events[i].of
             \/ \E j \in (i + 1)..Len(events) :
                  events[j].type = "response" /\ events[j].phase = events[i].phase
     /\ at = "off" /\ phase \in Phase /\ result >= 0 /\ asked > 0 => answered(asked)

CallsSafe == BusyIsRepeated /\ PipedIsWhole /\ AnsweredIsTraced
=============================================================================
