------------------------------- MODULE WarmPool -------------------------------
(***************************************************************************)
(* The sidecar that keeps warm model processes (claude_sidecar.rs; the     *)
(* embedding sidecar is elected and asked the same way).  Clients ask over *)
(* a socket, start a server when that fails, ask again, and after the last *)
(* attempt run the model themselves.  A server elects itself by binding    *)
(* the socket; it keeps PoolSize children warm, leases one to a request,   *)
(* never uses one twice, and refills in background tasks that reserve the  *)
(* children they will start.                                               *)
(*                                                                         *)
(* The pool of one model: the pools of two models share nothing.           *)
(***************************************************************************)
EXTENDS Integers, FiniteSets

CONSTANTS
  Server, Client,
  NoServer,
  PoolSize,     \* POOL_SIZE
  Retries,      \* RETRIES
  MaxCalls,     \* bound: calls made
  MaxRefills,   \* bound: refill tasks alive in a server
  MaxCrashes    \* bound: servers that die

ASSUME WarmPoolAssumption ==
  /\ NoServer \notin Server
  /\ PoolSize \in Nat /\ Retries \in Nat \ {0} /\ MaxRefills \in Nat \ {0}
  /\ MaxCalls \in Nat /\ MaxCrashes \in Nat

VARIABLES
  socket,     \* the server that bound the file at the socket path
  server,     \* of each server: how far it is
  idle,       \* warm children in its pool
  old,        \* of these, the ones too old: the youngest is leased first
  warming,    \* children its refill tasks are starting, as the pool counts them
  asked,      \* refill tasks that have not looked at the pool yet
  reserved,   \* of each size, the refill tasks that reserved as many
  client,     \* of each client: what it does
  attempt,    \* its attempt, from 0
  asking,     \* the server its request is with
  calls, crashes,
  usurped     \* whether a server unlinked the socket of a live one

electionVars == <<socket, server, usurped>>
poolVars == <<idle, old, warming, asked, reserved>>
clientVars == <<client, attempt, asking, calls>>
warmVars == <<electionVars, poolVars, clientVars, crashes>>

PoolTypeOK ==
  /\ socket \in Server \cup {NoServer}
  /\ server \in [Server -> {"off", "look", "unlink", "bind", "up", "dead"}]
  /\ idle \in [Server -> Nat] /\ old \in [Server -> Nat]
  /\ \A s \in Server : old[s] <= idle[s]
  /\ warming \in [Server -> Nat] /\ asked \in [Server -> 0..MaxRefills]
  /\ reserved \in [Server -> [1..PoolSize -> Nat]]
  /\ client \in [Client -> {"free", "request", "lease", "turn", "retry", "cold"}]
  /\ attempt \in [Client -> 0..(Retries - 1)]
  /\ asking \in [Client -> Server \cup {NoServer}]
  /\ calls \in 0..MaxCalls /\ crashes \in 0..MaxCrashes
  /\ usurped \in BOOLEAN

\* Connecting succeeds when the path leads to a socket somebody listens on.
Listening == socket /= NoServer /\ server[socket] = "up"

PoolInit ==
  /\ socket \in Server \cup {NoServer}          \* a dead server may have left its file
  /\ server = [s \in Server |-> IF s = socket THEN "dead" ELSE "off"]
  /\ idle = [s \in Server |-> 0] /\ old = [s \in Server |-> 0]
  /\ warming = [s \in Server |-> 0]
  /\ asked = [s \in Server |-> 0]
  /\ reserved = [s \in Server |-> [n \in 1..PoolSize |-> 0]]
  /\ client = [k \in Client |-> "free"]
  /\ attempt = [k \in Client |-> 0]
  /\ asking = [k \in Client |-> NoServer]
  /\ calls = 0 /\ crashes = 0 /\ usurped = FALSE

-----------------------------------------------------------------------------
(* Election: bind_listener.                                                *)

ServerAt(s, from, to) == server[s] = from /\ server' = [server EXCEPT ![s] = to]

\* The path is free, or a server listens, or a stale socket is to be removed.
LookAtSocket(s) ==
  /\ ServerAt(s, "look", IF socket = NoServer THEN "bind"
                         ELSE IF Listening THEN "off" ELSE "unlink")
  /\ UNCHANGED <<socket, usurped, poolVars, clientVars, crashes>>

\* Whatever is at the path by now is removed.
UnlinkSocket(s) ==
  /\ ServerAt(s, "unlink", IF socket = NoServer THEN "off" ELSE "bind")
  /\ usurped' = (usurped \/ Listening)
  /\ socket' = NoServer
  /\ UNCHANGED <<poolVars, clientVars, crashes>>

\* Binding fails when the path is taken.  The server prewarms at once.
BindSocket(s) ==
  /\ \/ /\ socket = NoServer
        /\ ServerAt(s, "bind", "up")
        /\ socket' = s
        /\ asked' = [asked EXCEPT ![s] = 1]
     \/ /\ socket /= NoServer
        /\ ServerAt(s, "bind", "off")
        /\ UNCHANGED <<socket, asked>>
  /\ UNCHANGED <<usurped, idle, old, warming, reserved, clientVars, crashes>>

\* A server dies: its children with it, its socket stays.
Crash(s) ==
  /\ server[s] = "up"
  /\ crashes < MaxCrashes
  /\ crashes' = crashes + 1
  /\ server' = [server EXCEPT ![s] = "dead"]
  /\ idle' = [idle EXCEPT ![s] = 0] /\ old' = [old EXCEPT ![s] = 0]
  /\ warming' = [warming EXCEPT ![s] = 0] /\ asked' = [asked EXCEPT ![s] = 0]
  /\ reserved' = [reserved EXCEPT ![s] = [n \in 1..PoolSize |-> 0]]
  /\ UNCHANGED <<socket, usurped, clientVars>>

\* It ends on an error of accept: SidecarFiles is dropped, and with it the
\* socket at the path, whoever bound it.
AcceptFails(s) ==
  /\ server[s] = "up"
  /\ crashes < MaxCrashes
  /\ crashes' = crashes + 1
  /\ server' = [server EXCEPT ![s] = "dead"]
  /\ socket' = NoServer
  /\ usurped' = (usurped \/ (Listening /\ socket /= s))
  /\ idle' = [idle EXCEPT ![s] = 0] /\ old' = [old EXCEPT ![s] = 0]
  /\ warming' = [warming EXCEPT ![s] = 0] /\ asked' = [asked EXCEPT ![s] = 0]
  /\ reserved' = [reserved EXCEPT ![s] = [n \in 1..PoolSize |-> 0]]
  /\ UNCHANGED clientVars

-----------------------------------------------------------------------------
(* The pool.                                                               *)

Deficit(s) == IF idle[s] + warming[s] >= PoolSize THEN 0
                                                  ELSE PoolSize - (idle[s] + warming[s])

\* A refill task reserves what is missing, ...
ReserveRefill(s) ==
  /\ asked[s] > 0
  /\ asked' = [asked EXCEPT ![s] = @ - 1]
  /\ LET n == Deficit(s) IN
       IF n > 0
       THEN /\ warming' = [warming EXCEPT ![s] = @ + n]
            /\ reserved' = [reserved EXCEPT ![s][n] = @ + 1]
       ELSE UNCHANGED <<warming, reserved>>
  /\ UNCHANGED <<electionVars, idle, old, clientVars, crashes>>

\* Mutant: only the children that started are given back.
FinishRefillStarted(s) ==
  \E n \in 1..PoolSize :
    /\ reserved[s][n] > 0
    /\ reserved' = [reserved EXCEPT ![s][n] = @ - 1]
    /\ \E started \in 0..n :
         /\ warming' = [warming EXCEPT ![s] = IF @ > started THEN @ - started ELSE 0]
         /\ idle' = [idle EXCEPT ![s] = IF @ + started > PoolSize THEN PoolSize
                                                                  ELSE @ + started]
    /\ UNCHANGED <<electionVars, old, asked, clientVars, crashes>>

\* ... starts the children up to the first that fails, and gives back the
\* whole reservation with those it has.
FinishRefill(s) ==
  \E n \in 1..PoolSize :
    /\ reserved[s][n] > 0
    /\ reserved' = [reserved EXCEPT ![s][n] = @ - 1]
    /\ warming' = [warming EXCEPT ![s] = IF @ > n THEN @ - n ELSE 0]
    /\ \E started \in 0..n :
         idle' = [idle EXCEPT ![s] = IF @ >= PoolSize THEN @
                                     ELSE IF @ + started > PoolSize THEN PoolSize
                                     ELSE @ + started]
    /\ UNCHANGED <<electionVars, old, asked, clientVars, crashes>>

\* The oldest children pass MAX_CHILD_AGE; the reaper removes them.
GrowOld(s) ==
  /\ old[s] < idle[s]
  /\ old' = [old EXCEPT ![s] = @ + 1]
  /\ UNCHANGED <<electionVars, idle, warming, asked, reserved, clientVars, crashes>>

ReapStale(s) ==
  /\ old[s] > 0
  /\ idle' = [idle EXCEPT ![s] = @ - old[s]]
  /\ old' = [old EXCEPT ![s] = 0]
  /\ UNCHANGED <<electionVars, warming, asked, reserved, clientVars, crashes>>

-----------------------------------------------------------------------------
(* Calls: chat_blocking, serve_one.                                        *)

Call(k) ==
  /\ client[k] = "free"
  /\ calls < MaxCalls
  /\ calls' = calls + 1
  /\ client' = [client EXCEPT ![k] = "request"]
  /\ UNCHANGED <<attempt, asking, electionVars, poolVars, crashes>>

\* The call ends: with an answer, or with what the model itself said.
Return(k) ==
  /\ client' = [client EXCEPT ![k] = "free"]
  /\ attempt' = [attempt EXCEPT ![k] = 0]
  /\ asking' = [asking EXCEPT ![k] = NoServer]
  /\ UNCHANGED calls

\* An attempt failed.  The first starts a server; after the last the client
\* helps itself.
Retry(k) ==
  /\ \/ /\ attempt[k] = 0
        /\ \E s \in Server : ServerAt(s, "off", "look")
     \/ /\ attempt[k] > 0 \/ \A s \in Server : server[s] /= "off"
        /\ UNCHANGED server
  /\ IF attempt[k] + 1 < Retries
     THEN /\ attempt' = [attempt EXCEPT ![k] = @ + 1]
          /\ client' = [client EXCEPT ![k] = "request"]
     ELSE /\ client' = [client EXCEPT ![k] = "cold"]
          /\ UNCHANGED attempt
  /\ asking' = [asking EXCEPT ![k] = NoServer]
  /\ UNCHANGED <<socket, usurped, poolVars, calls, crashes>>

Connect(k) ==
  /\ client[k] = "request"
  /\ Listening
  /\ asking' = [asking EXCEPT ![k] = socket]
  /\ client' = [client EXCEPT ![k] = "lease"]
  /\ UNCHANGED <<attempt, calls, electionVars, poolVars, crashes>>

ConnectFails(k) == client[k] = "request" /\ ~Listening /\ Retry(k)

\* The youngest child, if it is young enough; else one is started for it.
Lease(k) ==
  /\ client[k] = "lease"
  /\ server[asking[k]] = "up"
  /\ LET s == asking[k] IN
       /\ idle' = [idle EXCEPT ![s] = IF @ > 0 THEN @ - 1 ELSE 0]
       /\ old' = [old EXCEPT ![s] = IF @ = idle[s] /\ @ > 0 THEN @ - 1 ELSE @]
  /\ client' = [client EXCEPT ![k] = "turn"]
  /\ UNCHANGED <<attempt, asking, calls, electionVars, warming, asked, reserved, crashes>>

\* The child is retired and the pool refilled in the background.
Answer(k) ==
  /\ client[k] = "turn"
  /\ server[asking[k]] = "up"
  /\ asked[asking[k]] < MaxRefills
  /\ asked' = [asked EXCEPT ![asking[k]] = @ + 1]
  /\ Return(k)
  /\ UNCHANGED <<electionVars, idle, old, warming, reserved, crashes>>

\* No child starts, it ends or times out, the server is gone, or the client's
\* own deadline passes: nothing is refilled.
RequestFails(k) == client[k] \in {"lease", "turn"} /\ Retry(k)

ColdFallback(k) ==
  /\ client[k] = "cold"
  /\ Return(k)
  /\ UNCHANGED <<electionVars, poolVars, crashes>>

ServerStep(s) ==
  \/ LookAtSocket(s) \/ UnlinkSocket(s) \/ BindSocket(s) \/ Crash(s) \/ AcceptFails(s)
  \/ ReserveRefill(s) \/ FinishRefill(s) \/ GrowOld(s) \/ ReapStale(s)

CallStep(k) ==
  \/ Connect(k) \/ ConnectFails(k) \/ Lease(k) \/ Answer(k) \/ RequestFails(k)
  \/ ColdFallback(k)

PoolNext ==
  \/ \E s \in Server : ServerStep(s)
  \/ \E k \in Client : Call(k) \/ CallStep(k)

PoolSpec == PoolInit /\ [][PoolNext]_warmVars

-----------------------------------------------------------------------------
(* Properties.                                                             *)

\* The children that were reserved, by the refill tasks of each size.
Children(tasks) ==
  LET upTo[n \in 0..PoolSize] == IF n = 0 THEN 0 ELSE upTo[n - 1] + n * tasks[n]
  IN upTo[PoolSize]

Reservations(s) == Children(reserved[s])

\* However bursts, expiry and failing starts interleave, the pool never counts
\* more than PoolSize children, and what it believes to be starting is exactly
\* what its unfinished refill tasks reserved: no reservation leaks, so the
\* pool neither overshoots nor starves.
PoolAccounted ==
  \A s \in Server :
    /\ idle[s] + warming[s] <= PoolSize
    /\ warming[s] = Reservations(s)

\* Two servers listen only if one unlinked the other's socket: between the
\* look at a stale one and its removal, or when it ended.
OneServerUnlessUsurped ==
  usurped \/ Cardinality({s \in Server : server[s] = "up"}) <= 1

\* claude_sidecar.rs: no reservation of the warm pool leaks, and two servers
\* listen only if one unlinked the other's socket.
PoolSafe == PoolAccounted /\ OneServerUnlessUsurped
===============================================================================
