------------------------------ MODULE EventLog ------------------------------
(***************************************************************************)
(* The shared event log (events.rs) and those who follow it: the printer   *)
(* of `tail' (tail.rs), the trace view (tui.rs) and the replay view        *)
(* (archeologist.rs).                                                      *)
(*                                                                         *)
(* Every process appends lines to one file and now and then rotates it;    *)
(* a follower polls the file's name, its inode and its length, in separate *)
(* calls.  A line is two pieces, for a reader may see the first page of a  *)
(* write before the second.  Writes to one file exclude each other.        *)
(***************************************************************************)
EXTENDS Integers, FiniteSets, SequencesExt

CONSTANTS
  Logger,      \* processes that log
  Limit,       \* log_max_bytes, in pieces
  LogRetention,   \* log_retention
  Room,        \* capacity of the channel between a follower and its view
  MaxEvents    \* bound

ASSUME LogAssumption ==
  Limit \in Nat /\ LogRetention \in Nat /\ Room \in Nat /\ MaxEvents \in Nat

VARIABLES
  file,     \* of each name (0 is the log, n the n-th rotated one): the inode, or 0
  text,     \* of each inode: its pieces <<event, half>>
  writer,   \* of each process: what it does, with the inode it has open
  rotator,  \* who holds .rotate.lock
  logged,   \* events logged so far
  reader,   \* the follower
  queue,    \* the channel to its view
  shown,    \* events the view or the printer has taken
  refused,  \* events that found the channel full
  torn,     \* events of which a half was read and thrown away
  crossed   \* the log was taken away or created between two calls of one poll

eventVars == <<file, text, writer, rotator, logged, reader, queue, shown, refused, torn, crossed>>

Kept == IF LogRetention > 10 THEN 10 ELSE IF LogRetention < 1 THEN 1 ELSE LogRetention
Name == 0..Kept
AtRest == [pc |-> "idle"]

Event == 1..MaxEvents
Piece == Event \X {1, 2}

LogTypeOK ==
  /\ text \in Seq(Seq(Piece))
  /\ file \in [Name -> 0..Len(text)]
  /\ writer \in [Logger -> [pc : {"idle", "check", "try", "held"}]
                            \cup [pc : {"open"}, inode : 1..Len(text)]
                            \cup [pc : {"rest"}, inode : 1..Len(text), event : Event]]
  /\ rotator \in Logger \cup {"none"}
  /\ logged \in 0..MaxEvents
  /\ reader \in [style : {"printer", "view", "replay"}, fd : 0..Len(text),
                 pc : {"start", "first", "load", "poll", "length", "open", "read"},
                 inode : 0..Len(text), now : 0..Len(text), offset : Nat, kept : Seq(Piece)]
  /\ queue \in Seq(Event) /\ Len(queue) <= Room
  /\ shown \in Seq(Event) /\ refused \in Seq(Event)
  /\ torn \subseteq Event /\ crossed \in BOOLEAN

Size(i) == IF i = 0 THEN 0 ELSE Len(text[i])

\* The follower is between two calls of one poll.
Polling == reader.pc \in {"first", "load", "length", "open"}

-----------------------------------------------------------------------------
(* Writers.                                                                *)

\* The log is opened for appending, and created when a rotation took it away.
OpenLog(w) ==
  /\ writer[w] = AtRest /\ logged < MaxEvents
  /\ IF file[0] = 0
     THEN text' = Append(text, <<>>) /\ file' = [file EXCEPT ![0] = Len(text) + 1]
     ELSE UNCHANGED <<text, file>>
  /\ writer' = [writer EXCEPT ![w] = [pc |-> "open", inode |-> file'[0]]]
  /\ crossed' = (crossed \/ (file[0] = 0 /\ Polling))
  /\ UNCHANGED <<rotator, logged, reader, queue, shown, refused, torn>>

\* The line of a killed writer has no end, and spoils the one after it.
Half(i) == text[i] /= <<>> /\ Last(text[i])[2] = 1

\* write_all of the line, a rename of the file notwithstanding.
WriteLine(w) ==
  /\ writer[w].pc = "open" /\ logged < MaxEvents
  /\ ~ \E v \in Logger : writer[v].pc = "rest" /\ writer[v].inode = writer[w].inode
  /\ logged' = logged + 1
  /\ text' = [text EXCEPT ![writer[w].inode] = Append(@, <<logged + 1, 1>>)]
  /\ writer' = [writer EXCEPT ![w] = [pc |-> "rest", inode |-> @.inode, event |-> logged + 1]]
  /\ torn' = IF Half(writer[w].inode) THEN torn \cup {logged + 1} ELSE torn
  /\ UNCHANGED <<file, rotator, reader, queue, shown, refused, crossed>>

\* Its second page; every 256th write of a process looks at the size.
WriteRest(w) ==
  /\ writer[w].pc = "rest"
  /\ text' = [text EXCEPT ![writer[w].inode] = Append(@, <<writer[w].event, 2>>)]
  /\ \E next \in {"idle", "check"} : writer' = [writer EXCEPT ![w] = [pc |-> next]]
  /\ UNCHANGED <<file, rotator, logged, reader, queue, shown, refused, torn, crossed>>

\* maybe_rotate: a first look without the lock.
CheckSize(w) ==
  /\ writer[w].pc = "check"
  /\ writer' = [writer EXCEPT ![w] = IF Size(file[0]) > Limit THEN [pc |-> "try"] ELSE AtRest]
  /\ UNCHANGED <<file, text, rotator, logged, reader, queue, shown, refused, torn, crossed>>

TryLock(w) ==
  /\ writer[w].pc = "try"
  /\ IF rotator = "none"
     THEN rotator' = w /\ writer' = [writer EXCEPT ![w] = [pc |-> "held"]]
     ELSE writer' = [writer EXCEPT ![w] = AtRest] /\ UNCHANGED rotator
  /\ UNCHANGED <<file, text, logged, reader, queue, shown, refused, torn, crossed>>

Shift == [n \in Name |-> IF n = 0 THEN 0
                         ELSE IF file[n - 1] /= 0 THEN file[n - 1] ELSE file[n]]

\* A second look, the renames from the oldest on, and the unlock.
Rotate(w) ==
  /\ writer[w].pc = "held"
  /\ file' = IF Size(file[0]) > Limit THEN Shift ELSE file
  /\ writer' = [writer EXCEPT ![w] = AtRest] /\ rotator' = "none"
  /\ crossed' = (crossed \/ (file' /= file /\ Polling))
  /\ UNCHANGED <<text, logged, reader, queue, shown, refused, torn>>

\* A killed writer leaves half a line and releases the lock.
KillWriter(w) ==
  /\ writer[w].pc \in {"open", "rest", "held"}
  /\ torn' = IF writer[w].pc = "rest" THEN torn \cup {writer[w].event} ELSE torn
  /\ writer' = [writer EXCEPT ![w] = AtRest]
  /\ rotator' = IF rotator = w THEN "none" ELSE rotator
  /\ UNCHANGED <<file, text, logged, reader, queue, shown, refused, crossed>>

-----------------------------------------------------------------------------
(* The follower.                                                           *)

\* Where complete lines end among some pieces: a piece that does not fit the one
\* before it is no JSON.
Ends(all) ==
  {k \in 2..Len(all) : /\ all[k][2] = 2 /\ all[k - 1] = <<all[k][1], 1>>
                       /\ k = 2 \/ all[k - 2][2] = 2}

\* The lines that end there, in their order.
Lines(all) ==
  LET nth(j) == CHOOSE k \in Ends(all) : Cardinality({l \in Ends(all) : l <= k}) = j
  IN [j \in 1..Cardinality(Ends(all)) |-> all[nth(j)][1]]

\* The half line at the end.
Remainder(all) ==
  LET ends == {k \in DOMAIN all : all[k][2] = 2}
  IN SubSeq(all, IF ends = {} THEN 1 ELSE Max(ends) + 1, Len(all))

Seen(pieces) == {pieces[k][1] : k \in DOMAIN pieces}

\* The printer prints; the views are sent what finds room in the channel.
Hand(lines) ==
  IF reader.style = "printer"
  THEN shown' = shown \o lines /\ UNCHANGED <<queue, refused>>
  ELSE LET fits == IF Len(lines) <= Room - Len(queue) THEN Len(lines) ELSE Room - Len(queue)
       IN /\ queue' = queue \o SubSeq(lines, 1, fits)
          /\ refused' = refused \o SubSeq(lines, fits + 1, Len(lines))
          /\ UNCHANGED shown

\* The file is opened, and its inode asked for afterwards.
Follow ==
  /\ reader.pc = "start" /\ file[0] /= 0
  /\ reader' = [reader EXCEPT !.pc = "first", !.fd = file[0]]
  /\ UNCHANGED <<file, text, writer, rotator, logged, queue, shown, refused, torn, crossed>>

FirstInode ==
  /\ reader.pc = "first"
  /\ reader' = [reader EXCEPT !.pc = "load", !.inode = file[0]]
  /\ UNCHANGED <<file, text, writer, rotator, logged, queue, shown, refused, torn, crossed>>

\* What is there is taken line by line, a half one at the end with it.
LoadExisting ==
  /\ reader.pc = "load"
  /\ reader' = [reader EXCEPT !.pc = "poll", !.offset = Size(reader.fd)]
  /\ Hand(Lines(text[reader.fd]))
  /\ torn' = torn \cup Seen(Remainder(text[reader.fd]))
  /\ UNCHANGED <<file, text, writer, rotator, logged, crossed>>

PollInode ==
  /\ reader.pc = "poll"
  /\ reader' = [reader EXCEPT !.pc = "length", !.now = file[0]]
  /\ UNCHANGED <<file, text, writer, rotator, logged, queue, shown, refused, torn, crossed>>

\* Mutant: a file that has not grown is taken for a new one.
PollLengthUngrown ==
  /\ reader.pc = "length"
  /\ reader' = [reader EXCEPT
       !.pc = IF reader.now /= reader.inode \/ Size(file[0]) <= reader.offset
              THEN "open" ELSE "read"]
  /\ UNCHANGED <<file, text, writer, rotator, logged, queue, shown, refused, torn, crossed>>

PollLength ==
  /\ reader.pc = "length"
  /\ reader' = [reader EXCEPT
       !.pc = IF reader.now /= reader.inode \/ Size(file[0]) < reader.offset
              THEN "open" ELSE "read"]
  /\ UNCHANGED <<file, text, writer, rotator, logged, queue, shown, refused, torn, crossed>>

\* The inode remembered is the one asked for, not that of the file opened.
\* While there is no file, the replay view reads on in the old one.
Reopen ==
  /\ reader.pc = "open"
  /\ reader' = IF file[0] = 0
               THEN [reader EXCEPT !.pc = IF reader.style = "replay" THEN "read" ELSE "poll"]
               ELSE [reader EXCEPT !.pc = "read", !.fd = file[0], !.inode = reader.now,
                                   !.offset = 0, !.kept = <<>>]
  /\ torn' = IF file[0] = 0 THEN torn ELSE torn \cup Seen(reader.kept)
  /\ UNCHANGED <<file, text, writer, rotator, logged, queue, shown, refused, crossed>>

\* The new bytes, behind the half line kept; the replay view keeps no half line for the next time.
ReadNew ==
  /\ reader.pc = "read"
  /\ LET all == reader.kept \o SubSeq(text[reader.fd], reader.offset + 1, Size(reader.fd))
         rest == Remainder(all)
         keeps == reader.style /= "replay"
     IN /\ Hand(Lines(all))
        /\ torn' = IF keeps THEN torn ELSE torn \cup Seen(rest)
        /\ reader' = [reader EXCEPT !.pc = "poll", !.offset = Size(reader.fd),
                                    !.kept = IF keeps THEN rest ELSE <<>>]
  /\ UNCHANGED <<file, text, writer, rotator, logged, crossed>>

TakeEvent ==
  /\ queue /= <<>>
  /\ queue' = Tail(queue) /\ shown' = Append(shown, queue[1])
  /\ UNCHANGED <<file, text, writer, rotator, logged, reader, refused, torn, crossed>>

-----------------------------------------------------------------------------
LogInit ==
  /\ file = [n \in Name |-> 0] /\ text = <<>> /\ writer = [w \in Logger |-> AtRest]
  /\ rotator = "none" /\ logged = 0
  /\ \E style \in {"printer", "view", "replay"} :
       reader = [style |-> style, pc |-> "start", fd |-> 0, inode |-> 0, now |-> 0,
                 offset |-> 0, kept |-> <<>>]
  /\ queue = <<>> /\ shown = <<>> /\ refused = <<>> /\ torn = {} /\ crossed = FALSE

LogNext ==
  \/ \E w \in Logger : \/ OpenLog(w) \/ WriteLine(w) \/ WriteRest(w) \/ CheckSize(w)
                       \/ TryLock(w) \/ Rotate(w) \/ KillWriter(w)
  \/ Follow \/ FirstInode \/ LoadExisting \/ PollInode \/ PollLength \/ Reopen \/ ReadNew
  \/ TakeEvent

-----------------------------------------------------------------------------
\* A file is rotated only when it is full, so that Kept full files of later
\* lines stand between a line and its loss, although several processes find
\* the log too large at once (the second look, events.rs:404).
RotatedFull == \A n \in Name \ {0} : file[n] /= 0 => Size(file[n]) > Limit

Handed == ToSet(shown) \cup ToSet(queue) \cup ToSet(refused)

\* A follower shows no event twice, unless the log was rotated or created
\* between the calls of one of its polls: the views count what they are shown.
ShownOnce ==
  crossed \/ LET all == shown \o queue \o refused
             IN \A i, j \in DOMAIN all : all[i] = all[j] => i = j

\* What a follower has read of the file it follows was shown or, by a view
\* whose channel was full, refused; only half lines are lost.
ReadIsShown ==
  \A k \in 1..reader.offset :
    LET e == text[reader.fd][k][1] IN e \in Handed \cup torn \cup Seen(reader.kept)

\* events.rs and the followers of the log: only a full log is rotated, and a
\* follower shows every event once unless a rotation crossed its poll.
LogSafe == RotatedFull /\ ShownOnce /\ ReadIsShown

LogSpec == LogInit /\ [][LogNext]_eventVars
=============================================================================
