----------------------------- MODULE RecallIndex -----------------------------
(***************************************************************************)
(* pc recall (src/src/recall): what the user ever typed, taken from the    *)
(* transcripts into a database that full and incremental runs of the       *)
(* indexer write (mod.rs, extract.rs, store.rs), cleaned by a model        *)
(* (gate.rs) and put together into the one text that is asked about        *)
(* (corpus.rs).  The transcripts grow and vanish meanwhile, and every run  *)
(* may be killed between two statements.                                   *)
(***************************************************************************)
EXTENDS Integers, FiniteSets, Sequences, SequencesExt

CONSTANTS
  File,        \* the transcripts
  Prefix,      \* of a transcript: its project and the head of its session, a number
  Says,        \* of a transcript: the text of each of its lines
  Long,        \* the texts that the gate reads
  MaxChanges,  \* bound: changes of the transcripts
  MaxRuns,     \* bound: runs of the indexer
  MaxKills     \* bound: runs that end early

VARIABLES
  disk,      \* of each transcript the lines it has, 0 before it is written
  turns,     \* the table turns: of each id the transcript it came from
  files,     \* the table files: of each path the state it was indexed in
  gated,     \* the table gated: of each id the verdict and the text it was made of
  run,       \* of each indexer what it does
  gate,      \* the long turns that the gate has read
  spoiled,   \* ghost: transcripts whose indexing was crossed or cut short
  changes, runs, kills

recallVars == <<disk, turns, files, gated, run, gate, spoiled, changes, runs,
                kills>>

Gone == -1
Unknown == 0
Absent == "none"
Lines(f) == DOMAIN Says[f]
State(f) == {Gone} \cup {0} \cup Lines(f)
FileLine == UNION {Lines(f) : f \in File}
Text == UNION {{Says[f][n] : n \in Lines(f)} : f \in File}

\* mk: the id of the turn at a line.
TurnId(f, n) == <<Prefix[f], n>>
Id == {Prefix[f] : f \in File} \X FileLine
Turns(f, length) == {TurnId(f, n) : n \in 1..length}
TextOf(t, id) == Says[t[id]][id[2]]

Indexer == {"full", "inc"}
Asleep == [at |-> "idle", todo |-> {}, file |-> Absent, state |-> Gone,
           read |-> [f \in File |-> 0], known |-> [f \in File |-> Unknown]]

RecallTypeOK ==
  /\ \A f \in File : disk[f] \in State(f) /\ files[f] \in State(f)
  /\ turns \in [Id -> File \cup {Absent}]
  /\ gated \in [Id -> [act : {"KEEP", "DROP", "CLEAN"}, text : Text]
                        \cup {[act |-> Absent, text |-> Absent]}]
  /\ \A p \in Indexer :
       /\ run[p].at \in {"idle", "clear", "extract", "insert", "list", "record",
                         "remove", "forget", "look", "delete", "add", "note"}
       /\ run[p].todo \subseteq File
  /\ gate \subseteq Id \X Text
  /\ spoiled \subseteq File
  /\ changes \in 0..MaxChanges /\ runs \in 0..MaxRuns /\ kills \in 0..MaxKills

RecallInit ==
  /\ disk = [f \in File |-> 0]
  /\ turns = [id \in Id |-> Absent] /\ files = [f \in File |-> Unknown]
  /\ gated = [id \in Id |-> [act |-> Absent, text |-> Absent]]
  /\ run = [p \in Indexer |-> Asleep]
  /\ gate = {} /\ spoiled = {}
  /\ changes = 0 /\ runs = 0 /\ kills = 0

\* The sessions write their transcripts, and old ones are deleted for good.
Change ==
  /\ changes < MaxChanges /\ changes' = changes + 1
  /\ \E f \in File : /\ disk[f] # Gone
                     /\ \E l \in {disk[f] + 1, Gone} \cap (Lines(f) \cup {Gone}) :
                          disk' = [disk EXCEPT ![f] = l]
  /\ UNCHANGED <<turns, files, gated, run, gate, spoiled, runs, kills>>

-----------------------------------------------------------------------------
(* The statements of the indexer (store.rs).                               *)

At(p, step) == run[p].at = step
Here == {f \in File : disk[f] > 0}

\* insert_batch: one transaction; a row is replaced by one of its id.
Inserted(t, read) ==
  [id \in Id |-> IF \E f \in File : id \in Turns(f, read[f])
                 THEN CHOOSE f \in File : id \in Turns(f, read[f]) ELSE t[id]]

\* delete_turns_for_path
Deleted(t, f) == [id \in Id |-> IF t[id] = f THEN Absent ELSE t[id]]

\* Another indexer writes the tables as well.
Crossed(p) == \E q \in Indexer \ {p} : ~At(q, "idle")

Begin(p, step, spoilt) ==
  /\ At(p, "idle") /\ runs < MaxRuns /\ runs' = runs + 1
  /\ run' = [run EXCEPT ![p] = step]
  /\ spoiled' = IF Crossed(p) THEN File ELSE spoilt
  /\ UNCHANGED <<disk, gated, gate, changes, kills>>

\* index without --incremental: the turns are dropped, then the states.
Reset ==
  /\ Begin("full", [Asleep EXCEPT !.at = "clear"], {})
  /\ turns' = [id \in Id |-> Absent] /\ UNCHANGED files

Unmoved == <<disk, gated, gate, changes, runs, kills>>

ClearFiles ==
  /\ At("full", "clear")
  /\ files' = [f \in File |-> Unknown]
  /\ run' = [run EXCEPT !["full"].at = "extract", !["full"].todo = Here]
  /\ UNCHANGED <<turns, spoiled, Unmoved>>

\* extract_all reads one transcript after the other.
Extract ==
  /\ At("full", "extract") /\ run["full"].todo # {}
  /\ \E f \in run["full"].todo :
       run' = [run EXCEPT !["full"].todo = @ \ {f}, !["full"].read[f] = disk[f]]
  /\ UNCHANGED <<turns, files, spoiled, Unmoved>>

InsertAll ==
  /\ At("full", "extract") /\ run["full"].todo = {}
  /\ turns' = Inserted(turns, run["full"].read)
  /\ run' = [run EXCEPT !["full"].at = "list"]
  /\ UNCHANGED <<files, spoiled, Unmoved>>

\* all_transcript_files once more; what vanished since has turns but no state.
ListAgain ==
  /\ At("full", "list")
  /\ run' = [run EXCEPT !["full"].at = "record", !["full"].todo = Here]
  /\ spoiled' = spoiled \cup {f \in File \ Here : run["full"].read[f] > 0}
  /\ UNCHANGED <<turns, files, Unmoved>>

\* upsert_file with the state the transcript has by now.
Record ==
  /\ At("full", "record") /\ run["full"].todo # {}
  /\ \E f \in run["full"].todo :
       /\ files' = [files EXCEPT ![f] = disk[f]]
       /\ spoiled' = spoiled \cup {g \in {f} : disk[f] # run["full"].read[f]}
       /\ run' = [run EXCEPT !["full"].todo = @ \ {f}]
  /\ UNCHANGED <<turns, Unmoved>>

\* index --incremental: the known states and the transcripts there are.
List ==
  /\ Begin("inc", [Asleep EXCEPT !.at = "remove", !.known = files, !.todo = Here],
           spoiled)
  /\ UNCHANGED <<turns, files>>

Vanished == {f \in File \ run["inc"].todo : run["inc"].known[f] # Unknown}

RemoveVanished ==
  /\ At("inc", "remove")
  /\ \E f \in Vanished :
       /\ turns' = Deleted(turns, f)
       /\ run' = [run EXCEPT !["inc"].at = "forget", !["inc"].file = f]
  /\ UNCHANGED <<files, spoiled, Unmoved>>

Forget ==
  /\ At("inc", "forget")
  /\ files' = [files EXCEPT ![run["inc"].file] = Unknown]
  /\ run' = [run EXCEPT !["inc"].at = "remove",
                        !["inc"].known[run["inc"].file] = Unknown]
  /\ UNCHANGED <<turns, spoiled, Unmoved>>

\* file_state before anything is read; a known state is skipped.
Look ==
  /\ \/ At("inc", "remove") /\ Vanished = {}
     \/ At("inc", "look")
  /\ \E f \in run["inc"].todo :
       run' = [run EXCEPT !["inc"] =
         [@ EXCEPT !.todo = @ \ {f}, !.file = f, !.state = disk[f],
                   !.at = IF disk[f] = run["inc"].known[f] THEN "look" ELSE "delete"]]
  /\ UNCHANGED <<turns, files, spoiled, Unmoved>>

Delete ==
  /\ At("inc", "delete")
  /\ turns' = Deleted(turns, run["inc"].file)
  /\ run' = [run EXCEPT !["inc"].at = "add"]
  /\ UNCHANGED <<files, spoiled, Unmoved>>

\* extract_one and insert_batch.
Add ==
  /\ At("inc", "add")
  /\ LET f == run["inc"].file
     IN /\ turns' = Inserted(turns, [g \in File |-> IF g = f THEN disk[g] ELSE 0])
        /\ run' = [run EXCEPT !["inc"].at = "note", !["inc"].read[f] = disk[f]]
  /\ UNCHANGED <<files, spoiled, Unmoved>>

\* Mutant of Note: the state the transcript has once its turns are in.
NoteLate ==
  /\ At("inc", "note")
  /\ files' = [files EXCEPT ![run["inc"].file] = disk[run["inc"].file]]
  /\ run' = [run EXCEPT !["inc"].at = "look"]
  /\ UNCHANGED <<turns, spoiled, Unmoved>>

\* The state that was taken before.
Note ==
  /\ At("inc", "note")
  /\ files' = [files EXCEPT ![run["inc"].file] = run["inc"].state]
  /\ run' = [run EXCEPT !["inc"].at = "look"]
  /\ UNCHANGED <<turns, spoiled, Unmoved>>

Finish(p) ==
  /\ \/ run[p].at \in {"record", "look"}
     \/ At(p, "remove") /\ Vanished = {}
  /\ run[p].todo = {}
  /\ run' = [run EXCEPT ![p] = Asleep]
  /\ UNCHANGED <<turns, files, spoiled, Unmoved>>

\* A kill, or a statement that found the database busy for too long: it spoils
\* what the run had dropped or put in without a state.
Kill(p) ==
  /\ ~At(p, "idle") /\ kills < MaxKills /\ kills' = kills + 1
  /\ run' = [run EXCEPT ![p] = Asleep]
  /\ spoiled' = spoiled \cup
       CASE At(p, "clear") -> File
         [] p = "full" /\ run[p].at \in {"list", "record"} ->
              {f \in File : run[p].read[f] > 0 /\ files[f] = Unknown}
         [] At(p, "note") -> {run[p].file}
         [] OTHER -> {}
  /\ UNCHANGED <<disk, turns, files, gated, gate, changes, runs>>

-----------------------------------------------------------------------------
(* The gate, and the text that is asked about.                             *)

\* ungated_long
ReadLong ==
  /\ gate = {}
  /\ gate' = {<<id, TextOf(turns, id)>> :
                id \in {i \in Id : turns[i] # Absent /\ gated[i].act = Absent
                                   /\ TextOf(turns, i) \in Long}}
  /\ gate' # {}
  /\ UNCHANGED <<disk, turns, files, gated, run, spoiled, changes, runs, kills>>

\* gate_one and write_gated: a verdict on each that was answered, all in one
\* transaction; what failed is left for the next time.
WriteGated ==
  /\ gate # {} /\ gate' = {}
  /\ \E verdict \in [gate -> {"KEEP", "DROP", "CLEAN", Absent}] :
       gated' = [id \in Id |->
         IF \E g \in gate : g[1] = id /\ verdict[g] # Absent
         THEN LET g == CHOOSE h \in gate : h[1] = id
              IN [act |-> verdict[g], text |-> g[2]]
         ELSE gated[id]]
  /\ UNCHANGED <<disk, turns, files, run, spoiled, changes, runs, kills>>

\* corpus.rs, build: what stands for a turn.
Body(id) == IF gated[id].act \in {"KEEP", "CLEAN"}
            THEN <<gated[id].act = "CLEAN", gated[id].text>>
            ELSE <<FALSE, TextOf(turns, id)>>
Shown == {id \in Id : turns[id] # Absent /\ gated[id].act # "DROP"}

\* build goes through the rows by project, session and line; a text it has
\* already is only counted.
Kept(kept, id) ==
  LET copy == {k \in DOMAIN kept : Body(kept[k].id) = Body(id)}
  IN IF copy = {} THEN Append(kept, [id |-> id, said |-> 1])
     ELSE [k \in DOMAIN kept |->
             IF k \in copy THEN [kept[k] EXCEPT !.said = @ + 1] ELSE kept[k]]
Before(a, b) == a[1] < b[1] \/ (a[1] = b[1] /\ a[2] < b[2])
Corpus == FoldLeft(Kept, <<>>, SetToSortSeq(Shown, Before))

RecallNext ==
  \/ Change \/ Reset \/ ClearFiles \/ Extract \/ InsertAll \/ ListAgain \/ Record
  \/ List \/ RemoveVanished \/ Forget \/ Look \/ Delete \/ Add \/ Note
  \/ \E p \in Indexer : Finish(p) \/ Kill(p)
  \/ ReadLong \/ WriteGated

-----------------------------------------------------------------------------
(* Properties.                                                             *)

\* Two transcripts whose sessions begin alike share their ids.
Alike(f) == \E g \in File \ {f} : Prefix[g] = Prefix[f]
Settled == \A p \in Indexer : At(p, "idle")

\* recall/mod.rs:126-172: while nothing is being indexed, a transcript that the
\* next incremental run would skip is in the index whole, unless its indexing
\* was crossed or cut short, or another has its ids.
SkippedIsIndexed ==
  Settled => \A f \in File \ spoiled :
    files[f] = disk[f] /\ disk[f] > 0 /\ ~Alike(f) =>
      \A id \in Turns(f, disk[f]) : turns[id] = f

\* recall/mod.rs:152-156: what the index holds of a transcript has a state, so
\* that it is removed once the transcript is.
IndexedIsKnown ==
  Settled => \A f \in File \ spoiled :
    (\E id \in Id : turns[id] = f) => files[f] # Unknown

\* gate.rs and extract.rs:181: a verdict stays with the text it was made of.
VerdictsFit ==
  \A id \in Id : gated[id].act # Absent /\ turns[id] # Absent /\ ~Alike(turns[id]) =>
    gated[id].text = TextOf(turns, id)

\* corpus.rs:175-235: of every text that was not dropped the first copy is
\* asked about, with how often it was said.
CorpusWhole ==
  LET corpus == Corpus
  IN /\ \A id \in Shown : \E k \in DOMAIN corpus : Body(corpus[k].id) = Body(id)
     /\ \A k \in DOMAIN corpus :
          LET same == {id \in Shown : Body(id) = Body(corpus[k].id)}
          IN /\ corpus[k].said = Cardinality(same)
             /\ \A id \in same : ~Before(id, corpus[k].id)

RecallSafe == SkippedIsIndexed /\ IndexedIsKnown /\ VerdictsFit /\ CorpusWhole
=============================================================================
