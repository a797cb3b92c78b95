---------------------------- MODULE MarkdownChunks ----------------------------
(***************************************************************************)
(* What the index is made of (chunker.rs): a document is read line by line *)
(* into headings and blocks, its sections are split into units that fit a  *)
(* budget, and units are packed into chunks, each under the path of its    *)
(* headings, with the last units of a chunk repeated in the next.          *)
(*                                                                         *)
(* A line is a kind and a size; only its size, and that it has a space     *)
(* after every Word characters, is known of its text.  A piece of a line   *)
(* is <<line, first character, last character>>.                           *)
(***************************************************************************)
EXTENDS Integers, Sequences, FiniteSets, FiniteSetsExt, SequencesExt

CONSTANTS
  Menu,       \* the lines there may be: text, note (a comment), row, delim,
              \* under (=== or ---), blank, head, fence
  Word,       \* the length of a word
  Target,     \* chunk_size
  Overlap,    \* chunk_overlap
  LeastBudget,
  MaxLines    \* bound

VARIABLES
  doc,      \* the lines read
  blocks,   \* the headings and bodies found, each with its lines
  pending,  \* the lines of the block being read
  fence,    \* the fence that is open
  chunks    \* the chunks, once the document has ended

chunkerVars == <<doc, blocks, pending, fence, chunks>>

NoFence == 0
Ended == -1   \* in place of a fence: the document has no more lines
Unread == [n |-> "unread"]

Size(i) == doc[i].size
Piece(i) == <<i, 1, Size(i)>>
Kind(i) == doc[i].kind

\* The types of the variables.
ChunkerTypeOK ==
  /\ doc \in Seq(Menu) /\ Len(doc) <= MaxLines
  /\ \A b \in ToSet(blocks) : b.level \in 0..6 /\ b.lines \in Seq(DOMAIN doc)
  /\ pending \in Seq(DOMAIN doc)
  /\ fence \in Nat \cup {Ended}
  /\ chunks = <<Unread>> \/
       \A c \in ToSet(chunks) : c.path \in Seq(DOMAIN blocks) /\ c.units /= <<>>

-----------------------------------------------------------------------------
(* Reading.                                                                *)

Opens(l) == l.kind = "fence"
Closes(l, width) == l.kind = "fence" /\ l.bare /\ l.width >= width

Heading(level, ls) == [level |-> level, lines |-> ls]
Body(ls) == [level |-> 0, lines |-> ls]

\* Without the blank lines at the end, which only an open fence can have.
Chomped(ls, lines) == SubSeq(ls, 1, Max({k \in DOMAIN ls : lines[ls[k]].kind /= "blank"}))

\* push_body_or_setext_heading: what is pending becomes a block, and a heading
\* if it is a line with a rule below.
Pushed(bs, ls, lines) ==
  IF ls = <<>> THEN bs
  ELSE IF Len(ls) = 2 /\ lines[ls[2]].kind = "under"
  THEN Append(bs, Heading(lines[ls[2]].level, ls))
  ELSE Append(bs, Body(Chomped(ls, lines)))

ChunkerInit ==
  doc = <<>> /\ blocks = <<>> /\ pending = <<>> /\ fence = NoFence /\ chunks = <<Unread>>

\* The next line, which closes a fence, opens one, is a heading, ends a block
\* or belongs to it.
ReadLine ==
  /\ fence /= Ended /\ Len(doc) < MaxLines
  /\ \E l \in Menu :
       LET i == Len(doc) + 1
           ended == Pushed(blocks, pending, doc)
       IN /\ doc' = Append(doc, l)
          /\ \/ /\ fence /= NoFence /\ Closes(l, fence)
                /\ blocks' = Pushed(blocks, Append(pending, i), doc')
                /\ pending' = <<>> /\ fence' = NoFence
             \/ /\ fence /= NoFence /\ ~Closes(l, fence)
                /\ pending' = Append(pending, i) /\ UNCHANGED <<blocks, fence>>
             \/ /\ fence = NoFence /\ Opens(l)
                /\ blocks' = ended /\ pending' = <<i>> /\ fence' = l.width
             \/ /\ fence = NoFence /\ l.kind = "head"
                /\ blocks' = Append(ended, Heading(l.level, <<i>>))
                /\ pending' = <<>> /\ UNCHANGED fence
             \/ /\ fence = NoFence /\ l.kind = "blank"
                /\ blocks' = ended /\ pending' = <<>> /\ UNCHANGED fence
             \/ /\ fence = NoFence /\ l.kind \in {"text", "note", "row", "delim", "under"}
                /\ pending' = Append(pending, i) /\ UNCHANGED <<blocks, fence>>
  /\ UNCHANGED chunks

-----------------------------------------------------------------------------
(* Splitting.  A unit is a sequence of pieces, joined by newlines.         *)

SizeOf(p) == p[3] - p[2] + 1
Length(ps) == FoldLeft(LAMBDA n, p : n + SizeOf(p), 0, ps) + IF ps = <<>> THEN 0 ELSE Len(ps) - 1

\* Without the blank lines at its ends.
Trimmed(ps) ==
  LET said == {k \in DOMAIN ps : SizeOf(ps[k]) > 0}
  IN IF said = {} THEN <<>> ELSE SubSeq(ps, Min(said), Max(said))

\* Where a piece is cut that is alone too long: before the last space within
\* the budget, or at the budget; no part begins with a space.
IsSpace(k) == k % (Word + 1) = 0
CutAt(p, budget) ==
  LET end == p[2] + budget
      spaces == {k \in p[2]..(end - 1) : IsSpace(k)}
      cut == IF spaces = {} THEN end ELSE Max(spaces)
  IN << <<p[1], p[2], cut - 1>>, <<p[1], cut + IF IsSpace(cut) THEN 1 ELSE 0, p[3]>> >>

\* split_at_semantic_boundaries: as many lines as fit with their newlines, or
\* a part of the first.
RECURSIVE AtBoundaries(_, _)
AtBoundaries(rest, budget) ==
  LET ps == Trimmed(rest)
      fitting == {k \in DOMAIN ps : Length(SubSeq(ps, 1, k)) + 1 <= budget}
  IN IF ps = <<>> THEN <<>>
     ELSE IF Length(ps) <= budget THEN <<ps>>
     ELSE IF fitting /= {}
     THEN <<Trimmed(SubSeq(ps, 1, Max(fitting)))>>
            \o AtBoundaries(SubSeq(ps, Max(fitting) + 1, Len(ps)), budget)
     ELSE LET cut == CutAt(ps[1], budget)
          IN << <<cut[1]>> >> \o AtBoundaries(<<cut[2]>> \o Tail(ps), budget)

\* Each part of a fenced block has its fence; one that is not closed, or whose
\* fence is as long as the budget, stays whole.
Refenced(ps, budget) ==
  LET opening == Head(ps)
      closing == Last(ps)
      room == budget - (SizeOf(opening) + SizeOf(closing) + 2)
      parts == AtBoundaries(SubSeq(ps, 2, Len(ps) - 1), room)
  IN IF Len(ps) < 2 \/ ~Closes(doc[closing[1]], doc[opening[1]].width) THEN <<ps>>
     ELSE IF room <= 0 \/ parts = <<>> THEN <<ps>>
     ELSE [k \in DOMAIN parts |-> <<opening>> \o parts[k] \o <<closing>>]

IsTable(ps) ==
  /\ Len(ps) >= 3 /\ Kind(ps[1][1]) = "row"
  /\ Kind(ps[2][1]) = "delim" \/ (Kind(ps[2][1]) = "under" /\ doc[ps[2][1]].level = 2)

\* Each group of rows has the table's header.
Headed(ps, budget) ==
  LET header == SubSeq(ps, 1, 2)
      room == budget - Length(header) - 1
      Joined(rows) == Length(rows) + 1
      groups == FoldLeft(LAMBDA acc, row :
                  IF acc.rows /= <<>> /\ Joined(acc.rows) + SizeOf(row) > room
                  THEN [done |-> Append(acc.done, acc.rows), rows |-> <<row>>]
                  ELSE [acc EXCEPT !.rows = Append(@, row)],
                [done |-> <<>>, rows |-> <<>>], SubSeq(ps, 3, Len(ps)))
  IN IF room <= 0 THEN <<ps>>
     ELSE LET all == Append(groups.done, groups.rows)
          IN [k \in DOMAIN all |-> header \o all[k]]

\* split_block
Units(b, budget) ==
  LET ps == [k \in DOMAIN b.lines |-> Piece(b.lines[k])] IN
  IF Length(ps) <= budget THEN <<ps>>
  ELSE IF Opens(doc[b.lines[1]]) THEN Refenced(ps, budget)
  ELSE IF IsTable(ps) THEN Headed(ps, budget)
  ELSE AtBoundaries(ps, budget)

-----------------------------------------------------------------------------
(* Packing.                                                                *)

Joined(us) == FoldLeft(LAMBDA n, u : n + Length(u), 0, us) + IF us = <<>> THEN 0 ELSE 2 * (Len(us) - 1)

\* overlap_units: the last units that fit.
Tailing(us, budget) ==
  LET fits == {k \in DOMAIN us : \A j \in k..Len(us) : Joined(SubSeq(us, j, Len(us))) <= budget}
  IN IF budget = 0 \/ fits = {} THEN <<>> ELSE SubSeq(us, Min(fits), Len(us))

\* is_substantive: some line of it says something.
Substantive(us) ==
  \E k \in DOMAIN us : \E j \in DOMAIN us[k] : Kind(us[k][j][1]) \in {"text", "row", "head"}

\* push_rendered_chunk
Rendered(done, path, us) ==
  IF us = <<>> \/ ~Substantive(us) \/ (done /= <<>> /\ Last(done).units = us) THEN done
  ELSE Append(done, [path |-> path, units |-> us])

\* The headings above a section, outermost first: those before it that no
\* heading of their level or a higher one follows.
Above(stack, h) == Append(SelectSeq(stack, LAMBDA g : blocks[g].level < blocks[h].level), h)

PrefixLength(path) ==
  LET lines == FlattenSeq([k \in DOMAIN path |-> blocks[path[k]].lines])
  IN Length([k \in DOMAIN lines |-> Piece(lines[k])])

BudgetOf(path) ==
  Max({LeastBudget, Target - IF path = <<>> THEN 0 ELSE PrefixLength(path) + 2})
OverlapOf(path) == Min({Overlap, BudgetOf(path) \div 2})

\* chunk_section
Packed(path, us) ==
  LET budget == BudgetOf(path)
      Full(held, u) == held /= <<>> /\ Joined(held) + 2 + Length(u) > budget
      Place(acc, u) ==
        LET over == Full(acc.held, u)
            kept == IF over THEN Tailing(acc.held, OverlapOf(path)) ELSE acc.held
        IN [done |-> IF over THEN Rendered(acc.done, path, acc.held) ELSE acc.done,
            held |-> Append(IF Full(kept, u) THEN <<>> ELSE kept, u)]
      packed == FoldLeft(Place, [done |-> <<>>, held |-> <<>>], us)
  IN Rendered(packed.done, path, packed.held)

\* markdown_sections: the bodies under one heading.
Sections(bs) ==
  LET Flush(acc) == IF acc.bodies = <<>> THEN acc.done
                    ELSE Append(acc.done, [path |-> acc.stack, bodies |-> acc.bodies])
      Place(acc, k) ==
        IF bs[k].level = 0 THEN [acc EXCEPT !.bodies = Append(@, k)]
        ELSE [done |-> Flush(acc), stack |-> Above(acc.stack, k), bodies |-> <<>>]
  IN Flush(FoldLeft(Place, [done |-> <<>>, stack |-> <<>>, bodies |-> <<>>],
                    [k \in DOMAIN bs |-> k]))

\* The document ends: what is pending is its last block, though a fence be open.
LastBlock ==
  /\ fence /= Ended /\ fence' = Ended
  /\ blocks' = Pushed(blocks, pending, doc) /\ pending' = <<>>
  /\ UNCHANGED <<doc, chunks>>

\* chunk_markdown
EndOfText ==
  /\ fence = Ended /\ chunks = <<Unread>>
  /\ LET sections == Sections(blocks)
         UnitsOf(s) == FlattenSeq([k \in DOMAIN s.bodies |->
                                     Units(blocks[s.bodies[k]], BudgetOf(s.path))])
     IN chunks' = FlattenSeq([k \in DOMAIN sections |->
                                Packed(sections[k].path, UnitsOf(sections[k]))])
  /\ UNCHANGED <<doc, blocks, pending, fence>>

ChunkerNext == ReadLine \/ LastBlock \/ EndOfText

ChunkerSpec == ChunkerInit /\ [][ChunkerNext]_chunkerVars

-----------------------------------------------------------------------------
(* What the index relies on.                                               *)

Chunked == chunks /= <<Unread>>
Bodies == {k \in DOMAIN blocks : blocks[k].level = 0}
Says(i) == Kind(i) \in {"text", "row", "head"}
Pieces(c) == UNION {ToSet(c.units[k]) : k \in DOMAIN c.units}

\* Every line that says something is in one block, in the order of the document.
LinesInOrder ==
  LET read == FlattenSeq([k \in DOMAIN blocks |-> blocks[k].lines]) \o pending
  IN /\ \A j, k \in DOMAIN read : j < k => read[j] < read[k]
     /\ \A i \in DOMAIN doc : Kind(i) /= "blank" => i \in ToSet(read)

\* Each character of a body's line that says something, but the spaces at
\* which it was cut, is in some chunk.
NothingLost ==
  \A b \in Bodies : \A i \in ToSet(blocks[b].lines) : Says(i) =>
    \A at \in 1..Size(i) : IsSpace(at) \/
      \E c \in ToSet(chunks) : \E p \in Pieces(c) : p[1] = i /\ p[2] <= at /\ at <= p[3]

\* A chunk is longer than its budget only if it is one unit; what it repeats
\* of the one before fits the overlap.
Fits ==
  /\ \A c \in ToSet(chunks) : Joined(c.units) <= BudgetOf(c.path) \/ Len(c.units) = 1
  /\ \A k \in 2..Len(chunks) :
       LET c == chunks[k]
           again == SelectSeq(c.units, LAMBDA u : u \in ToSet(chunks[k - 1].units))
       IN Joined(again) <= OverlapOf(c.path) /\ again /= c.units

\* The block a chunk's unit comes from.
Origin(u) == CHOOSE b \in DOMAIN blocks : u[1][1] \in ToSet(blocks[b].lines)
Enclosing(b) == {h \in DOMAIN blocks \ Bodies :
               h < b /\ \A g \in (h + 1)..b : g \notin Bodies => blocks[g].level > blocks[h].level}

\* A chunk stands under the headings that enclose all its units: those of
\* its section, never of the one before.
UnderItsHeadings ==
  \A c \in ToSet(chunks) : \A u \in ToSet(c.units) : ToSet(c.path) = Enclosing(Origin(u))

\* A part of a closed fence is a closed fence, a part of a table has its header.
PartsAreWhole ==
  \A c \in ToSet(chunks) : \A u \in ToSet(c.units) :
    LET ls == blocks[Origin(u)].lines
    IN /\ Opens(doc[ls[1]]) /\ Len(ls) > 1 /\ Closes(doc[Last(ls)], doc[ls[1]].width) =>
            Len(u) > 1 /\ u[1] = Piece(ls[1]) /\ Last(u) = Piece(Last(ls))
       /\ IsTable([k \in DOMAIN ls |-> Piece(ls[k])]) =>
            u[1] = Piece(ls[1]) /\ u[2] = Piece(ls[2])

\* A document is cut into chunks without losing, tearing or misplacing any of it.
ChunksSafe ==
  LinesInOrder /\ (Chunked => NothingLost /\ Fits /\ UnderItsHeadings /\ PartsAreWhole)
===============================================================================
