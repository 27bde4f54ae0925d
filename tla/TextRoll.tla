------------------------------ MODULE TextRoll ------------------------------
(***************************************************************************)
(* What the console promises (vga/vga.c): text is written on a roll of     *)
(* paper that never ends, of which the last Height lines are on the        *)
(* screen.  Every line ever written stays on the roll as it was when it    *)
(* left the screen.  Colours are left out.                                 *)
(***************************************************************************)
EXTENDS Integers, Sequences, SequencesExt

CONSTANTS Width, Height, Blank, NewLine, Strings

VARIABLES
  lines,            \* the lines of the roll, from the first to the last
  row, col,         \* where the next character goes
  shown             \* where the cursor is seen, in coordinates of the roll

vars == <<lines, row, col, shown>>

BlankLine == [c \in 0 .. Width - 1 |-> Blank]

Top == Len(lines) - Height

Init ==
  /\ lines = [r \in 1 .. Height |-> BlankLine]
  /\ row = 1
  /\ col = 0

\* The roll p, of the fields lines, row and col, after the end of a line.
Feed(p) ==
  [lines |-> IF p.row = Len(p.lines) THEN Append(p.lines, BlankLine) ELSE p.lines,
   row   |-> p.row + 1,
   col   |-> 0]

Put(p, ch) ==
  LET q == [p EXCEPT !.lines[p.row][p.col] = ch, !.col = @ + 1]
  IN  IF ch = NewLine THEN Feed(p) ELSE IF q.col = Width THEN Feed(q) ELSE q

Becomes(p) == lines' = p.lines /\ row' = p.row /\ col' = p.col

\* The cursor is shown where the next character goes, except that a lone end of
\* a line leaves it where it was seen on the screen.
Write(str) ==
  /\ Becomes(FoldLeft(Put, [lines |-> lines, row |-> row, col |-> col], str))
  /\ \/ shown' = <<col', row'>>
     \/ str = <<NewLine>> /\ shown' = <<shown[1], shown[2] + Len(lines') - Len(lines)>>

\* Back by one character, also over the end of a line, but not above the screen.
Rubout ==
  /\ \/ col > 0 /\ col' = col - 1 /\ row' = row
     \/ col = 0 /\ row > Top + 1 /\ col' = Width - 1 /\ row' = row - 1
     \/ col = 0 /\ row = Top + 1 /\ UNCHANGED <<row, col>>
  /\ lines' = [lines EXCEPT ![row'][col'] = Blank]
  /\ shown' = <<col', row'>>

Clear ==
  /\ lines' = [r \in DOMAIN lines |-> IF r > Top THEN BlankLine ELSE lines[r]]
  /\ row' = Top + 1
  /\ col' = 0
  /\ UNCHANGED shown

\* Something is written over one line on the screen.
Overlay(r) ==
  /\ r > Top
  /\ DOMAIN lines' = DOMAIN lines
  /\ \A s \in DOMAIN lines \ {r} : lines'[s] = lines[s]
  /\ UNCHANGED <<row, col, shown>>

MoveCursor == UNCHANGED <<lines, row, col>>

Next ==
  \/ \E str \in Strings : Write(str)
  \/ Rubout
  \/ Clear
  \/ \E r \in DOMAIN lines : Overlay(r)
  \/ MoveCursor

Spec == Init /\ [][Next]_vars
=============================================================================
