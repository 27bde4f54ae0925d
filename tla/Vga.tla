-------------------------------- MODULE Vga --------------------------------
(***************************************************************************)
(* The text console (vga/vga.c) and the clock task that writes over its    *)
(* last two lines (user_task1 in tasks/tasks.c).  Programs use the console *)
(* through system calls, which run with interrupts disabled: each is one   *)
(* action.  The clock task runs with interrupts enabled, so any number of  *)
(* calls can come between two bytes that it writes.                        *)
(*                                                                         *)
(* A cell of the screen is its character and its colour, and has the index *)
(* y * VGA_WIDTH + x.  Programs print on the screen and in one colour.     *)
(***************************************************************************)
EXTENDS Integers, Sequences, SequencesExt

CONSTANTS
  VGA_WIDTH, VGA_HEIGHT, TAB_SIZE,
  ClockCol,         \* the column of the clock: 70
  ClockLen,         \* its characters: 8
  Strings,          \* what programs print
  Places,           \* where programs print
  MaxCalls          \* bound: system calls made in a run

ASSUME VgaAssumption ==
  /\ VGA_WIDTH \in Nat \ {0} /\ VGA_HEIGHT \in Nat /\ VGA_HEIGHT > 1
  /\ TAB_SIZE \in Nat \ {0} /\ VGA_WIDTH % TAB_SIZE = 0
  /\ ClockCol \in Nat /\ ClockLen \in Nat \ {0} /\ ClockCol + ClockLen <= VGA_WIDTH
  /\ Places \subseteq (0 .. VGA_WIDTH - 1) \X (0 .. VGA_HEIGHT - 1)
  /\ MaxCalls \in Nat

VARIABLES
  vid,              \* the cells of the screen
  x, y,             \* where print_char and print_string go on
  cursor,           \* the position in the registers of the hardware cursor
  gone,             \* the lines that scrolling has removed from the screen
  clock,            \* the bytes the clock task has written in its loop
  calls             \* the system calls made

vars == <<vid, x, y, cursor, gone, clock, calls>>

Cells == 0 .. VGA_WIDTH * VGA_HEIGHT - 1

At(c, r) == r * VGA_WIDTH + c

Cell(ch, color) == [ch |-> ch, color |-> color]

Screen == [vid |-> vid, x |-> x, y |-> y, gone |-> gone]

\* Row r of the characters of v.
Line(v, r) == [c \in 0 .. VGA_WIDTH - 1 |-> v[At(c, r)].ch]

-----------------------------------------------------------------------------
\* The functions of vga.c on a screen s.

\* Mutant: one cell too few is moved.
ScrollShort(s) ==
  [s EXCEPT !.vid = [i \in Cells |->
              IF i < VGA_WIDTH * (VGA_HEIGHT - 1) - 1 THEN s.vid[i + VGA_WIDTH]
              ELSE Cell(" ", "black")],
            !.y = IF @ > 0 THEN @ - 1 ELSE @,
            !.gone = Append(@, Line(s.vid, 0))]

scroll_screen(s) ==
  [s EXCEPT !.vid = [i \in Cells |->
              IF i < VGA_WIDTH * (VGA_HEIGHT - 1) THEN s.vid[i + VGA_WIDTH]
              ELSE Cell(" ", "black")],
            !.y = IF @ > 0 THEN @ - 1 ELSE @,
            !.gone = Append(@, Line(s.vid, 0))]

\* The end of a line, written out three times in the code.
EndLine(s) ==
  LET t == [s EXCEPT !.x = 0, !.y = @ + 1]
  IN  IF t.y >= VGA_HEIGHT THEN [scroll_screen(t) EXCEPT !.y = VGA_HEIGHT - 1] ELSE t

\* Mutant: the line ends one character late.
PutLate(s, ch) ==
  LET t == [s EXCEPT !.vid[At(s.x, s.y)] = Cell(ch, "white"), !.x = @ + 1]
  IN  IF ch = "\n" THEN EndLine(s) ELSE IF t.x > VGA_WIDTH THEN EndLine(t) ELSE t

\* print_char without the cursor; print_string treats every character so.
PutChar(s, ch) ==
  LET t == [s EXCEPT !.vid[At(s.x, s.y)] = Cell(ch, "white"), !.x = @ + 1]
  IN  IF ch = "\n" THEN EndLine(s) ELSE IF t.x >= VGA_WIDTH THEN EndLine(t) ELSE t

\* Mutant: does not go back over the end of a line.
EraseInLine(s) ==
  LET t == IF s.x = 0 THEN s ELSE [s EXCEPT !.x = @ - 1]
  IN  [t EXCEPT !.vid[At(t.x, t.y)] = Cell(" ", "black")]

Erase(s) ==
  LET t == IF s.x > 0 THEN [s EXCEPT !.x = @ - 1]
           ELSE IF s.y > 0 THEN [s EXCEPT !.x = VGA_WIDTH - 1, !.y = @ - 1]
           ELSE s
  IN  [t EXCEPT !.vid[At(t.x, t.y)] = Cell(" ", "black")]

\* The blanks that stand for a tab in column col.
Blanks(col) == TAB_SIZE - (col % TAB_SIZE)

\* One character of print_string_position; p is the cells and the column, and
\* base the index of column 0.  After the last column nothing is written.
PlaceChar(p, ch, base) ==
  LET n == IF ch = "\t" THEN Blanks(p.col) ELSE 1
      put == Cell(IF ch = "\t" THEN " " ELSE ch, "white")
  IN  IF p.over THEN p
      ELSE [vid  |-> [i \in DOMAIN p.vid |->
                        IF i \in base + p.col .. base + p.col + n - 1 THEN put ELSE p.vid[i]],
            col  |-> p.col + n,
            over |-> p.col + n >= VGA_WIDTH]

-----------------------------------------------------------------------------
Becomes(s) ==
  /\ vid' = s.vid /\ x' = s.x /\ y' = s.y /\ gone' = s.gone

\* A system call, while the clock task stands wherever it was interrupted.
Call == calls < MaxCalls /\ calls' = calls + 1 /\ UNCHANGED clock

update_hardware_cursor(c, r) == cursor' = <<c, r>>

print_char(ch) ==
  /\ Call
  /\ Becomes(PutChar(Screen, ch))
  /\ IF ch = "\n" THEN UNCHANGED cursor ELSE update_hardware_cursor(x', y')

print_string(str) ==
  /\ Call
  /\ Becomes(FoldLeft(PutChar, Screen, str))
  /\ update_hardware_cursor(x', y')

backspace ==
  /\ Call
  /\ Becomes(Erase(Screen))
  /\ update_hardware_cursor(x', y')

clean_screen ==
  /\ Call
  /\ vid' = [i \in Cells |-> Cell(" ", "grey")]
  /\ x' = 0 /\ y' = 0
  /\ UNCHANGED <<cursor, gone>>

\* Characters off the screen are ignored.
print_char_position(ch, c, r) ==
  /\ Call
  /\ vid' = IF c >= VGA_WIDTH \/ r >= VGA_HEIGHT THEN vid
            ELSE [vid EXCEPT ![At(c, r)] = Cell(ch, "white")]
  /\ UNCHANGED <<x, y, cursor, gone>>

print_string_position(str, c, r) ==
  /\ Call
  /\ vid' = FoldLeft(LAMBDA p, ch : PlaceChar(p, ch, At(0, r)),
                     [vid |-> vid, col |-> c, over |-> FALSE], str).vid
  /\ UNCHANGED <<x, y, cursor, gone>>

\* The SETPOSCURSOR system call moves the hardware cursor only.
SetPosCursor(c, r) ==
  /\ Call
  /\ update_hardware_cursor(c, r)
  /\ UNCHANGED <<vid, x, y, gone>>

-----------------------------------------------------------------------------
\* The cell of the k-th byte of the loop of user_task1: print_time writes the
\* last line and print_systemup the one above, characters before colours.
ClockCell(k) ==
  At(ClockCol + (k % (2 * ClockLen)) \div 2, VGA_HEIGHT - 1 - k \div (2 * ClockLen))

\* Mutant: the line above is never written.
ClockOneLine ==
  /\ vid' = [vid EXCEPT ![ClockCell(clock)] =
               IF clock % 2 = 0 THEN [@ EXCEPT !.ch = "0"] ELSE [@ EXCEPT !.color = "yellow"]]
  /\ clock' = (clock + 1) % (2 * ClockLen)
  /\ UNCHANGED <<x, y, cursor, gone, calls>>

user_task1 ==
  /\ vid' = [vid EXCEPT ![ClockCell(clock)] =
               IF clock % 2 = 0 THEN [@ EXCEPT !.ch = "0"] ELSE [@ EXCEPT !.color = "yellow"]]
  /\ clock' = (clock + 1) % (4 * ClockLen)
  /\ UNCHANGED <<x, y, cursor, gone, calls>>

\* kmain clears the screen before the first task runs.  The cursor is where
\* the boot loader left it.
Init ==
  /\ vid = [i \in Cells |-> Cell(" ", "grey")]
  /\ x = 0 /\ y = 0
  /\ cursor \in {<<0, 0>>, <<0, VGA_HEIGHT - 1>>}
  /\ gone = <<>>
  /\ clock = 0
  /\ calls = 0

Chars == UNION {Range(str) : str \in Strings}

OffScreen == {<<VGA_WIDTH, 0>>, <<0, VGA_HEIGHT>>}

Next ==
  \/ \E ch \in Chars : print_char(ch)
  \/ \E str \in Strings : print_string(str)
  \/ backspace
  \/ clean_screen
  \/ \E ch \in Chars, p \in Places \cup OffScreen : print_char_position(ch, p[1], p[2])
  \/ \E str \in Strings, p \in Places : print_string_position(str, p[1], p[2])
  \/ \E p \in Places : SetPosCursor(p[1], p[2])
  \/ user_task1

\* The scheduler lets the clock task run again and again (see NoStarvation of
\* Multitask); programs may stop calling.
Spec == Init /\ [][Next]_vars /\ WF_vars(user_task1)

-----------------------------------------------------------------------------
\* The position for the next character is on the screen, whatever was printed,
\* erased and scrolled before.
TypeOK ==
  /\ x \in 0 .. VGA_WIDTH - 1 /\ y \in 0 .. VGA_HEIGHT - 1
  /\ DOMAIN vid = Cells
  /\ \A i \in Cells : /\ vid[i].ch \in Chars \cup {" ", "0"}
                      /\ vid[i].color \in {"grey", "black", "white", "yellow"}
  /\ clock \in 0 .. 4 * ClockLen - 1
  /\ calls \in 0 .. MaxCalls

Roll == INSTANCE TextRoll WITH
  Width <- VGA_WIDTH, Height <- VGA_HEIGHT, Blank <- " ", NewLine <- "\n",
  Strings <- Strings \cup {<<ch>> : ch \in Chars},
  lines <- gone \o [r \in 1 .. VGA_HEIGHT |-> Line(vid, r - 1)],
  row <- Len(gone) + y + 1,
  col <- x,
  shown <- <<cursor[1], Len(gone) + cursor[2] + 1>>

\* The screen is the end of an endless roll of text: scrolling loses and
\* repeats no line, a character goes behind the one before it, what is printed
\* at a position and what the clock writes change one line only, and the
\* cursor is seen where the next character goes (print_char, print_string,
\* scroll_screen, backspace, print_string_position, user_task1).
ImplementsRoll == Roll!Spec

\* backspace takes back what print_char has printed, at the end of a line and
\* at the end of the screen, where the character has scrolled up meanwhile.
EraseTakesBack ==
  \A ch \in Chars \ {"\n"} :
    LET s == Erase(PutChar(Screen, ch))
    IN  /\ s.x = x /\ Len(s.gone) + s.y = Len(gone) + y
        /\ s.vid[At(s.x, s.y)].ch = " "
        /\ \A i \in Cells : i >= VGA_WIDTH * (Len(s.gone) - Len(gone)) /\ i # At(x, y)
             => s.vid[i - VGA_WIDTH * (Len(s.gone) - Len(gone))] = vid[i]

ClockCells == {ClockCell(k) : k \in 0 .. 4 * ClockLen - 1}

ClockShown == \A i \in ClockCells : vid[i] = Cell("0", "yellow")

\* When programs stop printing (a run has MaxCalls calls at most), both lines of
\* the clock are soon complete and stay so: what a call between two bytes has
\* spoilt, or scrolled away, is written again.
ClockReturns == <>[]ClockShown
=============================================================================
