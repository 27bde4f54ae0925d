------------------------------ MODULE Keyboard ------------------------------
(***************************************************************************)
(* The keyboard driver (keyboard/keyboard.c): the interrupt handler turns  *)
(* scan codes into characters and puts them into a ring buffer; the        *)
(* GETCHAR system call takes them out.  Both disable interrupts, so each   *)
(* is one action.  A scan code is a key with its direction; the two tables *)
(* are a constant: what a key gives without and with shift.                *)
(***************************************************************************)
EXTENDS Naturals, Sequences

CONSTANTS
  KBD_BUF_SIZE,
  Letters,          \* the keys of is_alpha, KEY_C among them
  Symbols,          \* the other keys that have a character
  Dead              \* the keys that have none

ASSUME KeyboardAssumption ==
  /\ KBD_BUF_SIZE \in Nat /\ 1 < KBD_BUF_SIZE
  /\ "c" \in Letters

VARIABLES
  shift_down, caps_lock, ctrl_down,
  kbd_buf,
  kbd_head,         \* where the next character is put
  kbd_tail,         \* where the next one is read
  answer            \* what the last kbd_getchar returned

vars == <<shift_down, caps_lock, ctrl_down, kbd_buf, kbd_head, kbd_tail, answer>>

Slot == 0 .. KBD_BUF_SIZE - 1

Empty == <<"-1", FALSE>>

CtrlC == <<"0x03", FALSE>>

\* A character is its key and whether it comes from the shifted table; for a
\* letter that is the upper case.
Chars == ((Letters \cup Symbols) \X BOOLEAN) \cup {CtrlC}

NoChar == <<"0", FALSE>>

Init ==
  /\ shift_down = FALSE
  /\ caps_lock = FALSE
  /\ ctrl_down = FALSE
  /\ kbd_buf = [i \in Slot |-> NoChar]
  /\ kbd_head = 0
  /\ kbd_tail = 0
  /\ answer = Empty

-----------------------------------------------------------------------------
get_ascii_char(key) ==
  IF key \in Letters THEN <<key, shift_down # caps_lock>>
  ELSE IF key \in Symbols THEN <<key, shift_down>>
  ELSE NoChar

\* Mutant: a full buffer is not noticed.
PushAlways(c) ==
  /\ kbd_buf' = [kbd_buf EXCEPT ![kbd_head] = c]
  /\ kbd_head' = (kbd_head + 1) % KBD_BUF_SIZE
  /\ UNCHANGED <<kbd_tail, answer>>

kbd_buffer_push(c) ==
  LET next == (kbd_head + 1) % KBD_BUF_SIZE
  IN  /\ IF next # kbd_tail
         THEN /\ kbd_buf' = [kbd_buf EXCEPT ![kbd_head] = c]
              /\ kbd_head' = next
         ELSE UNCHANGED <<kbd_buf, kbd_head>>
      /\ UNCHANGED <<kbd_tail, answer>>

BufferUnchanged == UNCHANGED <<kbd_buf, kbd_head, kbd_tail, answer>>

kbd_getchar ==
  /\ IF kbd_head = kbd_tail THEN answer' = Empty /\ UNCHANGED kbd_tail
     ELSE /\ answer' = kbd_buf[kbd_tail]
          /\ kbd_tail' = (kbd_tail + 1) % KBD_BUF_SIZE
  /\ UNCHANGED <<shift_down, caps_lock, ctrl_down, kbd_buf, kbd_head>>

\* The branches of keyboard_handler, in their order.
Control(released) ==
  /\ ctrl_down' = ~ released
  /\ UNCHANGED <<shift_down, caps_lock>> /\ BufferUnchanged

Shift(released) ==
  /\ shift_down' = ~ released
  /\ UNCHANGED <<ctrl_down, caps_lock>> /\ BufferUnchanged

CapsLock(released) ==
  /\ caps_lock' = IF released THEN caps_lock ELSE ~ caps_lock
  /\ UNCHANGED <<ctrl_down, shift_down>> /\ BufferUnchanged

Character(key, released) ==
  LET ch == IF ctrl_down /\ key = "c" THEN CtrlC ELSE get_ascii_char(key)
  IN  /\ IF released \/ ch = NoChar THEN BufferUnchanged ELSE kbd_buffer_push(ch)
      /\ UNCHANGED <<shift_down, caps_lock, ctrl_down>>

keyboard_handler(released) ==
  \/ Control(released)
  \/ Shift(released)
  \/ CapsLock(released)
  \/ \E key \in Letters \cup Symbols \cup Dead : Character(key, released)

Next == kbd_getchar \/ \E released \in BOOLEAN : keyboard_handler(released)

Spec == Init /\ [][Next]_vars

-----------------------------------------------------------------------------
\* How many characters wait, and which.
Count ==
  IF kbd_tail <= kbd_head THEN kbd_head - kbd_tail
  ELSE kbd_head + KBD_BUF_SIZE - kbd_tail

Place(i) ==
  IF kbd_tail + i - 1 < KBD_BUF_SIZE THEN kbd_tail + i - 1
  ELSE kbd_tail + i - 1 - KBD_BUF_SIZE

Waiting == [i \in 1 .. Count |-> kbd_buf[Place(i)]]

\* The indices of the buffer stay inside it, and only characters are stored.
TypeOK ==
  /\ shift_down \in BOOLEAN /\ caps_lock \in BOOLEAN /\ ctrl_down \in BOOLEAN
  /\ kbd_buf \in [Slot -> Chars \cup {NoChar}]
  /\ kbd_head \in Slot /\ kbd_tail \in Slot
  /\ answer \in Chars \cup {Empty}

\* A reader never sees a place of the buffer that was not written: what waits
\* between tail and head are characters, across the wrap-around.
WaitingAreChars == \A i \in 1 .. Count : kbd_buf[Place(i)] \in Chars

Queue == INSTANCE KeyQueue WITH
  Capacity <- KBD_BUF_SIZE - 1, waiting <- Waiting

\* The ring buffer is a queue of KBD_BUF_SIZE - 1 characters: in order, none
\* twice, and none lost unless the buffer is full.
ImplementsQueue == Queue!Spec
=============================================================================
