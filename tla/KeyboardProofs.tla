--------------------------- MODULE KeyboardProofs ---------------------------
(***************************************************************************)
(* The keyboard buffer is a bounded queue, for every size of the buffer.   *)
(***************************************************************************)
EXTENDS Keyboard, SequenceTheorems, TLAPS

Inv == TypeOK /\ WaitingAreChars

\* The successor of a place of the buffer, without the remainder.
LEMMA NextPlace ==
  ASSUME NEW x \in Slot
  PROVE  /\ (x + 1) % KBD_BUF_SIZE = (IF x + 1 = KBD_BUF_SIZE THEN 0 ELSE x + 1)
         /\ (x + 1) % KBD_BUF_SIZE \in Slot
<1>1. KBD_BUF_SIZE \in Nat /\ 1 < KBD_BUF_SIZE /\ x \in Nat /\ x + 1 <= KBD_BUF_SIZE
  BY KeyboardAssumption DEF Slot
<1>2. CASE x + 1 = KBD_BUF_SIZE
  <2>1. KBD_BUF_SIZE % KBD_BUF_SIZE = 0
    BY <1>1, SMT
  <2> QED
    BY <1>1, <1>2, <2>1 DEF Slot
<1>3. CASE x + 1 < KBD_BUF_SIZE
  <2>1. (x + 1) % KBD_BUF_SIZE = x + 1
    BY <1>1, <1>3, SMT
  <2> QED
    BY <1>1, <1>3, <2>1 DEF Slot
<1> QED
  BY <1>1, <1>2, <1>3

\* What waits is a sequence of characters.
LEMMA WaitingSeq ==
  ASSUME Inv
  PROVE  /\ Count \in Nat /\ Count < KBD_BUF_SIZE
         /\ Waiting \in Seq(Chars) /\ Len(Waiting) = Count
         /\ \A i \in 1 .. Count : Waiting[i] = kbd_buf[Place(i)] /\ Place(i) \in Slot
<1>1. Count \in Nat /\ Count < KBD_BUF_SIZE
  BY KeyboardAssumption DEF Inv, TypeOK, Slot, Count
<1>2. \A i \in 1 .. Count : Place(i) \in Slot
  BY <1>1, KeyboardAssumption DEF Inv, TypeOK, Slot, Count, Place
<1>3. \A i \in 1 .. Count : kbd_buf[Place(i)] \in Chars
  BY DEF Inv, WaitingAreChars
<1>4. Waiting \in [1 .. Count -> Chars]
  BY <1>3 DEF Waiting
<1>5. Waiting \in Seq(Chars) /\ Len(Waiting) = Count
  BY <1>1, <1>4
<1> QED
  BY <1>1, <1>2, <1>5 DEF Waiting

\* kbd_buffer_push adds a character behind the waiting ones, or drops it when
\* the buffer is full.
LEMMA PushStep ==
  ASSUME Inv, NEW c \in Chars, kbd_buffer_push(c)
  PROVE  /\ kbd_buf' \in [Slot -> Chars \cup {NoChar}]
         /\ kbd_head' \in Slot /\ kbd_tail' \in Slot
         /\ WaitingAreChars'
         /\ Queue!Put(c)
<1> DEFINE next == (kbd_head + 1) % KBD_BUF_SIZE
<1>0. /\ KBD_BUF_SIZE \in Nat /\ 1 < KBD_BUF_SIZE
      /\ kbd_head \in Slot /\ kbd_tail \in Slot
      /\ kbd_buf \in [Slot -> Chars \cup {NoChar}]
  BY KeyboardAssumption DEF Inv, TypeOK
<1>1. next = (IF kbd_head + 1 = KBD_BUF_SIZE THEN 0 ELSE kbd_head + 1) /\ next \in Slot
  BY <1>0, NextPlace
<1>2. /\ kbd_tail' = kbd_tail /\ answer' = answer
      /\ IF next # kbd_tail
         THEN kbd_buf' = [kbd_buf EXCEPT ![kbd_head] = c] /\ kbd_head' = next
         ELSE kbd_buf' = kbd_buf /\ kbd_head' = kbd_head
  BY DEF kbd_buffer_push
<1>3. /\ Count \in Nat /\ Count < KBD_BUF_SIZE
      /\ Waiting \in Seq(Chars) /\ Len(Waiting) = Count
      /\ \A i \in 1 .. Count : Waiting[i] = kbd_buf[Place(i)] /\ Place(i) \in Slot
  BY WaitingSeq
<1> HIDE DEF next
<1>4. CASE next # kbd_tail
  <2>1. kbd_buf' = [kbd_buf EXCEPT ![kbd_head] = c] /\ kbd_head' = next
    BY <1>2, <1>4
  <2>2. Count' = Count + 1 /\ Count < KBD_BUF_SIZE - 1
    BY <1>0, <1>1, <1>2, <1>4, <2>1 DEF Count, Slot
  <2>3. \A i \in Nat : Place(i)' = Place(i)
    BY <1>2 DEF Place
  <2>4. Place(Count + 1) = kbd_head /\ \A i \in 1 .. Count : Place(i) # kbd_head
    BY <1>0, <1>3 DEF Place, Count, Slot
  <2>5. \A i \in 1 .. Count : kbd_buf'[Place(i)] = kbd_buf[Place(i)]
    BY <1>0, <1>3, <2>1, <2>4
  <2>6. kbd_buf'[Place(Count + 1)] = c
    BY <1>0, <2>1, <2>4
  <2>7. \A i \in 1 .. Count + 1 :
          kbd_buf'[Place(i)'] = (IF i = Count + 1 THEN c ELSE kbd_buf[Place(i)])
    <3> SUFFICES ASSUME NEW i \in 1 .. Count + 1
                 PROVE  kbd_buf'[Place(i)'] = (IF i = Count + 1 THEN c ELSE kbd_buf[Place(i)])
      OBVIOUS
    <3>1. Place(i)' = Place(i) /\ (i = Count + 1 \/ i \in 1 .. Count)
      BY <1>3, <2>3
    <3> QED
      BY <3>1, <1>3, <2>5, <2>6
  <2>8. Waiting' = [i \in 1 .. Count + 1 |-> IF i = Count + 1 THEN c ELSE kbd_buf[Place(i)]]
    BY <2>2, <2>7 DEF Waiting
  <2>9. Waiting' = Append(Waiting, c)
    <3>1. /\ Append(Waiting, c) \in Seq(Chars)
          /\ Len(Append(Waiting, c)) = Count + 1
          /\ \A i \in 1 .. Count : Append(Waiting, c)[i] = Waiting[i]
          /\ Append(Waiting, c)[Count + 1] = c
      BY <1>3, AppendProperties
    <3>2. \A i \in 1 .. Count + 1 :
            Append(Waiting, c)[i] = (IF i = Count + 1 THEN c ELSE kbd_buf[Place(i)])
      BY <1>3, <3>1
    <3>3. Waiting' \in [1 .. Count + 1 -> Chars]
      BY <1>3, <2>8 DEF Inv, WaitingAreChars
    <3>4. /\ Waiting' \in Seq(Chars) /\ Len(Waiting') = Count + 1
          /\ \A i \in 1 .. Count + 1 : Waiting'[i] = Append(Waiting, c)[i]
      BY <1>3, <2>8, <3>2, <3>3
    <3> QED
      BY <3>1, <3>4, SeqEqual
  <2>10. WaitingAreChars'
    <3>1. \A i \in 1 .. Count : kbd_buf[Place(i)] \in Chars
      BY DEF Inv, WaitingAreChars
    <3>2. \A i \in 1 .. Count + 1 : kbd_buf'[Place(i)'] \in Chars
      BY <1>3, <2>7, <3>1
    <3> QED
      BY <2>2, <3>2 DEF WaitingAreChars
  <2>11. Queue!Put(c)
    BY <1>2, <1>3, <2>2, <2>9 DEF Queue!Put
  <2> QED
    BY <1>0, <1>1, <1>2, <2>1, <2>10, <2>11
<1>5. CASE next = kbd_tail
  <2>1. kbd_buf' = kbd_buf /\ kbd_head' = kbd_head
    BY <1>2, <1>5
  <2>2. Count = KBD_BUF_SIZE - 1
    BY <1>0, <1>1, <1>5 DEF Count, Slot
  <2>3. Waiting' = Waiting /\ WaitingAreChars'
    BY <1>2, <2>1 DEF Waiting, Count, Place, WaitingAreChars, Inv
  <2>4. Queue!Put(c)
    BY <1>0, <1>2, <1>3, <2>2, <2>3 DEF Queue!Put
  <2> QED
    BY <1>0, <1>2, <2>1, <2>3, <2>4
<1> QED
  BY <1>4, <1>5

\* kbd_getchar returns the first of the waiting characters and takes it out.
LEMMA GetStep ==
  ASSUME Inv, kbd_getchar
  PROVE  /\ kbd_tail' \in Slot
         /\ answer' \in Chars \cup {Empty}
         /\ WaitingAreChars'
         /\ Queue!Get
<1>0. /\ KBD_BUF_SIZE \in Nat /\ 1 < KBD_BUF_SIZE
      /\ kbd_head \in Slot /\ kbd_tail \in Slot
  BY KeyboardAssumption DEF Inv, TypeOK
<1>1. /\ kbd_buf' = kbd_buf /\ kbd_head' = kbd_head
      /\ IF kbd_head = kbd_tail THEN answer' = Empty /\ kbd_tail' = kbd_tail
         ELSE /\ answer' = kbd_buf[kbd_tail]
              /\ kbd_tail' = (kbd_tail + 1) % KBD_BUF_SIZE
  BY DEF kbd_getchar
<1>2. /\ Count \in Nat /\ Count < KBD_BUF_SIZE
      /\ Waiting \in Seq(Chars) /\ Len(Waiting) = Count
      /\ \A i \in 1 .. Count : Waiting[i] = kbd_buf[Place(i)] /\ Place(i) \in Slot
  BY WaitingSeq
<1>3. CASE kbd_head = kbd_tail
  <2>1. Count = 0
    BY <1>0, <1>3 DEF Count, Slot
  <2>2. Waiting = <<>>
    BY <1>2, <2>1, EmptySeq
  <2>3. Waiting' = Waiting /\ WaitingAreChars' /\ kbd_tail' = kbd_tail /\ answer' = Empty
    BY <1>1, <1>3 DEF Waiting, Count, Place, WaitingAreChars, Inv
  <2> QED
    BY <1>0, <2>2, <2>3 DEF Queue!Get
<1>4. CASE kbd_head # kbd_tail
  <2>1. answer' = kbd_buf[kbd_tail] /\ kbd_tail' = (kbd_tail + 1) % KBD_BUF_SIZE
    BY <1>1, <1>4
  <2>2. /\ kbd_tail' = (IF kbd_tail + 1 = KBD_BUF_SIZE THEN 0 ELSE kbd_tail + 1)
        /\ kbd_tail' \in Slot
    BY <1>0, <2>1, NextPlace
  <2>3. Count >= 1 /\ Count' = Count - 1
    BY <1>0, <1>1, <1>4, <2>2 DEF Count, Slot
  <2>4. Place(1) = kbd_tail
    BY <1>0 DEF Place, Slot
  <2>5. \A i \in 1 .. Count - 1 : Place(i)' = Place(i + 1)
    BY <1>0, <1>2, <2>2 DEF Place, Slot
  <2>6. Waiting # <<>> /\ Waiting[1] = kbd_buf[kbd_tail]
    BY <1>2, <2>3, <2>4, EmptySeq
  <2>7. Head(Waiting) = kbd_buf[kbd_tail] /\ kbd_buf[kbd_tail] \in Chars
    BY <1>2, <2>6, HeadTailProperties
  <2>8. /\ Tail(Waiting) \in Seq(Chars) /\ Len(Tail(Waiting)) = Count - 1
        /\ \A i \in 1 .. Count - 1 : Tail(Waiting)[i] = Waiting[i + 1]
    BY <1>2, <2>6, HeadTailProperties
  <2>9. \A i \in 1 .. Count - 1 :
          kbd_buf'[Place(i)'] = Waiting[i + 1] /\ Waiting[i + 1] \in Chars
    <3> SUFFICES ASSUME NEW i \in 1 .. Count - 1
                 PROVE  kbd_buf'[Place(i)'] = Waiting[i + 1] /\ Waiting[i + 1] \in Chars
      OBVIOUS
    <3>1. i + 1 \in 1 .. Count /\ Place(i)' = Place(i + 1)
      BY <1>2, <2>5
    <3> QED
      BY <1>1, <1>2, <3>1, ElementOfSeq
  <2>10. WaitingAreChars'
    BY <2>3, <2>9 DEF WaitingAreChars
  <2>11. Waiting' = [i \in 1 .. Count - 1 |-> Waiting[i + 1]]
    BY <2>3, <2>9 DEF Waiting
  <2>12. Waiting' = Tail(Waiting)
    <3>1. Waiting' \in [1 .. Count - 1 -> Chars]
      BY <2>9, <2>11
    <3>2. /\ Waiting' \in Seq(Chars) /\ Len(Waiting') = Count - 1
          /\ \A i \in 1 .. Count - 1 : Waiting'[i] = Tail(Waiting)[i]
      BY <1>2, <2>3, <2>8, <2>11, <3>1
    <3> QED
      BY <2>8, <3>2, SeqEqual
  <2>13. Queue!Get
    BY <2>1, <2>6, <2>7, <2>12 DEF Queue!Get
  <2> QED
    BY <2>1, <2>2, <2>7, <2>10, <2>13
<1> QED
  BY <1>3, <1>4

\* A branch of keyboard_handler that does not reach the buffer keeps the queue.
LEMMA BufferKept ==
  ASSUME Inv, BufferUnchanged
  PROVE  WaitingAreChars' /\ UNCHANGED <<Waiting, answer>>
BY DEF Inv, BufferUnchanged, WaitingAreChars, Waiting, Count, Place

\* One step of the driver keeps the invariant and is a step of the queue.
LEMMA KeyboardStep ==
  ASSUME Inv, [Next]_vars
  PROVE  Inv' /\ [Queue!Next]_<<Waiting, answer>>
<1>0. TypeOK
  BY DEF Inv
<1>1. ASSUME NEW released \in BOOLEAN,
             Control(released) \/ Shift(released) \/ CapsLock(released)
      PROVE  Inv' /\ [Queue!Next]_<<Waiting, answer>>
  <2>1. BufferUnchanged
    BY <1>1 DEF Control, Shift, CapsLock
  <2>2. shift_down' \in BOOLEAN /\ caps_lock' \in BOOLEAN /\ ctrl_down' \in BOOLEAN
    BY <1>0, <1>1 DEF TypeOK, Control, Shift, CapsLock
  <2>3. TypeOK'
    BY <1>0, <2>1, <2>2 DEF TypeOK, BufferUnchanged
  <2> QED
    BY <2>1, <2>3, BufferKept DEF Inv
<1>2. ASSUME NEW released \in BOOLEAN, NEW key \in Letters \cup Symbols \cup Dead,
             Character(key, released)
      PROVE  Inv' /\ [Queue!Next]_<<Waiting, answer>>
  <2> DEFINE ch == IF ctrl_down /\ key = "c" THEN CtrlC ELSE get_ascii_char(key)
  <2>1. /\ shift_down' = shift_down /\ caps_lock' = caps_lock /\ ctrl_down' = ctrl_down
        /\ IF released \/ ch = NoChar THEN BufferUnchanged ELSE kbd_buffer_push(ch)
    BY <1>2 DEF Character
  <2>2. ch # NoChar => ch \in Chars
    <3>1. (shift_down # caps_lock) \in BOOLEAN /\ shift_down \in BOOLEAN
      BY <1>0 DEF TypeOK
    <3> QED
      BY <3>1 DEF get_ascii_char, Chars
  <2>3. CASE released \/ ch = NoChar
    <3>1. BufferUnchanged
      BY <2>1, <2>3
    <3>2. TypeOK'
      BY <1>0, <2>1, <3>1 DEF TypeOK, BufferUnchanged
    <3> QED
      BY <3>1, <3>2, BufferKept DEF Inv
  <2>4. CASE ~ (released \/ ch = NoChar)
    <3>1. ch \in Chars /\ kbd_buffer_push(ch)
      BY <2>1, <2>2, <2>4
    <3> HIDE DEF ch
    <3>2. answer' = answer
      BY <3>1 DEF kbd_buffer_push
    <3>3. /\ kbd_buf' \in [Slot -> Chars \cup {NoChar}]
          /\ kbd_head' \in Slot /\ kbd_tail' \in Slot
          /\ WaitingAreChars' /\ Queue!Put(ch)
      BY <3>1, PushStep
    <3>4. TypeOK'
      BY <1>0, <2>1, <3>2, <3>3 DEF TypeOK
    <3> QED
      BY <3>1, <3>3, <3>4 DEF Inv, Queue!Next
  <2> QED
    BY <2>3, <2>4
<1>3. CASE kbd_getchar
  <2>1. /\ shift_down' = shift_down /\ caps_lock' = caps_lock /\ ctrl_down' = ctrl_down
        /\ kbd_buf' = kbd_buf /\ kbd_head' = kbd_head
    BY <1>3 DEF kbd_getchar
  <2>2. /\ kbd_tail' \in Slot /\ answer' \in Chars \cup {Empty}
        /\ WaitingAreChars' /\ Queue!Get
    BY <1>3, GetStep
  <2>3. TypeOK'
    BY <1>0, <2>1, <2>2 DEF TypeOK
  <2> QED
    BY <2>2, <2>3 DEF Inv, Queue!Next
<1>4. CASE UNCHANGED vars
  <2>1. BufferUnchanged /\ TypeOK'
    BY <1>0, <1>4 DEF vars, BufferUnchanged, TypeOK
  <2> QED
    BY <2>1, BufferKept DEF Inv
<1> QED
  BY <1>1, <1>2, <1>3, <1>4 DEF Next, keyboard_handler

\* The initial buffer is empty.
LEMMA KeyboardInit == Init => Inv /\ Queue!Init
<1> SUFFICES ASSUME Init PROVE Inv /\ Queue!Init
  OBVIOUS
<1>1. 0 \in Slot
  BY KeyboardAssumption DEF Slot
<1>2. TypeOK
  BY <1>1 DEF Init, TypeOK
<1>3. Count = 0
  BY DEF Init, Count
<1>4. WaitingAreChars
  BY <1>3 DEF WaitingAreChars
<1>5. Waiting = <<>>
  BY <1>2, <1>3, <1>4, WaitingSeq, EmptySeq DEF Inv
<1> QED
  BY <1>2, <1>4, <1>5 DEF Inv, Init, Queue!Init

\* For every buffer size the indices stay inside the buffer, and kbd_getchar
\* only ever reads a place that kbd_buffer_push has written.
THEOREM KeyboardInv == Spec => [](TypeOK /\ WaitingAreChars)
<1>1. Init => Inv
  BY KeyboardInit
<1>2. Inv /\ [Next]_vars => Inv'
  BY KeyboardStep
<1>3. Inv => TypeOK /\ WaitingAreChars
  BY DEF Inv
<1> QED
  BY <1>1, <1>2, <1>3, PTL DEF Spec

\* For every buffer size the ring buffer with kbd_buffer_push and kbd_getchar
\* is a first-in first-out queue of KBD_BUF_SIZE - 1 characters.
THEOREM KeyboardIsQueue == Spec => ImplementsQueue
<1>1. Init => Inv /\ Queue!Init
  BY KeyboardInit
<1>2. Inv /\ [Next]_vars => Inv' /\ [Queue!Next]_<<Waiting, answer>>
  BY KeyboardStep
<1> QED
  BY <1>1, <1>2, PTL DEF Spec, ImplementsQueue, Queue!Spec
=============================================================================
