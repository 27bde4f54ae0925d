----------------------------- MODULE KeyQueue ------------------------------
(***************************************************************************)
(* What the keyboard buffer promises: the characters come out in the order *)
(* in which they were put in, each one once, and one is dropped only when  *)
(* Capacity characters are waiting.                                        *)
(***************************************************************************)
EXTENDS Naturals, Sequences

CONSTANTS Capacity, Chars, Empty

VARIABLES
  waiting,          \* the characters that wait to be read
  answer            \* what the last read returned

Init == waiting = <<>> /\ answer = Empty

Put(c) ==
  /\ waiting' = IF Len(waiting) < Capacity THEN Append(waiting, c) ELSE waiting
  /\ UNCHANGED answer

Get ==
  IF waiting = <<>> THEN answer' = Empty /\ UNCHANGED waiting
  ELSE answer' = Head(waiting) /\ waiting' = Tail(waiting)

Next == Get \/ \E c \in Chars : Put(c)

Spec == Init /\ [][Next]_<<waiting, answer>>
=============================================================================
