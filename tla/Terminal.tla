------------------------------ MODULE Terminal ------------------------------
(***************************************************************************)
(* The terminal (user/terminal.asm) at work: it reads the keyboard, edits  *)
(* a line, starts the program of that name and waits until it has ended.   *)
(* It is composed with LoadProgram and with the queue of KeyQueue, which   *)
(* the ring buffer of the keyboard implements (Keyboard).  Every system    *)
(* call is a step of its own; what the terminal prints is left out, and so *)
(* are the registers that only hold arguments.                             *)
(*                                                                         *)
(* The programs of user/ neither read the keyboard nor start others.  The  *)
(* terminal stops a task only while no other task is inside                *)
(* reap_zombies_internal: what can happen otherwise is shown by TaskStop.  *)
(***************************************************************************)
EXTENDS LoadProgram, FiniteSetsExt, Functions

CONSTANTS
  Capacity,         \* what the keyboard buffer holds
  Keys,             \* the characters the keyboard gives
  InputSize,        \* the size of the input buffer: 8192
  MaxKeys           \* bound: keys hit in a run

ASSUME TerminalAssumption ==
  /\ Capacity \in Nat \ {0} /\ InputSize \in Nat \ {0} /\ MaxKeys \in Nat
  /\ Keys \subseteq {"x", "space", "LF", "BS", "^C"}

Empty == "0"        \* GETCHAR's answer when no key waits

VARIABLES
  waiting, answer,  \* the keyboard's queue, and the last answer of GETCHAR
  pc,               \* the system call the terminal is about to make
  input,            \* the first input_len characters of the input buffer
  r15,              \* the pid of the program started last
  accepted,         \* every key that the queue has accepted
  ran,              \* every line that was given to TASK_CREATE
  high              \* the highest index of the input buffer written to

vars == <<loadVars, waiting, answer, pc, input, r15, accepted, ran, high>>

Queue == INSTANCE KeyQueue WITH Chars <- Keys

\* The terminal has allocated its buffer and printed its prompt.
Init ==
  /\ LoadInit
  /\ Queue!Init
  /\ pc = "getchar"
  /\ input = <<>>
  /\ r15 = 0
  /\ accepted = <<>>
  /\ ran = <<>>
  /\ high = 0

-----------------------------------------------------------------------------
\* A key is hit; see KeyQueue for a full buffer.
KeyHit(k) ==
  /\ Len(accepted) < MaxKeys
  /\ Queue!Put(k)
  /\ accepted' = IF waiting' = waiting THEN accepted ELSE Append(accepted, k)
  /\ UNCHANGED <<loadVars, pc, input, r15, ran, high>>

Wrote(i) == high' = IF i > high THEN i ELSE high

\* The string in the buffer ends at the first NUL.
CString(s) ==
  LET ends == {i \in DOMAIN s : s[i] = "NUL"}
  IN  IF ends = {} THEN s ELSE SubSeq(s, 1, Min(ends) - 1)

\* The character al, which is neither the end of a line nor a backspace.
Store(al) ==
  /\ input' = Append(input, IF al = "space" THEN " " ELSE al)
  /\ Wrote(Len(input))
  /\ pc' = "getchar"

\* Mutant: the length is not set back.
NewLineKeepsInput ==
  /\ Wrote(Len(input))
  /\ ran' = Append(ran, CString(input))
  /\ pc' = "create"
  /\ UNCHANGED input

\* Mutant: the NUL goes behind a line feed.
NewLineStored ==
  /\ Wrote(Len(input) + 1)
  /\ ran' = Append(ran, CString(input))
  /\ input' = <<>>
  /\ pc' = "create"

NewLine ==
  /\ Wrote(Len(input))
  /\ ran' = Append(ran, CString(input))
  /\ input' = <<>>
  /\ pc' = "create"

Backspace ==
  /\ input' = IF input = <<>> THEN input ELSE SubSeq(input, 1, Len(input) - 1)
  /\ UNCHANGED <<pc, high>>

\* GETCHAR, and what the terminal does with the answer.
GetChar ==
  /\ pc = "getchar"
  /\ Queue!Get
  /\ \/ answer' = Empty /\ UNCHANGED <<pc, input, ran, high>>
     \/ answer' = "^C" /\ r15 # 0 /\ pc' = "stop" /\ UNCHANGED <<input, ran, high>>
     \/ answer' = "LF" /\ NewLine
     \/ answer' = "BS" /\ Backspace /\ UNCHANGED ran
     \/ /\ answer' \notin {Empty, "LF", "BS"} /\ (answer' = "^C" => r15 = 0)
        /\ Store(answer') /\ UNCHANGED ran
  /\ UNCHANGED <<loadVars, r15, accepted>>

TaskCreate ==
  /\ pc = "create"
  /\ \E pid \in {-1, 0} \cup Programs :
       /\ load_and_run_program(ran[Len(ran)], pid)
       /\ r15' = IF pid = 0 THEN r15 ELSE pid
       /\ pc' = IF pid = 0 THEN "getchar" ELSE "poll"
  /\ UNCHANGED <<waiting, answer, input, accepted, ran, high>>

\* Mutant: every pid that is not a program's is alive.
PollWaitsForAny ==
  /\ pc = "poll"
  /\ r15 > 0
  /\ ReapBegin(Terminal) /\ pc' = "check"
  /\ UNCHANGED <<task, waiting, answer, input, r15, accepted, ran, high>>

\* TASK_IS_ALIVE: no negative pid is alive, and no zombie is reaped for it; for
\* the others it reaps first.
TaskIsAlive ==
  /\ pc = "poll"
  /\ IF r15 < 0 THEN pc' = "getchar" /\ UNCHANGED <<area, next_pid, ring, zombie_list, pass>>
     ELSE ReapBegin(Terminal) /\ pc' = "check"
  /\ UNCHANGED <<task, waiting, answer, input, r15, accepted, ran, high>>

\* Mutant: the prompt comes back at once.
CheckNothing ==
  /\ pc = "check"
  /\ pass[Terminal] = <<>>
  /\ pc' = "getchar"
  /\ UNCHANGED <<loadVars, waiting, answer, input, r15, accepted, ran, high>>

\* The second half of TASK_IS_ALIVE, and hlt or the prompt.
Check ==
  /\ pc = "check"
  /\ pass[Terminal] = <<>>
  /\ pc' = IF task_is_alive(r15) THEN "poll" ELSE "getchar"
  /\ UNCHANGED <<loadVars, waiting, answer, input, r15, accepted, ran, high>>

\* TASK_STOP(r15): it reaps, ...
TaskStop ==
  /\ pc = "stop"
  /\ ReapBegin(Terminal)
  /\ pc' = "look"
  /\ UNCHANGED <<task, waiting, answer, input, r15, accepted, ran, high>>

\* ... and looks for the task in the ring.  Without one it returns -1, whose
\* low byte the terminal then stores like a character.  Otherwise the task is
\* unlinked and released, and a second pass follows.
StopLook ==
  /\ pc = "look"
  /\ \A t \in Reapers : pass[t] = <<>>
  /\ r15' = 0
  /\ IF r15 \notin ring
     THEN Store("0xFF") /\ UNCHANGED loadVars
     ELSE /\ free_task_resources(r15)
          /\ ring' = ring \ {r15}
          /\ pass' = [pass EXCEPT ![Terminal] = zombie_list]
          /\ zombie_list' = <<>>
          /\ pc' = "stopped"
          /\ UNCHANGED <<next_pid, input, high>>
  /\ UNCHANGED <<waiting, answer, accepted, ran>>

\* TASK_STOP returns 0, which is stored like a character too.
StopDone ==
  /\ pc = "stopped"
  /\ pass[Terminal] = <<>>
  /\ Store("NUL")
  /\ UNCHANGED <<loadVars, waiting, answer, r15, accepted, ran>>

-----------------------------------------------------------------------------
terminalVars == <<waiting, answer, pc, input, r15, accepted, ran, high>>

\* The steps inside reap_zombies_internal and task_exit, of whatever task.
KernelStep(t) ==
  /\ ReapStep(t) \/ (t \in Programs /\ ExitMark(t))
  /\ UNCHANGED terminalVars

ReaperLoop == zombie_reaper_task /\ UNCHANGED terminalVars

Exit(p) == task_exit(p) /\ UNCHANGED terminalVars

TerminalStep ==
  \/ GetChar
  \/ TaskCreate
  \/ TaskIsAlive
  \/ Check
  \/ TaskStop
  \/ StopLook
  \/ StopDone

Next ==
  \/ \E k \in Keys : KeyHit(k)
  \/ TerminalStep
  \/ ReaperLoop
  \/ \E t \in Reapers : KernelStep(t)
  \/ \E p \in Programs : Exit(p)

\* Every task that can run gets the processor again and again (NoStarvation of
\* Multitask).  Nobody has to hit a key, and a program need not exit.
Fairness ==
  /\ WF_vars(TerminalStep)
  /\ WF_vars(ReaperLoop)
  /\ \A t \in Reapers : WF_vars(KernelStep(t))

Spec == Init /\ [][Next]_vars /\ Fairness

-----------------------------------------------------------------------------
\* The terminal's registers and the fields of the tasks go together: a task has
\* memory from its creation until it is released, and is in the ring as long as
\* it lives.
TypeOK ==
  /\ pc \in {"getchar", "create", "poll", "check", "stop", "look", "stopped"}
  /\ r15 \in {-1, 0} \cup Programs
  /\ waiting \in Seq(Keys) /\ Len(waiting) <= Capacity
  /\ next_pid \in Reaper + 1 .. MaxPid + 1
  /\ \A p \in DOMAIN task :
       /\ task[p].mem = NULL <=> task[p].state \in {"unborn", "gone"}
       /\ Live(p) => p \in ring
       /\ p \in ring => task[p].mem # NULL

\* The end of line i among the keys, and the line itself.
EndOf(i) ==
  CHOOSE j \in DOMAIN accepted :
    accepted[j] = "LF" /\ Cardinality({l \in 1 .. j : accepted[l] = "LF"}) = i

Typed(i) == SubSeq(accepted, IF i = 1 THEN 1 ELSE EndOf(i - 1) + 1, EndOf(i) - 1)

\* What the person at the keyboard sees of a line: a backspace has taken back
\* the character before it.
Edit(s, k) ==
  CASE k = "BS"    -> IF s = <<>> THEN s ELSE SubSeq(s, 1, Len(s) - 1)
    [] k = "space" -> Append(s, " ")
    [] OTHER       -> Append(s, k)

Seen(keys) ==
  LET shown[n \in 0 .. Len(keys)] ==
        IF n = 0 THEN <<>> ELSE Edit(shown[n - 1], keys[n])
  IN  shown[Len(keys)]

\* The terminal runs exactly the lines that were typed, in their order and as
\* they were edited, also those that were typed ahead while a program was
\* running.  A line with Ctrl+C is left out: the answer of TASK_STOP ends up
\* in it.
RunsWhatWasTyped ==
  \A i \in DOMAIN ran :
    "^C" \notin Range(Typed(i)) => ran[i] = Seen(Typed(i))

\* As long as no line has InputSize characters or more, the terminal writes
\* inside its input buffer, the NUL at the end included.  It does not look at
\* the length itself.
WritesInsideBuffer ==
  LET Chars(from, to) ==
        Cardinality({j \in from .. to : accepted[j] \notin {"LF", "BS"}})
  IN  (\A from, to \in DOMAIN accepted :
         (\A j \in from .. to : accepted[j] # "LF") => Chars(from, to) < InputSize)
        => high < InputSize

\* When the terminal reads keys, the program it started last has ended for
\* good: the Ctrl+C that it reads stops no program that runs, although r15
\* still holds the pid.
StopsNoLiveTask ==
  pc \in {"getchar", "create", "stop", "look", "stopped"} /\ r15 > 0 => ~ Live(r15)

\* When the program has ended, the prompt comes back, even if the program never
\* got onto zombie_list.
PromptReturns == pc = "poll" /\ ~ (r15 > 0 /\ Live(r15)) ~> pc = "getchar"

\* Every key that waits is read in the end, unless the program that was started
\* never ends.
KeysAreRead == <>[](waiting = <<>> \/ (r15 > 0 /\ Live(r15)))
=============================================================================
