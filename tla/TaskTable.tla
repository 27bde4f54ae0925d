----------------------------- MODULE TaskTable -----------------------------
(***************************************************************************)
(* What multitask.c promises to its callers, without pointers: tasks stand *)
(* in a ring in the order of their creation, the timer gives the processor *)
(* to the next one that can run, a task that has exited never runs again,  *)
(* and its entry is removed later, by somebody else.  Multitask is shown   *)
(* to implement this specification.                                        *)
(***************************************************************************)
EXTENDS Naturals, Sequences

CONSTANT MaxPid     \* bound: no task is created after the one with this pid

VARIABLES
  ring,             \* the pids, in the order in which the timer visits them
  status,           \* what is known of every pid
  running           \* the pid that has the processor, or None

vars == <<ring, status, running>>

Pids == 0 .. MaxPid

None == MaxPid + 1

\* The tasks that tasks_init creates: the clock, the terminal and the reaper.
Boot == 3

Init ==
  /\ ring = [i \in 1 .. Boot + 1 |-> i - 1]
  /\ status = [p \in Pids |-> IF p <= Boot THEN "live" ELSE "unborn"]
  /\ running = None

-----------------------------------------------------------------------------
\* The pids are handed out in order and none is used twice.
Create(p) ==
  /\ running # None
  /\ status[p] = "unborn"
  /\ \A q \in Pids : q < p => status[q] # "unborn"
  /\ ring' = Append(ring, p)
  /\ status' = [status EXCEPT ![p] = "live"]
  /\ UNCHANGED running

\* The pid k places after the one at place i of the ring, for k up to its length.
After(i, k) == ring[IF i + k <= Len(ring) THEN i + k ELSE i + k - Len(ring)]

\* Of the live tasks, the one that comes first after the running one gets the
\* processor; before the first tick the running one is the kernel's main loop,
\* pid 0.
Switch ==
  /\ \E i, k \in DOMAIN ring :
       /\ ring[i] = (IF running = None THEN 0 ELSE running)
       /\ status[After(i, k)] = "live"
       /\ \A j \in 1 .. k - 1 : status[After(i, j)] # "live"
       /\ running' = After(i, k)
  /\ UNCHANGED <<ring, status>>

Exit ==
  /\ running \in Pids \ {0}
  /\ status[running] = "live"
  /\ status' = [status EXCEPT ![running] = "zombie"]
  /\ UNCHANGED <<ring, running>>

\* A task that has exited leaves the ring, once it does not run any more.
Remove(p) ==
  /\ status[p] = "zombie"
  /\ running # p
  /\ \E i \in DOMAIN ring :
       /\ ring[i] = p
       /\ ring' = SubSeq(ring, 1, i - 1) \o SubSeq(ring, i + 1, Len(ring))
  /\ status' = [status EXCEPT ![p] = "gone"]
  /\ UNCHANGED running

Next ==
  \/ \E p \in Pids : Create(p)
  \/ Switch
  \/ Exit
  \/ \E p \in Pids : Remove(p)

Spec == Init /\ [][Next]_vars
=============================================================================
