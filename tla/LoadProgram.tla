---------------------------- MODULE LoadProgram ----------------------------
(***************************************************************************)
(* Starting a program and getting its memory back: load_and_run_program    *)
(* (syscall/syscall.c) takes memory in the .user area, copies a file of    *)
(* /bin there and makes it a task; when the task has exited, whoever calls *)
(* reap_zombies_internal next releases it (multitask/multitask.c).  The    *)
(* .user area is that of UserMalloc.  Of the tasks only what the callers   *)
(* see is kept; Multitask has their ring and their lists as pointers.      *)
(*                                                                         *)
(* A system call runs with interrupts disabled up to the first sti of      *)
(* reap_zombies_internal; from there on other tasks can run between the    *)
(* steps of a pass.  Nothing writes to /bin after boot, so the files are a *)
(* constant.  The kernel heap, from which utask_create takes the task and  *)
(* its stack, may be exhausted at any call.                                *)
(*                                                                         *)
(* The release of a task is one step here.  In the code the timer can      *)
(* interrupt it, also inside user_free; KMallocPreempt shows for the       *)
(* kernel's free, which has the same statements, what then goes wrong.     *)
(* What is shown here is about the order of whole releases and loads.      *)
(***************************************************************************)
EXTENDS BlockList, Sequences

CONSTANTS
  Files,            \* the size of every file in /bin, by its name
  TerminalSize,     \* the size of the file of the terminal
  Slack,            \* what a program gets beyond its size: 1024 bytes
  MaxPid            \* bound: no task is created after the one with this pid

\* The pids of tasks_init, in its order; kmain is 0 and the clock 1.
Terminal == 2

Reaper == 3

Programs == 4 .. MaxPid

\* The tasks that reap.
Reapers == {Terminal, Reaper} \cup Programs

\* The size of a file is 32 bits wide, so the sum with Slack does not wrap
\* around in a size_t.
ASSUME LoadAssumption ==
  /\ TerminalSize \in Nat \ {0} /\ Slack \in Nat
  /\ TerminalSize + Slack + ALIGN <= WORD
  /\ MaxPid \in Nat /\ MaxPid > Reaper
  /\ Files \in [DOMAIN Files -> Nat]
  /\ \A name \in DOMAIN Files : Files[name] + Slack + ALIGN <= WORD

VARIABLES
  area,             \* the .user area: its list of blocks and user_tail
  task,             \* the tasks that have memory in it
  next_pid,
  ring,             \* the pids in the ring of tasks
  zombie_list,
  pass              \* what a task has taken off zombie_list and not released

loadVars == <<area, task, next_pid, ring, zombie_list, pass>>

\* code says whether the bytes of the file are still in memory.
Unborn == [state |-> "unborn", mem |-> NULL, size |-> 0, code |-> "none"]

Live(p) == task[p].state \in {"live", "exiting"}

\* load_and_run_terminal has loaded the terminal into the empty area.
LoadInit ==
  LET r == allocate([blk |-> OneBlock, tail |-> Start], TerminalSize + Slack)
  IN  /\ r.ptr # NULL
      /\ area = r.area
      /\ task = [p \in {Terminal} \cup Programs |->
                   IF p # Terminal THEN Unborn
                   ELSE [state |-> "live", mem |-> r.ptr, size |-> TerminalSize, code |-> "own"]]
      /\ next_pid = Reaper + 1
      /\ ring = {Terminal, Reaper}
      /\ zombie_list = <<>>
      /\ pass = [t \in Reapers |-> <<>>]

-----------------------------------------------------------------------------
\* The tasks after n bytes have been written at address p: those whose file
\* lies there have lost it.
Overwritten(p, n) ==
  [t \in DOMAIN task |->
     IF task[t].mem # NULL /\ ~ Apart(p, n, task[t].mem, task[t].size)
     THEN [task[t] EXCEPT !.code = "spoilt"] ELSE task[t]]

\* No program of that name, or an empty one: -1 or 0 is answered.
NoTask(name, answer) ==
  /\ name \in DOMAIN Files => Files[name] = 0
  /\ answer = IF name = <<>> THEN -1 ELSE 0
  /\ UNCHANGED loadVars

\* Mutant: the memory is kept when there is no task for it.
FailKeepsMemory(r, n) ==
  /\ area' = r.area
  /\ task' = Overwritten(r.ptr, n)
  /\ UNCHANGED <<next_pid, ring>>

\* utask_create fails for want of kernel memory after the file was copied to
\* r.ptr: the memory is given back.
Fail(r, n) ==
  /\ area' = release(r.area, r.ptr)
  /\ task' = Overwritten(r.ptr, n)
  /\ UNCHANGED <<next_pid, ring>>

\* utask_create has made a task of the file.
Loaded(r, n) ==
  /\ next_pid <= MaxPid
  /\ area' = r.area
  /\ task' = [Overwritten(r.ptr, n) EXCEPT ![next_pid] =
                [state |-> "live", mem |-> r.ptr, size |-> n, code |-> "own"]]
  /\ next_pid' = next_pid + 1
  /\ ring' = ring \cup {next_pid}

\* answer is what the system call TASK_CREATE returns.
load_and_run_program(name, answer) ==
  \/ NoTask(name, answer)
  \/ /\ name \in DOMAIN Files /\ Files[name] > 0
     /\ \E r \in {allocate(area, Files[name] + Slack)} :
          \/ r.ptr = NULL /\ answer = 0 /\ UNCHANGED <<area, task, next_pid, ring>>
          \/ r.ptr # NULL /\ answer = 0 /\ Fail(r, Files[name])
          \/ r.ptr # NULL /\ answer = next_pid /\ Loaded(r, Files[name])
     /\ UNCHANGED <<zombie_list, pass>>

-----------------------------------------------------------------------------
\* reap_zombies_internal, called by t: it takes the list ...
ReapBegin(t) ==
  /\ pass' = [pass EXCEPT ![t] = zombie_list]
  /\ zombie_list' = <<>>
  /\ UNCHANGED <<area, next_pid, ring>>

\* ... and for every task on it first takes it out of the ring, ...
ReapUnlink(t) ==
  /\ pass[t] # <<>>
  /\ Head(pass[t]) \in ring
  /\ ring' = ring \ {Head(pass[t])}
  /\ UNCHANGED <<area, task, next_pid, zombie_list, pass>>

\* Mutant: the pointer to the memory is kept.
FreeKeepsPointer(z) ==
  /\ area' = release(area, task[z].mem)
  /\ task' = [task EXCEPT ![z].state = "gone"]

\* The part of free_task_resources that concerns the .user area.
free_task_resources(z) ==
  /\ area' = release(area, task[z].mem)
  /\ task' = [task EXCEPT ![z].state = "gone", ![z].mem = NULL]

\* ... and then releases it.
ReapFree(t) ==
  /\ pass[t] # <<>>
  /\ Head(pass[t]) \notin ring
  /\ free_task_resources(Head(pass[t]))
  /\ pass' = [pass EXCEPT ![t] = Tail(@)]
  /\ UNCHANGED <<next_pid, ring, zombie_list>>

ReapStep(t) == ReapUnlink(t) \/ ReapFree(t)

\* One round of the loop of zombie_reaper_task that finds something to do.
zombie_reaper_task ==
  /\ pass[Reaper] = <<>>
  /\ zombie_list # <<>>
  /\ ReapBegin(Reaper)
  /\ UNCHANGED task

\* A program calls TASK_EXIT, which first reaps ...
task_exit(p) ==
  /\ task[p].state = "live"
  /\ task' = [task EXCEPT ![p].state = "exiting"]
  /\ ReapBegin(p)

\* ... then marks the task and puts it onto zombie_list.  If the timer comes
\* between these two statements the task never gets there (ZombiesAreReleased
\* of Multitask).
ExitMark(p) ==
  /\ task[p].state = "exiting"
  /\ pass[p] = <<>>
  /\ task' = [task EXCEPT ![p].state = "zombie"]
  /\ \/ zombie_list' = <<p>> \o zombie_list
     \/ UNCHANGED zombie_list
  /\ UNCHANGED <<area, next_pid, ring, pass>>

\* Mutant: every task that is in the ring is alive.
InRing(pid) == pid \in ring

\* The answer of task_is_alive, after its call of reap_zombies_internal.
task_is_alive(pid) == pid \in ring /\ Live(pid)

-----------------------------------------------------------------------------
\* The tasks whose memory has not been released.
Holders == {p \in DOMAIN task : task[p].mem # NULL}

\* Every used block of the .user area belongs to one task, which has not been
\* released, and has room for its program: a load that fails half way gives
\* back what it took, and no memory is lost or released twice in whatever order
\* exits, loads and the passes of several reapers come, each release being one
\* step.
OwnedByTasks ==
  /\ {a \in DOMAIN area.blk : ~ area.blk[a].free}
       = {payload_to_header(task[p].mem) : p \in Holders}
  /\ \A p \in Holders :
       /\ area.blk[payload_to_header(task[p].mem)].size >= task[p].size + Slack
       /\ \A q \in Holders \ {p} : task[p].mem # task[q].mem
  /\ WellFormed(area.blk)

\* As long as a program runs, the bytes of its file are where it was loaded:
\* nothing that is loaded later is copied over them.
LoadedIntact ==
  \A p \in DOMAIN task : Live(p) => task[p].mem # NULL /\ task[p].code = "own"
=============================================================================
