----------------------------- MODULE Multitask -----------------------------
(***************************************************************************)
(* The scheduler and the life of tasks (multitask/multitask.c), at the     *)
(* level of its pointers.  There is one processor: only current takes      *)
(* steps, and the timer interrupt may come between any two of them when    *)
(* interrupts are enabled.  Code that runs with interrupts disabled is     *)
(* part of one action.  A system call enters with interrupts disabled, but *)
(* reap_zombies_internal executes sti, so that what task_exit does after   *)
(* it can be preempted.  task_stop is in TaskStop.                         *)
(*                                                                         *)
(* A task_t is a slot of the heap, and its kernel stack and its user       *)
(* memory go with it.  A released slot keeps its contents until it is      *)
(* allocated again, as memory does.                                        *)
(***************************************************************************)
EXTENDS Naturals, Sequences, Functions

CONSTANTS
  Slots,            \* how many task_t there is memory for
  MaxPid            \* bound: no task is created after the one with this pid

ASSUME BoundsAssumption ==
  /\ Slots \in Nat /\ 3 <= Slots
  /\ MaxPid \in Nat /\ 3 <= MaxPid

VARIABLES
  task_ring,        \* the tail of the ring
  current,
  next_pid,
  zombie_list,
  task,             \* the contents of init_task and of every slot
  alloc,            \* the slots that malloc has given out
  frame             \* what the kernel stack of a task holds: where the task
                    \* will go on, and the locals of the functions it is in

vars == <<task_ring, current, next_pid, zombie_list, task, alloc, frame>>

InitTask == 0

Task == 0 .. Slots

NULL == Slots + 1

Pointer == Task \cup {NULL}

\* A program runs in user mode and may make any system call; the clock task
\* and kmain's loop make none.
Entries == {"kmain", "user_task1", "program", "zombie_reaper_task"}

\* The statements at which the timer can find a task; the last two lines are
\* those of task_stop.
PCs == {"run", "unlink", "free", "exit_mark", "exit_link", "spin",
        "stop_find", "stop_look", "stop_found", "self_link", "stop_unlink",
        "unlink_look", "unlink_tail", "stop_free", "stop_reap"}

\* ret is where to go on after reap_zombies_internal.
Frame == [pc : PCs, z : Pointer, next_z : Pointer, ret : PCs]

Runnable == {"RUNNING", "READY"}

NewFrame == [pc |-> "run", z |-> NULL, next_z |-> NULL, ret |-> "run"]

NewTask(pid, entry, next) ==
  [pid |-> pid, state |-> "READY", next |-> next, znext |-> NULL, entry |-> entry]

\* scheduler_init and tasks_init: init_task and three tasks behind it.
Init ==
  /\ task_ring = 3
  /\ current = NULL
  /\ next_pid = 4
  /\ zombie_list = NULL
  /\ task = [t \in Task |->
       CASE t = InitTask -> [NewTask(0, "kmain", 1) EXCEPT !.state = "RUNNING"]
         [] t = 1        -> NewTask(1, "user_task1", 2)
         [] t = 2        -> NewTask(2, "program", 3)
         [] t = 3        -> NewTask(3, "zombie_reaper_task", InitTask)
         [] OTHER        -> NewTask(0, "program", NULL)]
  /\ alloc = 1 .. 3
  /\ frame = [t \in Task |-> NewFrame]

-----------------------------------------------------------------------------
\* The loops over the ring: the first task from p on that is one of tasks, or
\* NULL.  Slots + 1 steps lead around a ring of all tasks.
Find(p, tasks) ==
  LET it[n \in 0 .. Slots + 1] == [q \in Pointer |->
        IF q = NULL \/ n = 0 THEN NULL
        ELSE IF q \in tasks THEN q ELSE it[n - 1][task[q].next]]
  IN  it[Slots + 1][p]

CanRun == {t \in Task : task[t].state \in Runnable}

\* Mutant: the search always starts at the head of the ring.
PickFirst == Find(task[task_ring].next, CanRun)

\* Before the first tick current is NULL; schedule_from_isr then sets it to
\* init_task before it calls pick_next.
pick_next == Find(task[IF current = NULL THEN InitTask ELSE current].next, CanRun)

\* Mutant: whatever its state, the task that loses the processor is READY.
AlwaysReady ==
  [t \in Task |-> IF t = current THEN [task[t] EXCEPT !.state = "READY"] ELSE task[t]]

\* The running task becomes READY.  One that is not RUNNING (a zombie) keeps
\* its state; init_task keeps RUNNING at the very first tick.
Preempted ==
  [t \in Task |-> IF t = current /\ task[t].state = "RUNNING"
                  THEN [task[t] EXCEPT !.state = "READY"] ELSE task[t]]

\* The timer interrupt.
schedule_from_isr ==
  LET next == pick_next
  IN  /\ next # NULL
      /\ current' = next
      /\ task' = [Preempted EXCEPT ![next].state = "RUNNING"]
      /\ UNCHANGED <<task_ring, next_pid, zombie_list, alloc, frame>>

-----------------------------------------------------------------------------
\* t is the running task and is about to execute the statement pc.
At(t, pc) == current = t /\ frame[t].pc = pc

\* The new task, linked behind the tail.
Insert(s) ==
  [task EXCEPT ![s] = NewTask(next_pid, "program", task[task_ring].next),
               ![task_ring].next = s]

\* Mutant: the new task does not become the tail.
SameTail(s) == task_ring

NewTail(s) == s

\* utask_create, called by load_and_run_program with interrupts disabled.
\* Addresses are only compared for equality, so any free slot will do; without
\* one the call returns 0 and changes nothing.
utask_create(t) ==
  /\ At(t, "run")
  /\ task[t].entry = "program"
  /\ next_pid <= MaxPid
  /\ \E s \in (1 .. Slots) \ alloc :
       /\ \A r \in (1 .. Slots) \ alloc : s <= r
       /\ task' = Insert(s)
       /\ frame' = [frame EXCEPT ![s] = NewFrame]
       /\ alloc' = alloc \cup {s}
       /\ task_ring' = NewTail(s)
  /\ next_pid' = next_pid + 1
  /\ UNCHANGED <<current, zombie_list>>

\* Mutant: task_ring is left pointing to the task that goes.
UnlinkKeepsTail(t) ==
  LET prev == Find(task_ring, {p \in Task : task[p].next = t})
  IN  [task |-> [task EXCEPT ![prev].next = task[t].next], ring |-> task_ring]

\* The ring without t: the contents of the tasks and the tail.
unlink_from_ring(t) ==
  LET prev == Find(task_ring, {p \in Task : task[p].next = t})
      same == [task |-> task, ring |-> task_ring]
  IN  IF prev = NULL THEN same
      ELSE IF task[task_ring].next = task_ring
      THEN IF t = InitTask THEN same
           ELSE [task |-> [task EXCEPT ![InitTask].next = InitTask], ring |-> InitTask]
      ELSE [task |-> [task EXCEPT ![prev].next = task[t].next],
            ring |-> IF task_ring = t THEN prev ELSE task_ring]

\* Mutant: zombie_list is not cleared.
ReapBeginKeepsList(t, ret) ==
  /\ frame' = [frame EXCEPT ![t] =
                 [pc |-> IF zombie_list = NULL THEN ret ELSE "unlink",
                  z |-> zombie_list, next_z |-> NULL, ret |-> ret]]
  /\ UNCHANGED <<task_ring, current, next_pid, zombie_list, task, alloc>>

\* The first statements of reap_zombies_internal, up to its first sti.  With
\* an empty list it returns at once.
ReapBegin(t, ret) ==
  /\ frame' = [frame EXCEPT ![t] =
                 [pc |-> IF zombie_list = NULL THEN ret ELSE "unlink",
                  z |-> zombie_list, next_z |-> NULL, ret |-> ret]]
  /\ zombie_list' = NULL
  /\ UNCHANGED <<task_ring, current, next_pid, task, alloc>>

\* Mutant: the reaper task does not get to its loop.
ReapsForPrograms(t) ==
  /\ At(t, "run")
  /\ task[t].entry = "program"
  /\ ReapBegin(t, "run")

\* The loop of the reaper task, and the system calls REAP_ZOMBIES and
\* TASK_IS_ALIVE; the latter then only reads the ring (task_is_alive below).
reap_zombies(t) ==
  /\ At(t, "run")
  /\ task[t].entry \in {"program", "zombie_reaper_task"}
  /\ ReapBegin(t, "run")

ReapUnlink(t) ==
  LET z == frame[t].z
      u == unlink_from_ring(z)
  IN  /\ At(t, "unlink")
      /\ task' = u.task
      /\ task_ring' = u.ring
      /\ frame' = [frame EXCEPT ![t].pc = "free", ![t].next_z = task[z].znext]
      /\ UNCHANGED <<current, next_pid, zombie_list, alloc>>

\* free_task_resources, and the step to the next zombie.
ReapFree(t) ==
  LET z == frame[t].next_z
  IN  /\ At(t, "free")
      /\ alloc' = alloc \ {frame[t].z}
      /\ frame' = [frame EXCEPT ![t] =
                     [pc |-> IF z = NULL THEN frame[t].ret ELSE "unlink",
                      z |-> z, next_z |-> NULL, ret |-> frame[t].ret]]
      /\ UNCHANGED <<task_ring, current, next_pid, zombie_list, task>>

task_exit(t) ==
  /\ At(t, "run")
  /\ task[t].entry = "program"
  /\ ReapBegin(t, "exit_mark")

ExitMark(t) ==
  /\ At(t, "exit_mark")
  /\ task' = [task EXCEPT ![t].state = "ZOMBIE"]
  /\ frame' = [frame EXCEPT ![t].pc = "exit_link"]
  /\ UNCHANGED <<task_ring, current, next_pid, zombie_list, alloc>>

\* add_to_zombie_list; back in the program, the task waits to be switched away.
ExitLink(t) ==
  /\ At(t, "exit_link")
  /\ task' = [task EXCEPT ![t].znext = zombie_list]
  /\ zombie_list' = t
  /\ frame' = [frame EXCEPT ![t].pc = "spin"]
  /\ UNCHANGED <<task_ring, current, next_pid, alloc>>

-----------------------------------------------------------------------------
\* The statements a task executes inside a system call.
KernelStep(t) == ReapUnlink(t) \/ ReapFree(t) \/ ExitMark(t) \/ ExitLink(t)

SystemCall(t) == utask_create(t) \/ reap_zombies(t) \/ task_exit(t)

Next ==
  \/ schedule_from_isr
  \/ \E t \in Task : KernelStep(t) \/ SystemCall(t)

\* The timer never stops, and a task that gets the processor again and again
\* gets on with the system call it is in: the timer leaves it a millisecond.
\* The reaper's loop is kernel code and goes on in the same way; init_task
\* makes no system call, and programs need not make any.
Fairness ==
  /\ WF_vars(schedule_from_isr)
  /\ \A t \in 1 .. Slots : SF_vars(KernelStep(t))
  /\ SF_vars(\E t \in Task : task[t].entry = "zombie_reaper_task" /\ reap_zombies(t))

Spec == Init /\ [][Next]_vars /\ Fairness
-----------------------------------------------------------------------------
\* Mutant: a zombie counts as alive.
IsInRing(pid) == Find(task[task_ring].next, {t \in Task : task[t].pid = pid}) # NULL

\* task_is_alive after its call of reap_zombies_internal, with interrupts
\* disabled again: the first task of the ring with this pid decides.
task_is_alive(pid) ==
  LET found == Find(task[task_ring].next, {t \in Task : task[t].pid = pid})
  IN  IF found = NULL THEN FALSE ELSE task[found].state # "ZOMBIE"

\* The tasks in the order in which the loops over the ring visit them.
Ring ==
  LET from[n \in 0 .. Slots] == [q \in Task |->
        IF n = 0 \/ task[q].next \in {NULL, task[task_ring].next} THEN <<q>>
        ELSE <<q>> \o from[n - 1][task[q].next]]
  IN  from[Slots][task[task_ring].next]

InRing == Range(Ring)

\* The tasks on the list that starts at z.
Listed(z) ==
  LET from[n \in 0 .. Slots + 1] == [q \in Pointer |->
        IF q = NULL \/ n = 0 THEN {} ELSE {q} \cup from[n - 1][task[q].znext]]
  IN  from[Slots + 1][z]

\* The tasks that t has taken off zombie_list and not released yet.
Reaping(t) ==
  CASE frame[t].pc = "unlink" -> Listed(frame[t].z)
    [] frame[t].pc = "free"   -> {frame[t].z} \cup Listed(frame[t].next_z)
    [] OTHER                  -> {}

\* The variables of multitask.c hold what their declarations say.
TypeOK ==
  /\ task_ring \in Task
  /\ current \in Pointer
  /\ next_pid \in 4 .. MaxPid + 1
  /\ zombie_list \in Pointer
  /\ task \in [Task -> [pid : 0 .. MaxPid, state : Runnable \cup {"ZOMBIE"},
                        next : Pointer, znext : Pointer, entry : Entries]]
  /\ alloc \subseteq 1 .. Slots
  /\ frame \in [Task -> Frame]

\* Whatever tasks are created, exit and are reaped in the meantime, the ring
\* that the timer interrupt walks is one cycle that ends at task_ring, holds
\* init_task and otherwise only tasks whose memory has not been released, and
\* every task whose memory has not been released, save the ones that a reaper
\* has just unlinked (unlink_from_ring, free_task_resources).
RingIntact ==
  /\ TypeOK
  /\ Ring[Len(Ring)] = task_ring
  /\ IsInjective(Ring)
  /\ InRing = ({InitTask} \cup alloc)
                \ {frame[t].z : t \in {r \in Task : frame[r].pc = "free"}}

\* A zombie that is waiting to be released is known to one list or to one
\* reaper only, has exited, is not running and is still allocated: nothing is
\* released twice, nor while it is in use.
ZombiesOwnedOnce ==
  /\ \A t \in Task :
       /\ Reaping(t) \cap Listed(zombie_list) = {}
       /\ \A r \in Task \ {t} : Reaping(t) \cap Reaping(r) = {}
       /\ current \notin Reaping(t)
       /\ Reaping(t) \subseteq alloc
       /\ \A z \in Reaping(t) : task[z].state = "ZOMBIE"
  /\ \A z \in Listed(zombie_list) : z \in alloc /\ task[z].state = "ZOMBIE"

\* task_is_alive tells the truth (its comment): it finds a pid alive exactly
\* if a task with that pid has not exited.
AliveIsExact ==
  \A p \in 1 .. MaxPid :
    task_is_alive(p) <=> \E t \in alloc : task[t].pid = p /\ task[t].state # "ZOMBIE"

\* Once task_is_alive says that a task has ended, it never says the opposite
\* of that pid again: the terminal may rely on the answer.
DeadStaysDead ==
  [][\A p \in 1 .. next_pid - 1 : ~ task_is_alive(p) => ~ task_is_alive(p)']_vars

\* A task that can run gets the processor, however the others behave, as long
\* as only finitely many tasks are created.
NoStarvation ==
  \A t \in Task :
    (t \in {InitTask} \cup alloc /\ task[t].state = "READY") ~> (current = t)

\* The zombies that wait to be released.
Waiting == Listed(zombie_list) \cup UNION {Reaping(t) : t \in Task}

\* A zombie that waits to be released is not forgotten: it waits until its
\* memory is released (add_to_zombie_list, reap_zombies_internal).
NoneForgotten == [][\A t \in Waiting : t \in Waiting' \/ t \notin alloc']_vars

\* The zombies that reach zombie_list are released: none of them is forgotten
\* on the way, and as long as only finitely many tasks are created there comes
\* a moment when none is waiting any more.
ListedAreReleased == NoneForgotten /\ (Waiting # {} ~> Waiting = {})

\* zombie_list is there so that zombies are cleaned up later (its comment):
\* the memory of every task that exits is released in the end.
ZombiesAreReleased ==
  \A t \in 1 .. Slots : (t \in alloc /\ task[t].state = "ZOMBIE") ~> (t \notin alloc)

-----------------------------------------------------------------------------
\* The pids of the ring, in order.
PidRing == [i \in DOMAIN Ring |-> task[Ring[i]].pid]

PidStatus ==
  LET StateOf(p) == {task[t].state : t \in {r \in InRing : task[r].pid = p}}
  IN  [p \in 0 .. MaxPid |->
         IF p >= next_pid THEN "unborn"
         ELSE IF StateOf(p) = {} THEN "gone"
         ELSE IF StateOf(p) = {"ZOMBIE"} THEN "zombie" ELSE "live"]

Table == INSTANCE TaskTable WITH
  ring    <- PidRing,
  status  <- PidStatus,
  running <- IF current = NULL THEN MaxPid + 1 ELSE task[current].pid

\* The pointers implement the table of tasks.
ImplementsTaskTable == Table!Spec
=============================================================================
