------------------------------ MODULE TaskStop ------------------------------
(***************************************************************************)
(* task_stop (multitask/multitask.c), on top of Multitask.  It disables    *)
(* interrupts, but the reap_zombies_internal that it calls first enables   *)
(* them again, so that its search of the ring and its unlink_from_ring run *)
(* with interrupts enabled: here every access to a shared pointer is a     *)
(* step of its own, and the timer may come between any two.                *)
(***************************************************************************)
EXTENDS Multitask

CONSTANT Stoppers   \* the pids of the programs that call task_stop

ASSUME StoppersAssumption == Stoppers \subseteq 1 .. MaxPid

VARIABLE locals     \* the locals of task_stop and of its unlink_from_ring

svars == <<vars, locals>>

NoLocals == [pid |-> 0, found |-> NULL, prev |-> NULL, it |-> NULL]

SInit == Init /\ locals = [t \in Task |-> NoLocals]

\* t goes on at pc, with the locals l.
Goto(t, pc, l) ==
  /\ frame' = [frame EXCEPT ![t].pc = pc]
  /\ locals' = [locals EXCEPT ![t] = l]
  /\ UNCHANGED <<current, next_pid>>

task_stop(t, pid) ==
  /\ At(t, "run")
  /\ task[t].entry = "program"
  /\ task[t].pid \in Stoppers
  /\ ReapBegin(t, "stop_find")
  /\ locals' = [locals EXCEPT ![t] = [NoLocals EXCEPT !.pid = pid]]

StopFind(t) ==
  /\ At(t, "stop_find")
  /\ Goto(t, "stop_look", [locals[t] EXCEPT !.it = task[task_ring].next])
  /\ UNCHANGED <<task_ring, zombie_list, task, alloc>>

\* Mutant: the search does not stop after one turn around the ring.
StopLookForever(t) ==
  LET l == locals[t]
  IN  /\ At(t, "stop_look")
      /\ IF task[l.it].pid = l.pid
         THEN Goto(t, "stop_found", [l EXCEPT !.found = l.it])
         ELSE Goto(t, "stop_look", [l EXCEPT !.it = task[l.it].next])
      /\ UNCHANGED <<task_ring, zombie_list, task, alloc>>

\* One turn of the search.
StopLook(t) ==
  LET l == locals[t]
      n == task[l.it].next
  IN  /\ At(t, "stop_look")
      /\ IF task[l.it].pid = l.pid
         THEN Goto(t, "stop_found", [l EXCEPT !.found = l.it])
         ELSE IF n # task[task_ring].next
         THEN Goto(t, "stop_look", [l EXCEPT !.it = n])
         ELSE Goto(t, "run", NoLocals)
      /\ UNCHANGED <<task_ring, zombie_list, task, alloc>>

\* Mutant: the task is released without being unlinked.
StopOtherAtOnce(t) ==
  /\ At(t, "stop_found")
  /\ locals[t].found # t
  /\ Goto(t, "stop_free", locals[t])
  /\ UNCHANGED <<task_ring, zombie_list, task, alloc>>

\* Another task is unlinked and released ...
StopOther(t) ==
  /\ At(t, "stop_found")
  /\ locals[t].found # t
  /\ Goto(t, "stop_unlink", locals[t])
  /\ UNCHANGED <<task_ring, zombie_list, task, alloc>>

\* ... the calling task itself becomes a zombie first.
StopSelf(t) ==
  /\ At(t, "stop_found")
  /\ locals[t].found = t
  /\ task' = [task EXCEPT ![t].state = "ZOMBIE"]
  /\ Goto(t, "self_link", locals[t])
  /\ UNCHANGED <<task_ring, zombie_list, alloc>>

SelfLink(t) ==
  /\ At(t, "self_link")
  /\ task' = [task EXCEPT ![t].znext = zombie_list]
  /\ zombie_list' = t
  /\ Goto(t, "stop_unlink", locals[t])
  /\ UNCHANGED <<task_ring, alloc>>

-----------------------------------------------------------------------------
\* What follows unlink_from_ring(found).
AfterUnlink(t) == IF locals[t].found = t THEN "spin" ELSE "stop_free"

\* The start of unlink_from_ring.  init_task never leaves the ring, so a ring
\* of one task holds nothing to unlink.
StopUnlink(t) ==
  /\ At(t, "stop_unlink")
  /\ IF task[task_ring].next = task_ring THEN Goto(t, AfterUnlink(t), locals[t])
     ELSE Goto(t, "unlink_look",
               [locals[t] EXCEPT !.prev = task_ring, !.it = task[task_ring].next])
  /\ UNCHANGED <<task_ring, zombie_list, task, alloc>>

\* One turn of the loop of unlink_from_ring.
UnlinkLook(t) ==
  LET l == locals[t]
      n == task[l.it].next
  IN  /\ At(t, "unlink_look")
      /\ IF l.it = l.found
         THEN /\ task' = [task EXCEPT ![l.prev].next = n]
              /\ Goto(t, "unlink_tail", l)
         ELSE /\ UNCHANGED task
              /\ IF n # task[task_ring].next
                 THEN Goto(t, "unlink_look", [l EXCEPT !.prev = l.it, !.it = n])
                 ELSE Goto(t, AfterUnlink(t), l)
      /\ UNCHANGED <<task_ring, zombie_list, alloc>>

\* Mutant: task_ring is left pointing to the task that goes.
UnlinkTailForgotten(t) ==
  /\ At(t, "unlink_tail")
  /\ Goto(t, AfterUnlink(t), locals[t])
  /\ UNCHANGED <<task_ring, zombie_list, task, alloc>>

UnlinkTail(t) ==
  /\ At(t, "unlink_tail")
  /\ task_ring' = IF task_ring = locals[t].it THEN locals[t].prev ELSE task_ring
  /\ Goto(t, AfterUnlink(t), locals[t])
  /\ UNCHANGED <<zombie_list, task, alloc>>

\* free_task_resources(found).
StopFree(t) ==
  /\ At(t, "stop_free")
  /\ alloc' = alloc \ {locals[t].found}
  /\ Goto(t, "stop_reap", NoLocals)
  /\ UNCHANGED <<task_ring, zombie_list, task>>

StopReap(t) ==
  /\ At(t, "stop_reap")
  /\ ReapBegin(t, "run")
  /\ UNCHANGED locals

-----------------------------------------------------------------------------
StopStep(t) ==
  \/ StopFind(t) \/ StopLook(t) \/ StopOther(t)
  \/ StopUnlink(t) \/ UnlinkLook(t) \/ UnlinkTail(t)
  \/ StopFree(t) \/ StopReap(t)

Others(t) == utask_create(t) \/ reap_zombies(t)

\* Programs are created and stopped by one another, and none exits by itself.
SNext ==
  \/ schedule_from_isr /\ UNCHANGED locals
  \/ \E t \in Task :
       \/ StopStep(t)
       \/ (KernelStep(t) \/ Others(t)) /\ UNCHANGED locals
       \/ \E pid \in (1 .. MaxPid) \ {task[t].pid} : task_stop(t, pid)

SFairness ==
  /\ WF_svars(schedule_from_isr /\ UNCHANGED locals)
  /\ \A t \in Task : SF_svars(StopStep(t) \/ (KernelStep(t) /\ UNCHANGED locals))

StopSpec == SInit /\ [][SNext]_svars /\ SFairness

\* In addition, programs exit and stop themselves: all that programs can do.
AnyStopSpec ==
  SInit /\ [][\/ SNext
             \/ \E t \in Task :
                  \/ task_exit(t) /\ UNCHANGED locals
                  \/ StopSelf(t) \/ SelfLink(t) \/ task_stop(t, task[t].pid)]_svars

-----------------------------------------------------------------------------
\* As long as no program exits by itself, a ring that task_stop changes with
\* interrupts enabled is a cycle in every state that the timer can see: it
\* holds init_task and every allocated task except the one being stopped, and
\* ends at task_ring unless that is still to be corrected.
StopKeepsRing ==
  LET leaving == {locals[t].found : t \in {r \in Task :
                    frame[r].pc \in {"unlink_tail", "stop_free"}}}
  IN  /\ IsInjective(Ring)
      /\ InRing = ({InitTask} \cup alloc) \ leaving
      /\ Ring[Len(Ring)] = task_ring \/ task_ring \in leaving

\* A call of task_stop that returns success leaves no task with that pid, and
\* the task that had it was released only after it had left the ring.
StopKills ==
  [][\A t \in Task : At(t, "stop_free") /\ alloc' # alloc =>
       /\ locals[t].found \in alloc \ InRing
       /\ \A p \in 1 .. MaxPid : p = locals[t].pid => ~ task_is_alive(p)']_svars

\* A call of task_stop ends, whatever the timer does meanwhile.
StopReturns ==
  \A t \in Task : (frame[t].pc = "stop_find") ~> (frame[t].pc = "run")

\* "Now unlink is safe, the ring is not corrupted" (reap_zombies_internal):
\* whoever is about to unlink a zombie finds task_ring and the whole ring in
\* memory that has not been released, as one cycle.
UnlinkFindsRingIntact ==
  \A t \in Task : At(t, "unlink") =>
    /\ IsInjective(Ring)
    /\ InRing \cup {task_ring} \subseteq {InitTask} \cup alloc
=============================================================================
