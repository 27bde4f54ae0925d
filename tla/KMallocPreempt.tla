--------------------------- MODULE KMallocPreempt ---------------------------
(***************************************************************************)
(* The kernel heap when free is called with interrupts enabled, as         *)
(* free_task_resources does from reap_zombies_internal: that function has  *)
(* executed sti before it releases the memory of a dead task.  The timer   *)
(* may then switch to another task in the middle of free, and that task's  *)
(* system calls find the list as free has left it.                         *)
(***************************************************************************)
EXTENDS KMalloc

VARIABLE pending    \* the free that is under way: its next statement and block

pvars == <<vars, pending>>

Nothing == [at |-> "idle", h |-> NULL]

\* free_task_resources calls free for a block of the dead task, which nobody
\* else uses any more: h->free = 1.
BeginFree(p) ==
  /\ Intact
  /\ pending = Nothing
  /\ Becomes(Mark(Heap, payload_to_header(p), TRUE))
  /\ held' = Take(held, p)
  /\ pending' = [at |-> "next", h |-> payload_to_header(p)]
  /\ UNCHANGED <<brk_ptr, grown, resized>>

\* The first half of coalesce.
CoalesceNext ==
  /\ Intact
  /\ pending.at = "next"
  /\ pending.h \in DOMAIN blk
  /\ Becomes(IF NextIsFree(blk, pending.h) THEN absorb(Heap, pending.h) ELSE Heap)
  /\ pending' = [pending EXCEPT !.at = "prev"]
  /\ UNCHANGED <<brk_ptr, grown, resized, held>>

\* The second half of coalesce.
CoalescePrev ==
  /\ Intact
  /\ pending.at = "prev"
  /\ pending.h \in DOMAIN blk
  /\ Becomes(IF PrevIsFree(blk, pending.h) THEN absorb(Heap, blk[pending.h].prev) ELSE Heap)
  /\ pending' = Nothing
  /\ UNCHANGED <<brk_ptr, grown, resized, held>>

\* The timer has switched to a task that makes a system call.
Syscall == Next /\ UNCHANGED pending

PInit == Init /\ pending = Nothing

PNext ==
  \/ \E p \in DOMAIN held : BeginFree(p)
  \/ CoalesceNext
  \/ CoalescePrev
  \/ Syscall

PSpec == PInit /\ [][PNext]_pvars

\* reap_zombies "may be called in a background loop" (its comment): a pointer
\* that a system call has returned stays backed by a used block of its own
\* even when the background loop is in the middle of a free.
BackgroundFreeIsSafe == Intact => Backed(blk, held)
=============================================================================
