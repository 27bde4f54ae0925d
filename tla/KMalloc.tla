------------------------------ MODULE KMalloc ------------------------------
(***************************************************************************)
(* The kernel heap (malloc/malloc.c), behind the malloc, realloc and free  *)
(* system calls.  A system call runs with interrupts disabled, so each     *)
(* operation is one action; KMallocPreempt looks at the one caller that    *)
(* runs with interrupts enabled.  A client releases and resizes only       *)
(* pointers it holds.                                                      *)
(*                                                                         *)
(* heap_expand writes a header below brk_ptr, that is, into memory that    *)
(* the list already covers (malloc_init sets brk_ptr to the end of the one *)
(* block that is the whole heap).  What later operations do depends on     *)
(* what the clients wrote there, so a behaviour of this module ends with   *)
(* the first heap_expand that succeeds: grown says which headers it wrote. *)
(***************************************************************************)
EXTENDS BlockList, FiniteSets, FiniteSetsExt

CONSTANT Sizes      \* the sizes clients ask for

ASSUME SizesAssumption == Sizes \subseteq SizeT

VARIABLES
  blk,              \* the headers reachable from heap_head
  heap_tail,
  brk_ptr,
  held,             \* what the clients have been given
  grown,            \* the headers that heap_expand has written
  resized           \* has realloc ever resized a block in place?

vars == <<blk, heap_tail, brk_ptr, held, grown, resized>>

malloc_init ==
  /\ blk = OneBlock
  /\ heap_tail = Start
  /\ brk_ptr = Limit
  /\ held = NoFunction
  /\ grown = {}
  /\ resized = FALSE

Init == malloc_init

Heap == [blk |-> blk, tail |-> heap_tail]

Intact == grown = {}

Becomes(s) == blk' = s.blk /\ heap_tail' = s.tail

-----------------------------------------------------------------------------
\* What heap_expand asks simple_morecore for, on behalf of malloc(n).
Need(n) == align_up(Plus(align_up(n), SizeofHeader))

\* brk_ptr after i calls of simple_morecore.
Morecore(n, i) == brk_ptr - i * Need(n)

\* The test of simple_morecore.  A difference below 0 is an address at the very
\* top of the address space, above _heap_start, and passes it.
Served(a) == a >= Start \/ a < 0

Address(a) == IF a < 0 THEN a + WORD ELSE a

CanExpand(n) == Served(Morecore(n, 1))

\* The new block is linked behind heap_tail.  If that is a block of the list,
\* find_fit finds the new one and malloc returns it.  If it is a header that
\* realloc has merged away, find_fit never sees the new block, and malloc calls
\* heap_expand again until the area is exhausted, and fails (never, if Need is
\* 0: then the call does not return, and there is no step).  A header at the
\* top of the address space is where there is no memory: writing it faults.
heap_expand(n) ==
  \E calls \in 1 .. brk_ptr + 1 :
    LET last == Morecore(n, calls)
    IN  /\ heap_tail \in DOMAIN blk => calls = 1
        /\ Morecore(n, calls - 1) >= Start
        /\ \/ /\ last >= Start
              /\ heap_tail \in DOMAIN blk
              /\ held' = Give(held, header_to_payload(last), Granted(n))
           \/ /\ last >= Start
              /\ heap_tail \notin DOMAIN blk
              /\ ~ Served(Morecore(n, calls + 1))
              /\ UNCHANGED held
           \/ last < 0 /\ UNCHANGED held
        /\ brk_ptr' = Address(last)
        /\ grown' = {Address(Morecore(n, i)) : i \in 1 .. calls}
        /\ heap_tail' = brk_ptr'
        /\ UNCHANGED <<blk, resized>>

malloc(n) ==
  LET r == allocate(Heap, n)
  IN  /\ Intact
      /\ IF r.ptr # NULL
         THEN /\ Becomes(r.area)
              /\ held' = Give(held, r.ptr, Granted(n))
              /\ UNCHANGED <<brk_ptr, grown, resized>>
         ELSE IF n # 0 /\ CanExpand(n) THEN heap_expand(n)
         ELSE UNCHANGED vars

free(p) ==
  /\ Intact
  /\ Becomes(release(Heap, p))
  /\ held' = Take(held, p)
  /\ UNCHANGED <<brk_ptr, grown, resized>>

-----------------------------------------------------------------------------
\* realloc(p, 0) is free(p) and realloc(NULL, n) is malloc(n); what follows is
\* the rest of it.

\* The free blocks right behind h whose end is far enough for size bytes.
Reaching(b, h, size) ==
  {g \in DOMAIN b : /\ g > h
                    /\ \A c \in DOMAIN b : h < c /\ c <= g => b[c].free
                    /\ BlockEnd(b, g) - header_to_payload(h) >= size}

\* The last block the two loops of realloc take in.
LastMerged(b, h, size) ==
  CHOOSE g \in Reaching(b, h, size) : \A c \in Reaching(b, h, size) : g <= c

\* Mutant: the block behind keeps its link to a block that is gone.
MergeThroughWithoutPrev(b, h, g) ==
  [a \in {a \in DOMAIN b : a <= h \/ a > g} |->
     IF a = h THEN [b[h] EXCEPT !.size = BlockEnd(b, g) - header_to_payload(h),
                                !.next = b[g].next]
     ELSE b[a]]

\* The block at h takes in all blocks behind it up to g.
MergeThrough(b, h, g) ==
  LET to == b[g].next
  IN  [a \in {a \in DOMAIN b : a <= h \/ a > g} |->
         IF a = h THEN [b[h] EXCEPT !.size = BlockEnd(b, g) - header_to_payload(h),
                                    !.next = to]
         ELSE IF a = to THEN [b[a] EXCEPT !.prev = h]
         ELSE b[a]]

GrowsInPlace(p, n) == Reaching(blk, payload_to_header(p), align_up(n)) # {}

ReallocShrink(p, n) ==
  /\ align_up(n) <= blk[payload_to_header(p)].size
  /\ Becomes(split_block(Heap, payload_to_header(p), align_up(n)))
  /\ held' = Give(held, p, Granted(n))
  /\ resized' = TRUE
  /\ UNCHANGED <<brk_ptr, grown>>

\* heap_tail keeps its value even when the block it points to is taken in.
ReallocGrow(p, n) ==
  LET h == payload_to_header(p)
      g == LastMerged(blk, h, align_up(n))
      s == [blk |-> MergeThrough(blk, h, g), tail |-> heap_tail]
      t == split_block(s, h, align_up(n))
  IN  /\ align_up(n) > blk[h].size
      /\ GrowsInPlace(p, n)
      /\ Becomes(Mark(t, h, FALSE))
      /\ held' = Give(held, p, Granted(n))
      /\ resized' = TRUE
      /\ UNCHANGED <<brk_ptr, grown>>

\* When the inner malloc expands the heap the behaviour ends with it.
ReallocMove(p, n) ==
  LET r == allocate(Heap, align_up(n))
  IN  /\ align_up(n) > blk[payload_to_header(p)].size
      /\ ~ GrowsInPlace(p, n)
      /\ IF r.ptr # NULL
         THEN /\ Becomes(release(r.area, p))
              /\ held' = Give(Take(held, p), r.ptr, Granted(n))
              /\ UNCHANGED <<brk_ptr, grown, resized>>
         ELSE IF CanExpand(n) THEN heap_expand(n)
         ELSE UNCHANGED vars

realloc(p, n) ==
  /\ Intact
  /\ n # 0
  /\ ReallocShrink(p, n) \/ ReallocGrow(p, n) \/ ReallocMove(p, n)

Next ==
  \/ \E n \in Sizes : malloc(n)
  \/ \E p \in DOMAIN held : free(p)
  \/ \E p \in DOMAIN held, n \in Sizes : realloc(p, n)

Spec == Init /\ [][Next]_vars

-----------------------------------------------------------------------------
\* get_kmalloc_stats: the fields that the properties use.
get_kmalloc_stats ==
  [total_managed |-> MapThenSumSet(LAMBDA a : SizeofHeader + blk[a].size, DOMAIN blk),
   num_used      |-> Cardinality({a \in DOMAIN blk : ~ blk[a].free})]

\* The variables of malloc.c hold what their declarations say.
TypeOK ==
  /\ IsList(blk)
  /\ heap_tail \in Nat
  /\ brk_ptr \in Nat
  /\ held \in [DOMAIN held -> Nat]
  /\ grown \subseteq Nat
  /\ resized \in BOOLEAN

\* Until heap_expand first succeeds, the blocks tile the heap in address order
\* and are linked in that order in both directions, whatever splits, merges
\* and resizes were done.
BlocksTileHeap == Intact => brk_ptr = Limit /\ WellFormed(blk)

\* Until then, the bytes two clients were given never share a byte with each
\* other nor with a header, and lie inside the heap.
PayloadsSeparate == Intact => Separate(blk, held)

\* Until then, a pointer a client holds is backed by a used block of at least
\* the size asked for, and a used block is always some client's.  A request
\* whose rounding up wraps around is given a block for 0 bytes.
HeldIsBacked == Intact => Backed(blk, held) /\ Owned(blk, held)

\* Until then, the statistics account for every byte of the heap and count
\* exactly the allocations that are outstanding.
StatsExact ==
  Intact => /\ get_kmalloc_stats.total_managed = Limit - Start
            /\ get_kmalloc_stats.num_used = Cardinality(DOMAIN held)

\* malloc and free alone (no resize in place) never leave two neighbouring
\* blocks that are both free: coalesce merges enough.
FreeBlocksMerged ==
  Intact /\ ~ resized => \A a \in DOMAIN blk : blk[a].free => ~ NextIsFree(blk, a)

\* As long as realloc never resizes in place, heap_tail is the last block, so
\* that a block heap_expand adds can be found again.
TailIsLast ==
  Intact /\ ~ resized => heap_tail \in DOMAIN blk /\ blk[heap_tail].next = NULL
=============================================================================
