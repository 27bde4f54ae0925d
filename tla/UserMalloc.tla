----------------------------- MODULE UserMalloc -----------------------------
(***************************************************************************)
(* The allocator of the .user area (malloc/user_malloc.c), from which      *)
(* load_and_run_program takes the memory of a program, with interrupts     *)
(* disabled.  An operation is one action.  This holds for every caller but *)
(* free_task_resources, whose user_free can be preempted like its free:    *)
(* KMallocPreempt models that case, on the same list code.  A client       *)
(* releases and resizes only pointers it holds.                            *)
(***************************************************************************)
EXTENDS BlockList, FiniteSets, FiniteSetsExt

CONSTANT Sizes      \* the sizes clients ask for

ASSUME SizesAssumption == Sizes \subseteq SizeT

VARIABLES
  user_head,        \* NULL until the allocator is initialised
  user_tail,
  blk,              \* the headers in the .user area
  held              \* what the clients have been given

vars == <<user_head, user_tail, blk, held>>

Init ==
  /\ user_head = NULL
  /\ user_tail = NULL
  /\ blk = NoFunction
  /\ held = NoFunction

-----------------------------------------------------------------------------
\* The area as user_malloc finds it, after the initialisation it may do.
Ready ==
  IF user_head = NULL THEN [blk |-> OneBlock, tail |-> Start]
  ELSE [blk |-> blk, tail |-> user_tail]

Becomes(s) ==
  /\ user_head' = Start
  /\ user_tail' = s.tail
  /\ blk' = s.blk

-----------------------------------------------------------------------------
user_malloc_init ==
  /\ user_head = NULL
  /\ Becomes([blk |-> OneBlock, tail |-> Start])
  /\ UNCHANGED held

user_malloc(n) ==
  LET r == allocate(Ready, n)
  IN  /\ Becomes(r.area)
      /\ held' = IF r.ptr = NULL THEN held ELSE Give(held, r.ptr, Granted(n))

user_free(p) ==
  /\ Becomes(release(Ready, p))
  /\ held' = Take(held, p)

\* user_realloc(p, 0) is user_free(p) and user_realloc(NULL, n) is
\* user_malloc(n); what follows is the rest of it.
GrowsInPlace(p, n) ==
  LET h == payload_to_header(p)
  IN  /\ NextIsFree(blk, h)
      /\ blk[h].size + SizeofHeader + blk[blk[h].next].size >= align_up(n)

ReallocShrink(p, n) ==
  /\ align_up(n) <= blk[payload_to_header(p)].size
  /\ Becomes(split_block(Ready, payload_to_header(p), align_up(n)))
  /\ held' = Give(held, p, Granted(n))

\* user_tail keeps its value even when the block it points to is taken in.
ReallocGrow(p, n) ==
  LET h == payload_to_header(p)
      s == [blk |-> MergeNext(blk, h), tail |-> user_tail]
      t == split_block(s, h, align_up(n))
  IN  /\ align_up(n) > blk[h].size
      /\ GrowsInPlace(p, n)
      /\ Becomes(Mark(t, h, FALSE))
      /\ held' = Give(held, p, Granted(n))

\* Mutant: the old block is released although there is no new one.
ReallocMoveReleasesFirst(p, n) ==
  LET r == allocate(Ready, align_up(n))
  IN  /\ align_up(n) > blk[payload_to_header(p)].size
      /\ ~ GrowsInPlace(p, n)
      /\ IF r.ptr = NULL
         THEN Becomes(release(Ready, p)) /\ UNCHANGED held
         ELSE /\ Becomes(release(r.area, p))
              /\ held' = Give(Take(held, p), r.ptr, Granted(n))

ReallocMove(p, n) ==
  LET r == allocate(Ready, align_up(n))
  IN  /\ align_up(n) > blk[payload_to_header(p)].size
      /\ ~ GrowsInPlace(p, n)
      /\ IF r.ptr = NULL
         THEN Becomes(Ready) /\ UNCHANGED held
         ELSE /\ Becomes(release(r.area, p))
              /\ held' = Give(Take(held, p), r.ptr, Granted(n))

user_realloc(p, n) ==
  /\ n # 0
  /\ ReallocShrink(p, n) \/ ReallocGrow(p, n) \/ ReallocMove(p, n)

Next ==
  \/ user_malloc_init
  \/ \E n \in Sizes : user_malloc(n)
  \/ \E p \in DOMAIN held : user_free(p)
  \/ \E p \in DOMAIN held, n \in Sizes : user_realloc(p, n)

Spec == Init /\ [][Next]_vars

-----------------------------------------------------------------------------
\* get_usermalloc_stats: the fields that the properties use.
get_usermalloc_stats ==
  [total_managed |-> MapThenSumSet(LAMBDA a : SizeofHeader + blk[a].size, DOMAIN blk),
   num_used      |-> Cardinality({a \in DOMAIN blk : ~ blk[a].free})]

\* The variables of user_malloc.c hold what their declarations say, and the
\* allocator is either untouched or initialised as a whole.
TypeOK ==
  /\ user_head \in {NULL, Start}
  /\ user_tail \in Nat
  /\ IsList(blk)
  /\ held \in [DOMAIN held -> Nat]
  /\ user_head = NULL => DOMAIN blk = {} /\ DOMAIN held = {}

\* The blocks of the .user area tile it in address order and are linked in
\* that order in both directions, whatever splits, merges and resizes were
\* done (split_block, coalesce, user_realloc).
BlocksTileArea == user_head # NULL => WellFormed(blk)

\* The bytes two programs were given never share a byte with each other nor
\* with a header of the list, and lie inside the .user area.
PayloadsSeparate == Separate(blk, held)

\* A pointer a client holds is backed by a used block of at least the size
\* it asked for, and a used block is always some client's: none is lost.  A
\* request whose rounding up wraps around is given a block for 0 bytes.
HeldIsBacked == Backed(blk, held) /\ Owned(blk, held)

\* The statistics account for every byte of the area and count exactly the
\* allocations that are outstanding.
StatsExact ==
  user_head # NULL =>
    /\ get_usermalloc_stats.total_managed = Limit - Start
    /\ get_usermalloc_stats.num_used = Cardinality(DOMAIN held)

\* An operation touches the allocation of at most one client: every other
\* pointer stays held, at its address, in a used block of the same size.
OthersUntouched ==
  [][\E p \in DOMAIN held \cup {NULL} : \A q \in DOMAIN held \ {p} :
       /\ q \in DOMAIN held' /\ held'[q] = held[q]
       /\ blk'[payload_to_header(q)].size = blk[payload_to_header(q)].size]_vars
=============================================================================
