----------------------------- MODULE BlockList -----------------------------
(***************************************************************************)
(* The doubly linked list of headers that both allocators of the kernel    *)
(* keep inside the memory they manage (malloc/malloc.c for the kernel heap *)
(* and malloc/user_malloc.c for the .user area, which repeats the same     *)
(* code).  A list is a function b from the addresses of its headers to the *)
(* fields of the headers.  Addresses and sizes are in bytes and are those  *)
(* of the LP64 build.  A header whose block has been merged into another   *)
(* leaves the domain of b; MAGIC is therefore "is in DOMAIN b".            *)
(***************************************************************************)
EXTENDS Integers

CONSTANTS Start,    \* _heap_start or _user_start
          Limit,    \* _heap_end or _user_end
          WORD      \* size_t arithmetic is modulo WORD, which is 2^64

NULL == 0

ALIGN == 8

\* uint32_t, size_t, int and two pointers, with their padding.
SizeofHeader == 40

MIN_SPLIT_SIZE == SizeofHeader + ALIGN

\* malloc_init refuses an area smaller than one header; link.ld reserves
\* 128 MiB for each of the two areas, above address 0 and far below 2^64.
ASSUME AreaAssumption ==
  /\ Start \in Nat \ {0}
  /\ Limit \in Nat
  /\ Start + SizeofHeader <= Limit
  /\ WORD \in Nat /\ WORD % ALIGN = 0
  /\ Limit + MIN_SPLIT_SIZE < WORD

\* The sizes a client can ask for.
SizeT == 0 .. WORD - 1

Header == [size : Nat, free : BOOLEAN, prev : Nat, next : Nat]

\* The sum of two values of type size_t.
Plus(m, n) == IF m + n < WORD THEN m + n ELSE m + n - WORD

\* Mutant: rounds down.
AlignDown(n) == (n \div ALIGN) * ALIGN

align_up(n) == (Plus(n, ALIGN - 1) \div ALIGN) * ALIGN

\* What a client that asks for n bytes can count on.  When rounding n up wraps
\* around, align_up(n) is 0 and the block it gets has room for nothing.
Granted(n) == IF n + (ALIGN - 1) < WORD THEN n ELSE 0

header_to_payload(h) == h + SizeofHeader

payload_to_header(p) == p - SizeofHeader

\* The address just behind the payload of the block at h.
BlockEnd(b, h) == h + SizeofHeader + b[h].size

\* The list after initialisation: one free block that is the whole area.
OneBlock ==
  [h \in {Start} |-> [size |-> Limit - Start - SizeofHeader, free |-> TRUE,
                      prev |-> NULL, next |-> NULL]]

\* Mutant: does not look whether a block is free.
FitsUsed(b, size) == {h \in DOMAIN b : b[h].size >= size}

Fits(b, size) == {h \in DOMAIN b : b[h].free /\ b[h].size >= size}

\* First fit.  The list is in address order (WellFormed below), so the first
\* block of the list that fits is the lowest one.
FindFit(b, size) ==
  IF Fits(b, size) = {} THEN NULL
  ELSE CHOOSE h \in Fits(b, size) : \A g \in Fits(b, size) : h <= g

Splits(b, h, req) == b[h].size >= req + MIN_SPLIT_SIZE

\* Mutant: the block behind keeps its link to h.
SplitWithoutPrev(b, h, req) ==
  LET newh == header_to_payload(h) + req
  IN  [a \in DOMAIN b \cup {newh} |->
         IF a = newh THEN [size |-> b[h].size - req - SizeofHeader,
                           free |-> TRUE, prev |-> h, next |-> b[h].next]
         ELSE IF a = h THEN [b[h] EXCEPT !.size = req, !.next = newh]
         ELSE b[a]]

\* Cuts the block at h after req bytes; what is left becomes a free block.
Split(b, h, req) ==
  LET newh == header_to_payload(h) + req
  IN  [a \in DOMAIN b \cup {newh} |->
         IF a = newh THEN [size |-> b[h].size - req - SizeofHeader,
                           free |-> TRUE, prev |-> h, next |-> b[h].next]
         ELSE IF a = h THEN [b[h] EXCEPT !.size = req, !.next = newh]
         ELSE IF a = b[h].next THEN [b[a] EXCEPT !.prev = newh]
         ELSE b[a]]

NextIsFree(b, h) == b[h].next # NULL /\ b[b[h].next].free

\* Mutant: coalesce does not look at free.
PrevExists(b, h) == b[h].prev # NULL

PrevIsFree(b, h) == b[h].prev # NULL /\ b[b[h].prev].free

\* Mutant: the bytes of the header that disappears are lost.
MergeNextWithoutHeader(b, h) ==
  LET n == b[h].next
  IN  [a \in DOMAIN b \ {n} |->
         IF a = h THEN [b[h] EXCEPT !.size = @ + b[n].size, !.next = b[n].next]
         ELSE IF a = b[n].next THEN [b[a] EXCEPT !.prev = h]
         ELSE b[a]]

\* The block at h takes in the block behind it.
MergeNext(b, h) ==
  LET n == b[h].next
  IN  [a \in DOMAIN b \ {n} |->
         IF a = h THEN [b[h] EXCEPT !.size = @ + SizeofHeader + b[n].size,
                                    !.next = b[n].next]
         ELSE IF a = b[n].next THEN [b[a] EXCEPT !.prev = h]
         ELSE b[a]]

SetFree(b, h, f) == [b EXCEPT ![h].free = f]

-----------------------------------------------------------------------------
(***************************************************************************)
(* The functions of the two allocators.  They work on s = [blk, tail], the *)
(* list and the pointer to its last block (heap_tail or user_tail).        *)
(***************************************************************************)
Mark(s, h, f) == [blk |-> SetFree(s.blk, h, f), tail |-> s.tail]

\* Mutant: the tail stays where it was.
SplitKeepsTail(s, h, req) ==
  IF ~ Splits(s.blk, h, req) THEN s
  ELSE [blk |-> Split(s.blk, h, req), tail |-> s.tail]

split_block(s, h, req) ==
  IF ~ Splits(s.blk, h, req) THEN s
  ELSE [blk  |-> Split(s.blk, h, req),
        tail |-> IF s.tail = h THEN header_to_payload(h) + req ELSE s.tail]

\* One half of coalesce: the block at h takes in the block behind it.
absorb(s, h) ==
  [blk  |-> MergeNext(s.blk, h),
   tail |-> IF s.tail = s.blk[h].next THEN h ELSE s.tail]

\* Mutant: only the block behind is merged.
CoalesceNextOnly(s, h) == IF NextIsFree(s.blk, h) THEN absorb(s, h) ELSE s

coalesce(s, h) ==
  LET t == IF NextIsFree(s.blk, h) THEN absorb(s, h) ELSE s
  IN  IF PrevIsFree(t.blk, h) THEN absorb(t, t.blk[h].prev) ELSE t

\* First fit from an initialised list: the pointer returned, and the list.
allocate(s, n) ==
  LET size == align_up(n)
      fit  == FindFit(s.blk, size)
      t    == split_block(s, fit, size)
  IN  IF n = 0 \/ fit = NULL THEN [ptr |-> NULL, area |-> s]
      ELSE [ptr |-> header_to_payload(fit), area |-> Mark(t, fit, FALSE)]

\* The release of a pointer that is held.
release(s, p) ==
  LET h == payload_to_header(p)
  IN  coalesce(Mark(s, h, TRUE), h)

-----------------------------------------------------------------------------
(***************************************************************************)
(* What both allocators rely on: the blocks tile the area in address       *)
(* order, with no gap and no overlap, and the links say so.                *)
(***************************************************************************)
IsList(b) == b = [a \in DOMAIN b |-> b[a]] /\ \A a \in DOMAIN b : b[a] \in Header

InArea(b) == \A a \in DOMAIN b : a \in Nat /\ Start <= a /\ BlockEnd(b, a) <= Limit

Disjoint(b) == \A a, c \in DOMAIN b : a < c => BlockEnd(b, a) <= c

NextLinked(b) ==
  \A a \in DOMAIN b :
    IF BlockEnd(b, a) = Limit THEN b[a].next = NULL
    ELSE /\ b[a].next = BlockEnd(b, a)
         /\ b[a].next \in DOMAIN b
         /\ b[b[a].next].prev = a

PrevLinked(b) ==
  \A a \in DOMAIN b :
    IF a = Start THEN b[a].prev = NULL
    ELSE b[a].prev \in DOMAIN b /\ b[b[a].prev].next = a

WellFormed(b) ==
  /\ IsList(b)
  /\ Start \in DOMAIN b
  /\ InArea(b)
  /\ Disjoint(b)
  /\ NextLinked(b)
  /\ PrevLinked(b)

(***************************************************************************)
(* held maps every pointer that a client has been given and not yet        *)
(* released to the number of bytes the client asked for (see Granted).     *)
(***************************************************************************)
Backed(b, held) ==
  \A p \in DOMAIN held :
    /\ p \in Nat /\ held[p] \in Nat
    /\ payload_to_header(p) \in DOMAIN b
    /\ ~ b[payload_to_header(p)].free
    /\ held[p] <= b[payload_to_header(p)].size

\* A used block is somebody's.
Owned(b, held) ==
  \A a \in DOMAIN b : ~ b[a].free => header_to_payload(a) \in DOMAIN held

\* [p, p + n) and [q, q + m) have no byte in common.
Apart(p, n, q, m) == p + n <= q \/ q + m <= p

\* What a client may write lies in the area, away from every header and from
\* what any other client may write.
Separate(b, held) ==
  \A p \in DOMAIN held :
    /\ Start + SizeofHeader <= p /\ p + held[p] <= Limit
    /\ \A a \in DOMAIN b : Apart(p, held[p], a, SizeofHeader)
    /\ \A q \in DOMAIN held \ {p} : Apart(p, held[p], q, held[q])

Give(held, p, n) == [q \in DOMAIN held \cup {p} |-> IF q = p THEN n ELSE held[q]]

Take(held, p) == [q \in DOMAIN held \ {p} |-> held[q]]

NoFunction == [a \in {} |-> 0]
=============================================================================
