--------------------------- MODULE KMallocProofs ---------------------------
(***************************************************************************)
(* Until heap_expand first succeeds, the kernel heap keeps its blocks      *)
(* tiling the heap and its clients apart, for every heap and every set of  *)
(* request sizes.                                                          *)
(***************************************************************************)
EXTENDS KMalloc, BlockListProofs

\* Merging the free blocks behind h up to g keeps the list well formed, and
\* every used block but h.
LEMMA MergeThroughWF ==
  ASSUME NEW b, WellFormed(b), NEW h \in DOMAIN b, NEW g \in DOMAIN b, h < g,
         \A c \in DOMAIN b : h < c /\ c <= g => b[c].free
  PROVE  /\ WellFormed(MergeThrough(b, h, g))
         /\ h \in DOMAIN MergeThrough(b, h, g)
         /\ MergeThrough(b, h, g)[h].size = BlockEnd(b, g) - header_to_payload(h)
         /\ SameUsed(b, MergeThrough(b, h, g), h)
<1> DEFINE c == MergeThrough(b, h, g)
           to == b[g].next
           k == BlockEnd(b, g) - header_to_payload(h)
<1>0. /\ \A a \in DOMAIN b : /\ b[a] \in Header /\ a \in Nat /\ Start <= a
                             /\ BlockEnd(b, a) \in Nat /\ a < BlockEnd(b, a)
                             /\ BlockEnd(b, a) <= Limit /\ b[a].size \in Nat
                             /\ BlockEnd(b, a) = a + 40 + b[a].size
      /\ SizeofHeader = 40 /\ NULL = 0 /\ Start \in Nat /\ Start > 0 /\ Limit \in Nat
      /\ header_to_payload(h) = h + 40
  BY AreaAssumption DEF WellFormed, IsList, InArea, Header, BlockEnd, SizeofHeader, NULL,
     header_to_payload
<1>1. \A x, y \in DOMAIN b : x < y => BlockEnd(b, x) <= y
  BY DEF WellFormed, Disjoint
<1>2. NextLinked(b) /\ PrevLinked(b) /\ Start \in DOMAIN b
  BY DEF WellFormed
<1>3. k \in Nat /\ to \in Nat
  BY <1>0, <1>1 DEF Header
<1>4. c = [a \in {a \in DOMAIN b : a <= h \/ a > g} |->
             IF a = h THEN [b[h] EXCEPT !.size = k, !.next = to]
             ELSE IF a = to THEN [b[a] EXCEPT !.prev = h]
             ELSE b[a]]
  BY DEF MergeThrough
<1> HIDE DEF c, k
<1>5. DOMAIN c = {a \in DOMAIN b : a <= h \/ a > g} /\ h \in DOMAIN c
  BY <1>0, <1>4
<1> HIDE DEF to
<1>6. /\ c[h] \in Header /\ c[h].size = k /\ c[h].next = to
      /\ c[h].prev = b[h].prev /\ c[h].free = b[h].free
  <2>1. c[h] = [b[h] EXCEPT !.size = k, !.next = to]
    BY <1>4, <1>5
  <2> QED
    BY <2>1, <1>0, <1>3 DEF Header
<1>7. \A a \in DOMAIN c \ {h} :
        /\ c[a] \in Header
        /\ c[a].size = b[a].size /\ c[a].free = b[a].free /\ c[a].next = b[a].next
        /\ c[a].prev = IF a = to THEN h ELSE b[a].prev
  BY <1>0, <1>4, <1>5 DEF Header
<1>8. IsList(c)
  BY <1>4, <1>5, <1>6, <1>7 DEF IsList
<1>9. /\ BlockEnd(c, h) = BlockEnd(b, g)
      /\ \A a \in DOMAIN c \ {h} : BlockEnd(c, a) = BlockEnd(b, a)
  BY <1>0, <1>5, <1>6, <1>7 DEF BlockEnd, k
<1>10. InArea(c) /\ Start \in DOMAIN c
  BY <1>0, <1>2, <1>5, <1>9 DEF InArea
<1>11. Disjoint(c)
  <2> SUFFICES ASSUME NEW x \in DOMAIN c, NEW y \in DOMAIN c, x < y
               PROVE  BlockEnd(c, x) <= y
    BY DEF Disjoint
  <2> QED
    BY <1>0, <1>1, <1>5, <1>9
<1>12. to # NULL => to \in DOMAIN b /\ to = BlockEnd(b, g) /\ to > g /\ b[to].prev = g
  BY <1>0, <1>2 DEF NextLinked, to
<1>13. to = NULL <=> BlockEnd(b, g) = Limit
  BY <1>0, <1>2 DEF NextLinked, to
<1>14. NextLinked(c)
  <2> SUFFICES ASSUME NEW a \in DOMAIN c
               PROVE  IF BlockEnd(c, a) = Limit THEN c[a].next = NULL
                      ELSE /\ c[a].next = BlockEnd(c, a)
                           /\ c[a].next \in DOMAIN c
                           /\ c[c[a].next].prev = a
    BY DEF NextLinked
  <2>1. CASE a = h
    BY <2>1, <1>0, <1>5, <1>6, <1>7, <1>9, <1>12, <1>13
  <2>2. CASE a # h /\ BlockEnd(b, a) = Limit
    BY <2>2, <1>2, <1>5, <1>7, <1>9 DEF NextLinked
  <2>3. CASE a # h /\ BlockEnd(b, a) # Limit
    <3> DEFINE n == b[a].next
    <3>1. n = BlockEnd(b, a) /\ n \in DOMAIN b /\ b[n].prev = a
      BY <2>3, <1>2, <1>5 DEF NextLinked
    <3> HIDE DEF n
    <3>2. n <= h \/ n > g
      BY <3>1, <2>3, <1>0, <1>1, <1>5
    <3>3. n \in DOMAIN c
      BY <3>1, <3>2, <1>5
    <3>4. n # to
      BY <3>1, <2>3, <1>0, <1>5, <1>12
    <3>5. c[n].prev = a
      BY <3>1, <3>3, <3>4, <1>6, <1>7
    <3> QED
      BY <3>1, <3>3, <3>5, <2>3, <1>7, <1>9 DEF n
  <2> QED
    BY <2>1, <2>2, <2>3
<1>15. PrevLinked(c)
  <2> SUFFICES ASSUME NEW a \in DOMAIN c
               PROVE  IF a = Start THEN c[a].prev = NULL
                      ELSE c[a].prev \in DOMAIN c /\ c[c[a].prev].next = a
    BY DEF PrevLinked
  <2>1. CASE a = Start
    <3>1. a # to
      BY <2>1, <1>0, <1>12
    <3> QED
      BY <3>1, <2>1, <1>2, <1>5, <1>6, <1>7 DEF PrevLinked
  <2>2. CASE a # Start /\ a = to
    BY <2>2, <1>0, <1>5, <1>6, <1>7, <1>12
  <2>3. CASE a # Start /\ a # to
    <3> DEFINE p == b[a].prev
    <3>1. p \in DOMAIN b /\ b[p].next = a /\ a \in DOMAIN b
      BY <2>3, <1>2, <1>5 DEF PrevLinked
    <3> HIDE DEF p
    <3>2. a = BlockEnd(b, p) /\ p < a
      BY <3>1, <1>0, <1>2 DEF NextLinked
    <3>3. p # g
      BY <3>1, <2>3 DEF to
    <3>4. p \in DOMAIN c /\ p # h
      BY <3>1, <3>2, <3>3, <1>0, <1>1, <1>5
    <3> QED
      BY <3>1, <3>4, <2>3, <1>6, <1>7 DEF p
  <2> QED
    BY <2>1, <2>2, <2>3
<1>16. SameUsed(b, c, h)
  BY <1>0, <1>5, <1>7 DEF SameUsed, Used
<1> QED
  BY <1>2, <1>5, <1>6, <1>8, <1>10, <1>11, <1>14, <1>15, <1>16 DEF WellFormed, c, k

-----------------------------------------------------------------------------
\* The properties the model checker checks one by one are inductive together.
Inv == TypeOK /\ BlocksTileHeap /\ HeldIsBacked

\* In an intact heap the list agrees with the clients.
LEMMA HeapAgrees == Inv /\ Intact => Agrees(Heap, held)
  BY DEF Inv, TypeOK, BlocksTileHeap, HeldIsBacked, Agrees, GoodArea, Heap

\* A step that leaves the list and held in agreement keeps Inv.
LEMMA BecomesKeepsInv ==
  ASSUME Inv, Intact, NEW s, Becomes(s), Agrees(s, held'), resized' \in BOOLEAN,
         UNCHANGED <<brk_ptr, grown>>
  PROVE  Inv'
<1>1. blk' = s.blk /\ heap_tail' = s.tail /\ brk_ptr' = brk_ptr /\ grown' = grown
  BY DEF Becomes
<1>2. TypeOK'
  BY <1>1 DEF Inv, TypeOK, Agrees, GoodArea, WellFormed
<1>3. BlocksTileHeap' /\ HeldIsBacked'
  BY <1>1 DEF Inv, BlocksTileHeap, HeldIsBacked, Agrees, GoodArea, Intact
<1> QED
  BY <1>2, <1>3 DEF Inv

\* So does the step that ends the intact phase.
LEMMA ExpandStep ==
  ASSUME Inv, Intact, NEW n \in SizeT, heap_expand(n)
  PROVE  Inv'
<1>1. PICK calls \in 1 .. brk_ptr + 1 :
        /\ Morecore(n, calls - 1) >= Start
        /\ \/ held' = Give(held, header_to_payload(Morecore(n, calls)), Granted(n))
           \/ UNCHANGED held
        /\ brk_ptr' = Address(Morecore(n, calls))
        /\ grown' = {Address(Morecore(n, i)) : i \in 1 .. calls}
        /\ heap_tail' = brk_ptr'
        /\ UNCHANGED <<blk, resized>>
  BY DEF heap_expand
<1>2. /\ Start \in Nat /\ brk_ptr \in Nat /\ WORD \in Nat /\ SizeofHeader = 40
      /\ SizeofHeader < WORD /\ held \in [DOMAIN held -> Nat] /\ calls \in Nat
  BY AreaAssumption DEF MIN_SPLIT_SIZE, ALIGN, SizeofHeader, Inv, TypeOK
<1>3. Need(n) \in Nat /\ Need(n) < WORD /\ Granted(n) \in Nat
  <2>1. align_up(n) \in SizeT /\ Granted(n) \in Nat
    BY AlignUp
  <2>2. Plus(align_up(n), SizeofHeader) \in SizeT
    BY <2>1, <1>2 DEF Plus, SizeT
  <2>3. Need(n) \in SizeT
    BY <2>2, AlignUp DEF Need
  <2> QED
    BY <2>1, <2>3, <1>2 DEF SizeT
<1>4. \A i \in 1 .. calls : Address(Morecore(n, i)) \in Nat
  <2> SUFFICES ASSUME NEW i \in 1 .. calls PROVE Address(Morecore(n, i)) \in Nat
    OBVIOUS
  <2> DEFINE x == i * Need(n)
             y == (calls - 1) * Need(n)
             z == (calls - i) * Need(n)
  <2>1. i \in Nat /\ calls - 1 \in Nat /\ calls - i \in Nat
    BY <1>2
  <2>2. \A u, v \in Nat : u * v \in Nat
    OBVIOUS
  <2>3. x \in Nat /\ y \in Nat /\ z \in Nat
    BY <2>1, <2>2, <1>3
  <2>4. y + Need(n) = x + z
    BY <2>1, <1>3, <1>2
  <2>5. Morecore(n, i) = brk_ptr - x /\ brk_ptr - y >= Start
    BY <1>1 DEF Morecore
  <2> HIDE DEF x, y, z
  <2>6. Morecore(n, i) \in Int /\ Morecore(n, i) + WORD >= 0
    BY <2>3, <2>4, <2>5, <1>2, <1>3
  <2> QED
    BY <2>6, <1>2 DEF Address
<1>5. calls \in 1 .. calls
  BY <1>2
<1>6. brk_ptr' \in Nat /\ grown' \subseteq Nat /\ heap_tail' \in Nat
  BY <1>1, <1>4, <1>5
<1>7. held' \in [DOMAIN held' -> Nat]
  BY <1>1, <1>2, <1>3 DEF Give
<1>8. grown' # {}
  BY <1>1, <1>5
<1>9. IsList(blk') /\ resized' \in BOOLEAN
  BY <1>1 DEF Inv, TypeOK
<1> QED
  BY <1>6, <1>7, <1>8, <1>9 DEF Inv, TypeOK, BlocksTileHeap, HeldIsBacked, Intact

\* A pointer a client holds: its block is in the list, and used.
LEMMA HeldPointer ==
  ASSUME Inv, Intact, NEW p \in DOMAIN held
  PROVE  /\ p \in Nat /\ payload_to_header(p) \in DOMAIN blk
         /\ payload_to_header(p) \in Nat /\ blk[payload_to_header(p)].size \in Nat
         /\ ~ blk[payload_to_header(p)].free
         /\ header_to_payload(payload_to_header(p)) = p
<1>2. /\ p \in Nat /\ payload_to_header(p) \in DOMAIN blk
      /\ ~ blk[payload_to_header(p)].free
  BY DEF Inv, HeldIsBacked, Backed
<1>3. payload_to_header(p) \in Nat /\ blk[payload_to_header(p)].size \in Nat
  BY <1>2 DEF Inv, BlocksTileHeap, WellFormed, InArea, IsList, Header
<1>4. header_to_payload(payload_to_header(p)) = p
  BY <1>2 DEF header_to_payload, payload_to_header, SizeofHeader
<1> QED
  BY <1>2, <1>3, <1>4

\* malloc keeps Inv.
LEMMA MallocStep ==
  ASSUME Inv, NEW n \in SizeT, malloc(n)
  PROVE  Inv'
<1> DEFINE r == allocate(Heap, n)
<1>0. Intact
  BY DEF malloc
<1>1. Agrees(Heap, held)
  BY <1>0, HeapAgrees
<1>2. /\ GoodArea(r.area)
      /\ \/ r.ptr = NULL /\ r.area = Heap
         \/ \E h \in DOMAIN Heap.blk :
              /\ r.ptr = header_to_payload(h) /\ r.ptr # NULL
              /\ Heap.blk[h].free
              /\ h \in DOMAIN r.area.blk /\ ~ r.area.blk[h].free
              /\ Granted(n) <= r.area.blk[h].size
              /\ SameUsed(Heap.blk, r.area.blk, h)
  BY <1>1, Allocate DEF Agrees
<1>3. IF r.ptr # NULL
      THEN /\ Becomes(r.area) /\ held' = Give(held, r.ptr, Granted(n))
           /\ UNCHANGED <<brk_ptr, grown, resized>>
      ELSE IF n # 0 /\ CanExpand(n) THEN heap_expand(n) ELSE UNCHANGED vars
  BY DEF malloc
<1> HIDE DEF r
<1>4. CASE r.ptr # NULL
  <2>1. PICK h \in DOMAIN Heap.blk :
              /\ r.ptr = header_to_payload(h)
              /\ h \in DOMAIN r.area.blk /\ ~ r.area.blk[h].free
              /\ Granted(n) <= r.area.blk[h].size
              /\ SameUsed(Heap.blk, r.area.blk, h)
    BY <1>2, <1>4
  <2>2. held' = Give(held, header_to_payload(h), Granted(n))
    BY <1>3, <1>4, <2>1
  <2>3. Granted(n) \in Nat
    BY AlignUp
  <2>4. Agrees(r.area, held')
    BY <1>1, <1>2, <2>1, <2>2, <2>3, GiveKeepsAgreement
  <2> QED
    BY <1>0, <1>3, <1>4, <2>4, BecomesKeepsInv DEF Inv, TypeOK
<1>5. CASE r.ptr = NULL /\ heap_expand(n)
  BY <1>0, <1>5, ExpandStep
<1>6. CASE r.ptr = NULL /\ UNCHANGED vars
  BY <1>6 DEF vars, Inv, TypeOK, BlocksTileHeap, HeldIsBacked, Intact
<1> QED
  BY <1>3, <1>4, <1>5, <1>6

\* free keeps Inv.
LEMMA FreeStep ==
  ASSUME Inv, Intact, NEW p \in DOMAIN held, free(p)
  PROVE  Inv'
<1> DEFINE t == release(Heap, p)
<1>1. Agrees(Heap, held)
  BY HeapAgrees
<1>2. p \in Nat /\ payload_to_header(p) \in DOMAIN Heap.blk
  BY HeldPointer DEF Heap
<1>3. /\ GoodArea(t) /\ SameUsed(Heap.blk, t.blk, payload_to_header(p))
      /\ payload_to_header(p) \notin Used(t.blk)
  BY <1>1, <1>2, Release DEF Agrees
<1>4. Becomes(t) /\ held' = Take(held, p) /\ UNCHANGED <<brk_ptr, grown, resized>>
  BY DEF free
<1> HIDE DEF t
<1>5. Agrees(t, held')
  BY <1>1, <1>2, <1>3, <1>4, TakeKeepsAgreement
<1> QED
  BY <1>4, <1>5, BecomesKeepsInv DEF Inv, TypeOK

\* Shrinking a block in place keeps Inv.
LEMMA ShrinkStep ==
  ASSUME Inv, Intact, NEW p \in DOMAIN held, NEW n \in SizeT, ReallocShrink(p, n)
  PROVE  Inv'
<1> DEFINE h == payload_to_header(p)
           t == split_block(Heap, h, align_up(n))
<1>1. Agrees(Heap, held)
  BY HeapAgrees
<1>2. /\ h \in DOMAIN Heap.blk /\ ~ Heap.blk[h].free
      /\ header_to_payload(h) = p /\ Heap.blk = blk
  BY HeldPointer DEF Heap
<1>3. align_up(n) \in Nat /\ Granted(n) \in Nat /\ Granted(n) <= align_up(n) /\ align_up(n) <= Heap.blk[h].size
  BY <1>2, AlignUp DEF ReallocShrink
<1>4. /\ Becomes(t) /\ held' = Give(held, p, Granted(n))
      /\ resized' \in BOOLEAN /\ UNCHANGED <<brk_ptr, grown>>
  BY DEF ReallocShrink
<1> HIDE DEF h
<1>5. /\ GoodArea(t) /\ SameUsed(Heap.blk, t.blk, h)
      /\ h \in DOMAIN t.blk /\ t.blk[h].free = Heap.blk[h].free
      /\ align_up(n) <= t.blk[h].size
  BY <1>1, <1>2, <1>3, SplitBlock DEF Agrees
<1> HIDE DEF t
<1>6. t.blk[h].size \in Nat
  BY <1>5 DEF GoodArea, WellFormed, IsList, Header
<1>7. Granted(n) <= t.blk[h].size /\ ~ t.blk[h].free
  BY <1>2, <1>3, <1>5, <1>6
<1>8. Agrees(t, held')
  BY <1>1, <1>2, <1>3, <1>4, <1>5, <1>7, GiveKeepsAgreement
<1> QED
  BY <1>4, <1>8, BecomesKeepsInv

\* Growing a block into the free ones behind it keeps Inv.
LEMMA GrowStep ==
  ASSUME Inv, Intact, NEW p \in DOMAIN held, NEW n \in SizeT, ReallocGrow(p, n)
  PROVE  Inv'
<1> DEFINE h == payload_to_header(p)
           g == LastMerged(blk, h, align_up(n))
           s == [blk |-> MergeThrough(blk, h, g), tail |-> heap_tail]
           t == split_block(s, h, align_up(n))
           u == Mark(t, h, FALSE)
<1>1. Agrees(Heap, held)
  BY HeapAgrees
<1>2. /\ h \in DOMAIN blk /\ ~ blk[h].free /\ Heap.blk = blk
      /\ header_to_payload(h) = p /\ WellFormed(blk) /\ heap_tail \in Nat
  BY HeldPointer DEF Inv, TypeOK, BlocksTileHeap, Heap
<1>3. Reaching(blk, h, align_up(n)) # {}
  BY DEF ReallocGrow, GrowsInPlace
<1>4. /\ Becomes(u) /\ held' = Give(held, p, Granted(n))
      /\ resized' \in BOOLEAN /\ UNCHANGED <<brk_ptr, grown>>
  BY DEF ReallocGrow
<1> HIDE DEF h
<1>5. align_up(n) \in Nat /\ Granted(n) \in Nat /\ Granted(n) <= align_up(n)
  BY AlignUp
<1>6. g \in Reaching(blk, h, align_up(n))
  <2>1. Reaching(blk, h, align_up(n)) \subseteq Nat
    BY <1>2 DEF Reaching, WellFormed, InArea
  <2>2. \E m \in Reaching(blk, h, align_up(n)) :
          \A c \in Reaching(blk, h, align_up(n)) : m <= c
    BY <2>1, <1>3, LeastElement
  <2> QED
    BY <2>2 DEF LastMerged
<1> HIDE DEF g
<1>7. /\ g \in DOMAIN blk /\ g > h
      /\ \A c \in DOMAIN blk : h < c /\ c <= g => blk[c].free
      /\ BlockEnd(blk, g) - header_to_payload(h) >= align_up(n)
  BY <1>6 DEF Reaching
<1>8. g \in Nat /\ h \in Nat /\ h < g
  BY <1>2, <1>7 DEF WellFormed, InArea
<1>9. /\ WellFormed(MergeThrough(blk, h, g))
      /\ h \in DOMAIN MergeThrough(blk, h, g)
      /\ MergeThrough(blk, h, g)[h].size = BlockEnd(blk, g) - header_to_payload(h)
      /\ SameUsed(blk, MergeThrough(blk, h, g), h)
  BY <1>2, <1>7, <1>8, MergeThroughWF
<1>10. /\ GoodArea(s) /\ h \in DOMAIN s.blk /\ SameUsed(blk, s.blk, h)
       /\ align_up(n) <= s.blk[h].size
  <2>1. s.blk[h].size >= align_up(n) /\ s.blk = MergeThrough(blk, h, g)
    BY <1>7, <1>9
  <2>2. s.blk[h].size \in Nat
    BY <1>9 DEF WellFormed, IsList, Header
  <2>3. align_up(n) <= s.blk[h].size
    BY <2>1, <2>2, <1>5
  <2> QED
    BY <2>3, <1>2, <1>9 DEF GoodArea
<1> HIDE DEF s
<1>11. /\ GoodArea(t) /\ SameUsed(s.blk, t.blk, h)
       /\ h \in DOMAIN t.blk /\ align_up(n) <= t.blk[h].size
  BY <1>5, <1>10, SplitBlock
<1> HIDE DEF t
<1>12. /\ GoodArea(u) /\ SameUsed(t.blk, u.blk, h) /\ h \in DOMAIN u.blk
       /\ u.blk[h].free = FALSE /\ u.blk[h].size = t.blk[h].size
  BY <1>11, MarkBlock
<1> HIDE DEF u
<1>13. SameUsed(Heap.blk, u.blk, h)
  BY <1>2, <1>10, <1>11, <1>12 DEF SameUsed
<1>14. u.blk[h].size \in Nat
  BY <1>12 DEF GoodArea, WellFormed, IsList, Header
<1>15. Granted(n) <= u.blk[h].size
  BY <1>5, <1>11, <1>12, <1>14
<1>16. Agrees(u, held')
  BY <1>1, <1>2, <1>4, <1>5, <1>12, <1>13, <1>15, GiveKeepsAgreement
<1> QED
  BY <1>4, <1>16, BecomesKeepsInv

\* Moving an allocation to a new block keeps Inv.
LEMMA MoveStep ==
  ASSUME Inv, Intact, NEW p \in DOMAIN held, NEW n \in SizeT, ReallocMove(p, n)
  PROVE  Inv'
<1> DEFINE r == allocate(Heap, align_up(n))
           t == release(r.area, p)
<1>1. Agrees(Heap, held)
  BY HeapAgrees
<1>2. /\ align_up(n) \in SizeT /\ align_up(n) \in Nat
      /\ Granted(n) \in Nat /\ Granted(n) <= align_up(n)
      /\ Granted(align_up(n)) = align_up(n)
  BY AlignUp
<1>3. /\ GoodArea(r.area)
      /\ \/ r.ptr = NULL /\ r.area = Heap
         \/ \E h \in DOMAIN Heap.blk :
              /\ r.ptr = header_to_payload(h) /\ r.ptr # NULL
              /\ Heap.blk[h].free
              /\ h \in DOMAIN r.area.blk /\ ~ r.area.blk[h].free
              /\ align_up(n) <= r.area.blk[h].size
              /\ SameUsed(Heap.blk, r.area.blk, h)
  BY <1>1, <1>2, Allocate DEF Agrees
<1>4. IF r.ptr # NULL
      THEN /\ Becomes(t) /\ held' = Give(Take(held, p), r.ptr, Granted(n))
           /\ UNCHANGED <<brk_ptr, grown, resized>>
      ELSE IF CanExpand(n) THEN heap_expand(n) ELSE UNCHANGED vars
  BY DEF ReallocMove
<1>5. CASE r.ptr = NULL /\ heap_expand(n)
  BY <1>5, ExpandStep
<1>7. CASE r.ptr = NULL /\ UNCHANGED vars
  BY <1>7 DEF vars, Inv, TypeOK, BlocksTileHeap, HeldIsBacked, Intact
<1>6. CASE r.ptr # NULL
  <2> HIDE DEF r
  <2>1. PICK h \in DOMAIN Heap.blk :
              /\ r.ptr = header_to_payload(h)
              /\ Heap.blk[h].free
              /\ h \in DOMAIN r.area.blk /\ ~ r.area.blk[h].free
              /\ align_up(n) <= r.area.blk[h].size
              /\ SameUsed(Heap.blk, r.area.blk, h)
    BY <1>3, <1>6
  <2> DEFINE g == payload_to_header(p)
  <2>2. /\ p \in Nat /\ g \in Used(Heap.blk) /\ header_to_payload(g) = p
    BY HeldPointer DEF Used, Heap
  <2>3. g # h /\ g \in Used(r.area.blk)
    BY <2>1, <2>2 DEF SameUsed, Used
  <2>4. GoodArea(t) /\ SameUsed(r.area.blk, t.blk, g) /\ g \notin Used(t.blk)
    BY <1>3, <2>2, <2>3, Release DEF Used
  <2> HIDE DEF t, g
  <2>5. /\ r.area.blk[h].size \in Nat /\ h \in Nat
    BY <1>3, <2>1 DEF GoodArea, WellFormed, IsList, InArea, Header
  <2>6. Granted(n) <= r.area.blk[h].size
    BY <1>2, <2>1, <2>5
  <2>7. Agrees(r.area, Give(held, r.ptr, Granted(n)))
    BY <1>1, <1>2, <1>3, <2>1, <2>6, GiveKeepsAgreement
  <2>8. Agrees(t, Take(Give(held, r.ptr, Granted(n)), p))
    BY <2>2, <2>3, <2>4, <2>7, TakeKeepsAgreement DEF g, Used
  <2>9. r.ptr # p
    BY <2>1, <2>2, <2>3, <2>5, HeldPointer DEF header_to_payload, SizeofHeader, g
  <2>10. Take(Give(held, r.ptr, Granted(n)), p) = Give(Take(held, p), r.ptr, Granted(n))
    BY <2>9 DEF Take, Give
  <2>11. /\ Becomes(t) /\ held' = Give(Take(held, p), r.ptr, Granted(n))
         /\ UNCHANGED <<brk_ptr, grown, resized>>
    BY <1>4, <1>6
  <2> QED
    BY <2>8, <2>10, <2>11, BecomesKeepsInv DEF Inv, TypeOK
<1> QED
  BY <1>4, <1>5, <1>6, <1>7

\* The conjunction of the properties that the model checker checks is an
\* inductive invariant of malloc.c.
THEOREM KMallocInv == Spec => []Inv
<1>1. Init => Inv
  <2> SUFFICES ASSUME Init PROVE Inv
    OBVIOUS
  <2>1. WellFormed(blk) /\ blk = OneBlock /\ \A a \in DOMAIN blk : blk[a].free
    BY OneBlockWF DEF Init, malloc_init, OneBlock
  <2>2. TypeOK
    BY <2>1, AreaAssumption DEF Init, malloc_init, TypeOK, WellFormed, NoFunction
  <2>3. BlocksTileHeap /\ HeldIsBacked
    BY <2>1 DEF Init, malloc_init, BlocksTileHeap, HeldIsBacked, Backed, Owned, NoFunction
  <2> QED
    BY <2>2, <2>3 DEF Inv
<1>2. Inv /\ [Next]_vars => Inv'
  <2> SUFFICES ASSUME Inv, [Next]_vars PROVE Inv'
    OBVIOUS
  <2>1. CASE \E n \in Sizes : malloc(n)
    BY <2>1, SizesAssumption, MallocStep
  <2>2. CASE \E p \in DOMAIN held : free(p)
    BY <2>2, FreeStep DEF free
  <2>3. CASE \E p \in DOMAIN held, n \in Sizes : realloc(p, n)
    BY <2>3, SizesAssumption, ShrinkStep, GrowStep, MoveStep DEF realloc
  <2>4. CASE UNCHANGED vars
    BY <2>4 DEF vars, Inv, TypeOK, BlocksTileHeap, HeldIsBacked, Intact
  <2> QED
    BY <2>1, <2>2, <2>3, <2>4 DEF Next
<1> QED
  BY <1>1, <1>2, PTL DEF Spec

\* Until heap_expand first succeeds, the blocks tile the kernel heap.
THEOREM KMallocTiles == Spec => []BlocksTileHeap
<1>1. Inv => BlocksTileHeap
  BY DEF Inv
<1> QED
  BY <1>1, KMallocInv, PTL

\* Until heap_expand first succeeds, every pointer a client was given lies in a
\* used block with room for what it asked for, and no used block is lost.
THEOREM KMallocBacks == Spec => []HeldIsBacked
<1>1. Inv => HeldIsBacked
  BY DEF Inv
<1> QED
  BY <1>1, KMallocInv, PTL

\* Until then, what one client was given never shares a byte with what
\* another was given, nor with a header of the list.
THEOREM KMallocSeparates == Spec => []PayloadsSeparate
<1>1. Inv => PayloadsSeparate
  BY BackedIsSeparate DEF Inv, BlocksTileHeap, HeldIsBacked, PayloadsSeparate
<1> QED
  BY <1>1, KMallocInv, PTL
-----------------------------------------------------------------------------
\* No two neighbouring blocks are both free, and the tail is the last block.
Merged(b) == \A a \in DOMAIN b : b[a].free => ~ NextIsFree(b, a)

Tidy(s) ==
  /\ Merged(s.blk)
  /\ s.tail \in DOMAIN s.blk /\ s.blk[s.tail].next = NULL

\* In a well-formed list a link leads to a block, and no two links to the same.
LEMMA LinkFacts ==
  ASSUME NEW b, WellFormed(b)
  PROVE  /\ NULL \notin DOMAIN b
         /\ \A a \in DOMAIN b : b[a] \in Header /\ b[a].next # a
                                /\ (b[a].next # NULL => b[a].next \in DOMAIN b)
         /\ \A a, d \in DOMAIN b : b[a].next = b[d].next /\ b[a].next # NULL => a = d
         /\ \A a \in DOMAIN b : b[a].prev # NULL =>
              b[a].prev \in DOMAIN b /\ b[b[a].prev].next = a /\ b[a].prev # a
<1>1. /\ NULL = 0 /\ Start > 0 /\ Start \in Nat
      /\ \A a \in DOMAIN b : /\ a \in Nat /\ Start <= a /\ b[a] \in Header
                             /\ BlockEnd(b, a) \in Nat /\ BlockEnd(b, a) > a
  BY AreaAssumption DEF NULL, WellFormed, InArea, IsList, Header, BlockEnd, SizeofHeader
<1>2. \A a \in DOMAIN b : b[a].next # NULL =>
        /\ b[a].next = BlockEnd(b, a) /\ b[a].next \in DOMAIN b /\ b[b[a].next].prev = a
  BY DEF WellFormed, NextLinked
<1>3. \A a \in DOMAIN b : b[a].prev # NULL => b[a].prev \in DOMAIN b /\ b[b[a].prev].next = a
  BY DEF WellFormed, PrevLinked
<1>4. \A a \in DOMAIN b : b[a].next # a
  BY <1>1, <1>2
<1> QED
  BY <1>1, <1>2, <1>3, <1>4

\* What a split does to the flags and the links forward, ...
IsSplit(b, c, h, newh) ==
  /\ WellFormed(c) /\ newh \notin DOMAIN b /\ DOMAIN c = DOMAIN b \cup {newh}
  /\ c[newh].next = b[h].next /\ c[h].next = newh
  /\ \A a \in DOMAIN b \ {h} : c[a].next = b[a].next /\ c[a].free = b[a].free

\* ... what a merge does, ...
IsMerge(b, c, h, n) ==
  /\ WellFormed(c) /\ n \in DOMAIN b /\ n # h /\ DOMAIN c = DOMAIN b \ {n}
  /\ c[h].next = b[n].next /\ c[h].free = b[h].free
  /\ \A a \in DOMAIN b \ {h, n} : c[a].next = b[a].next /\ c[a].free = b[a].free

\* ... and what marking a block does.
IsMark(b, c, h, f) ==
  /\ WellFormed(c) /\ DOMAIN c = DOMAIN b /\ c[h].free = f
  /\ \A a \in DOMAIN b : c[a].next = b[a].next
  /\ \A a \in DOMAIN b \ {h} : c[a].free = b[a].free

\* The list after a split.
LEMMA SplitLinks ==
  ASSUME NEW b, WellFormed(b), NEW h \in DOMAIN b, NEW req \in Nat, Splits(b, h, req)
  PROVE  IsSplit(b, Split(b, h, req), h, header_to_payload(h) + req)
<1> DEFINE newh == header_to_payload(h) + req
           c == Split(b, h, req)
<1>1. WellFormed(c) /\ newh \notin DOMAIN b /\ DOMAIN c = DOMAIN b \cup {newh}
  BY SplitWF
<1>2. \A a \in DOMAIN b : b[a] \in Header
  BY LinkFacts
<1> HIDE DEF newh
<1>3. c = [a \in DOMAIN b \cup {newh} |->
             IF a = newh THEN [size |-> b[h].size - req - SizeofHeader,
                               free |-> TRUE, prev |-> h, next |-> b[h].next]
             ELSE IF a = h THEN [b[h] EXCEPT !.size = req, !.next = newh]
             ELSE IF a = b[h].next THEN [b[a] EXCEPT !.prev = newh]
             ELSE b[a]]
  BY DEF Split, newh
<1> HIDE DEF c
<1>4. c[newh].next = b[h].next
  BY <1>3
<1>5. c[h].next = newh
  <2>1. c[h] = [b[h] EXCEPT !.size = req, !.next = newh]
    BY <1>1, <1>3
  <2> QED
    BY <1>2, <2>1 DEF Header
<1>6. ASSUME NEW a \in DOMAIN b \ {h}
      PROVE  c[a].next = b[a].next /\ c[a].free = b[a].free
  <2>1. c[a] = IF a = b[h].next THEN [b[a] EXCEPT !.prev = newh] ELSE b[a]
    BY <1>1, <1>3
  <2> QED
    BY <1>2, <2>1 DEF Header
<1>7. IsSplit(b, c, h, newh)
  BY <1>1, <1>4, <1>5, <1>6 DEF IsSplit
<1> QED
  BY <1>7 DEF c, newh

\* The list after a merge.
LEMMA MergeLinks ==
  ASSUME NEW b, WellFormed(b), NEW h \in DOMAIN b, b[h].next # NULL
  PROVE  IsMerge(b, MergeNext(b, h), h, b[h].next)
<1> DEFINE n == b[h].next
           c == MergeNext(b, h)
           k == b[h].size + SizeofHeader + b[n].size
<1>0. WellFormed(c)
  BY MergeNextWF
<1>1. n \in DOMAIN b /\ n # h
  BY MergeNextWF
<1>2. \A a \in DOMAIN b : b[a] \in Header
  BY LinkFacts
<1>3. c = [a \in DOMAIN b \ {n} |->
             IF a = h THEN [b[h] EXCEPT !.size = k, !.next = b[n].next]
             ELSE IF a = b[n].next THEN [b[a] EXCEPT !.prev = h]
             ELSE b[a]]
  BY DEF MergeNext
<1> HIDE DEF c, n, k
<1>4. c[h].next = b[n].next /\ c[h].free = b[h].free
  <2>1. c[h] = [b[h] EXCEPT !.size = k, !.next = b[n].next]
    BY <1>1, <1>3
  <2> QED
    BY <1>2, <2>1 DEF Header
<1>5. ASSUME NEW a \in DOMAIN b \ {h, n}
      PROVE  c[a].next = b[a].next /\ c[a].free = b[a].free
  <2>1. c[a] = IF a = b[n].next THEN [b[a] EXCEPT !.prev = h] ELSE b[a]
    BY <1>3
  <2> QED
    BY <1>2, <2>1 DEF Header
<1>6. IsMerge(b, c, h, n)
  BY <1>0, <1>1, <1>3, <1>4, <1>5 DEF IsMerge
<1> QED
  BY <1>6 DEF c, n

\* The list after a block is marked.
LEMMA MarkLinks ==
  ASSUME NEW b, WellFormed(b), NEW h \in DOMAIN b, NEW f \in BOOLEAN
  PROVE  IsMark(b, SetFree(b, h, f), h, f)
<1>1. b = [a \in DOMAIN b |-> b[a]] /\ b[h] \in Header
  BY DEF WellFormed, IsList
<1>2. WellFormed(SetFree(b, h, f))
  BY SetFreeWF
<1> QED
  BY <1>1, <1>2 DEF IsMark, SetFree, Header

\* Marking a block used keeps a list merged.
LEMMA MarkUsedMerged ==
  ASSUME NEW b, WellFormed(b), Merged(b), NEW h \in DOMAIN b, NEW c, IsMark(b, c, h, FALSE)
  PROVE  Merged(c)
<1>1. \A a \in DOMAIN b : b[a].next # NULL => b[a].next \in DOMAIN b
  BY LinkFacts
<1> SUFFICES ASSUME NEW a \in DOMAIN c, c[a].free, c[a].next # NULL, c[c[a].next].free
             PROVE  FALSE
  BY DEF Merged, NextIsFree
<1>2. a \in DOMAIN b \ {h} /\ b[a].free /\ c[a].next = b[a].next
  BY DEF IsMark
<1>3. b[a].next \in DOMAIN b \ {h} /\ b[a].next # NULL
  BY <1>1, <1>2 DEF IsMark
<1>4. b[b[a].next].free
  BY <1>2, <1>3 DEF IsMark
<1> QED
  BY <1>2, <1>3, <1>4 DEF Merged, NextIsFree

\* Cutting a used block off a free one, whose neighbours are used, does so too.
LEMMA SplitMerged ==
  ASSUME NEW b, WellFormed(b), Merged(b), NEW h \in DOMAIN b, b[h].free, NEW newh,
         NEW d, IsSplit(b, d, h, newh), NEW c, IsMark(d, c, h, FALSE)
  PROVE  Merged(c)
<1>1. /\ \A a \in DOMAIN b : b[a].next # NULL => b[a].next \in DOMAIN b
      /\ b[h].next # h
  BY LinkFacts
<1> SUFFICES ASSUME NEW a \in DOMAIN c, c[a].free, c[a].next # NULL, c[c[a].next].free
             PROVE  FALSE
  BY DEF Merged, NextIsFree
<1>2. a # h
  BY DEF IsMark
<1>3. CASE a = newh
  <2>1. c[a].next = b[h].next /\ b[h].next \in DOMAIN b /\ b[h].next # h
    BY <1>1, <1>3 DEF IsSplit, IsMark
  <2>2. b[b[h].next].free
    BY <2>1 DEF IsSplit, IsMark
  <2> QED
    BY <2>1, <2>2 DEF Merged, NextIsFree
<1>4. CASE a # newh
  <2>1. a \in DOMAIN b \ {h} /\ c[a].next = b[a].next /\ b[a].free
    BY <1>2, <1>4 DEF IsSplit, IsMark
  <2>2. b[a].next \in DOMAIN b /\ b[a].next # NULL
    BY <1>1, <2>1
  <2>3. b[a].next # h
    BY <2>1 DEF IsMark
  <2>4. b[b[a].next].free
    BY <2>1, <2>2, <2>3 DEF IsSplit, IsMark
  <2> QED
    BY <2>1, <2>2, <2>4 DEF Merged, NextIsFree
<1> QED
  BY <1>3, <1>4

\* allocate keeps a list tidy.
LEMMA AllocateTidy ==
  ASSUME NEW s, GoodArea(s), Tidy(s), NEW n \in SizeT
  PROVE  Tidy(allocate(s, n).area)
<1>1. PICK size : size = align_up(n)
  OBVIOUS
<1>2. PICK fit : fit = FindFit(s.blk, size)
  OBVIOUS
<1>3. PICK b : b = s.blk
  OBVIOUS
<1>4. PICK k : k = s.tail
  OBVIOUS
<1>5. WellFormed(b) /\ Merged(b) /\ k \in DOMAIN b /\ b[k].next = NULL
  BY <1>3, <1>4 DEF GoodArea, Tidy
<1>6. CASE n = 0 \/ fit = NULL
  <2>1. allocate(s, n) = [ptr |-> NULL, area |-> s]
    BY <1>1, <1>2, <1>6 DEF allocate
  <2> QED
    BY <2>1
<1>7. CASE ~ (n = 0 \/ fit = NULL)
  <2>1. PICK u : u = Mark(split_block(s, fit, size), fit, FALSE)
    OBVIOUS
  <2>2. allocate(s, n).area = u
    BY <1>1, <1>2, <1>7, <2>1 DEF allocate
  <2>3. size \in Nat
    BY <1>1, AlignUp
  <2>4. fit \in DOMAIN b /\ b[fit].free
    BY <1>2, <1>3, <1>5, <1>7, <2>3, FindFitWF DEF Fits
  <2>5. CASE ~ Splits(b, fit, size)
    <3>1. u.blk = SetFree(b, fit, FALSE) /\ u.tail = k
      BY <1>3, <1>4, <2>1, <2>5 DEF split_block, Mark
    <3>2. IsMark(b, u.blk, fit, FALSE)
      BY <1>5, <2>4, <3>1, MarkLinks
    <3>3. Merged(u.blk)
      BY <1>5, <2>4, <3>2, MarkUsedMerged
    <3>4. u.tail \in DOMAIN u.blk /\ u.blk[u.tail].next = NULL
      BY <1>5, <3>1, <3>2 DEF IsMark
    <3> QED
      BY <2>2, <3>3, <3>4 DEF Tidy
  <2>6. CASE Splits(b, fit, size)
    <3>1. PICK newh : newh = header_to_payload(fit) + size
      OBVIOUS
    <3>2. PICK d : d = Split(b, fit, size)
      OBVIOUS
    <3>3. u.blk = SetFree(d, fit, FALSE) /\ u.tail = IF k = fit THEN newh ELSE k
      BY <1>3, <1>4, <2>1, <2>6, <3>1, <3>2 DEF split_block, Mark
    <3>4. IsSplit(b, d, fit, newh)
      BY <1>5, <2>3, <2>4, <2>6, <3>1, <3>2, SplitLinks
    <3>5. WellFormed(d) /\ fit \in DOMAIN d
      BY <2>4, <3>4 DEF IsSplit
    <3>6. IsMark(d, u.blk, fit, FALSE)
      BY <3>3, <3>5, MarkLinks
    <3>7. Merged(u.blk)
      BY <1>5, <2>4, <3>4, <3>6, SplitMerged
    <3>8. u.tail \in DOMAIN u.blk /\ u.blk[u.tail].next = NULL
      BY <1>5, <2>4, <3>3, <3>4, <3>6 DEF IsSplit, IsMark
    <3> QED
      BY <2>2, <3>7, <3>8 DEF Tidy
  <2> QED
    BY <2>5, <2>6
<1> QED
  BY <1>6, <1>7

\* Only the neighbours of h can both be free when h is a free block.
MergedBut(b, h) ==
  \A a \in DOMAIN b \ {h} : b[a].free => b[a].next = h \/ ~ NextIsFree(b, a)

\* Merging the free block behind h keeps the rest merged, and leaves no free
\* block behind h.
LEMMA MergeMerged ==
  ASSUME NEW b, WellFormed(b), NEW h \in DOMAIN b, MergedBut(b, h), NEW n, n = b[h].next,
         n # NULL, b[n].free, NEW c, IsMerge(b, c, h, n)
  PROVE  MergedBut(c, h) /\ ~ NextIsFree(c, h)
<1>1. /\ \A a \in DOMAIN b : b[a].next # NULL => b[a].next \in DOMAIN b
      /\ \A a \in DOMAIN b : b[a].next = n => a = h
      /\ b[n].next # n /\ n \in DOMAIN b /\ n # h
  BY LinkFacts DEF IsMerge
<1>2. b[n].next # h
  <2>1. h < n /\ \A a \in DOMAIN b : b[a].next # NULL => a < b[a].next /\ a \in Nat
    BY <1>1 DEF WellFormed, NextLinked, BlockEnd, InArea, IsList, Header, SizeofHeader, NULL
  <2>2. NULL \notin DOMAIN b
    BY LinkFacts
  <2> QED
    BY <1>1, <2>1, <2>2
<1>3. MergedBut(c, h)
  <2> SUFFICES ASSUME NEW a \in DOMAIN c \ {h}, c[a].free, c[a].next # h, c[a].next # NULL,
                      c[c[a].next].free
               PROVE  FALSE
    BY DEF MergedBut, NextIsFree
  <2>1. a \in DOMAIN b \ {h, n} /\ c[a].next = b[a].next /\ b[a].free
    BY DEF IsMerge
  <2>2. b[a].next \in DOMAIN b \ {h, n}
    BY <1>1, <2>1
  <2>3. b[b[a].next].free
    BY <2>1, <2>2 DEF IsMerge
  <2> QED
    BY <2>1, <2>2, <2>3 DEF MergedBut, NextIsFree
<1>4. ~ NextIsFree(c, h)
  <2> SUFFICES ASSUME c[h].next # NULL, c[c[h].next].free
               PROVE  FALSE
    BY DEF NextIsFree
  <2>1. c[h].next = b[n].next /\ b[n].next \in DOMAIN b \ {h, n} /\ n \in DOMAIN b \ {h}
    BY <1>1, <1>2 DEF IsMerge
  <2>2. b[b[n].next].free /\ b[n].next # NULL
    BY <2>1 DEF IsMerge
  <2> QED
    BY <2>1, <2>2 DEF MergedBut, NextIsFree
<1> QED
  BY <1>3, <1>4

\* The tail after a merge: the merged block if the last one was taken in.
LEMMA MergeTail ==
  ASSUME NEW b, NEW h \in DOMAIN b, NEW n, NEW c, IsMerge(b, c, h, n),
         NEW k \in DOMAIN b, b[k].next = NULL, n = b[h].next, n # NULL,
         NEW t, t = IF k = n THEN h ELSE k
  PROVE  t \in DOMAIN c /\ c[t].next = NULL
<1>1. k # h
  OBVIOUS
<1> QED
  BY <1>1 DEF IsMerge

\* What absorb does, for the flags, the links forward and the tail.
LEMMA AbsorbLinks ==
  ASSUME NEW s, GoodArea(s), NEW h \in DOMAIN s.blk, NextIsFree(s.blk, h),
         s.tail \in DOMAIN s.blk, s.blk[s.tail].next = NULL
  PROVE  LET t == absorb(s, h)
         IN  /\ GoodArea(t) /\ IsMerge(s.blk, t.blk, h, s.blk[h].next)
             /\ t.tail \in DOMAIN t.blk /\ t.blk[t.tail].next = NULL
<1>1. PICK b : b = s.blk
  OBVIOUS
<1>2. PICK k : k = s.tail
  OBVIOUS
<1>3. PICK n : n = b[h].next
  OBVIOUS
<1>4. PICK t : t = absorb(s, h)
  OBVIOUS
<1>5. WellFormed(b) /\ h \in DOMAIN b /\ n # NULL /\ k \in DOMAIN b /\ b[k].next = NULL
  BY <1>1, <1>2, <1>3 DEF GoodArea, NextIsFree
<1>6. t.blk = MergeNext(b, h) /\ t.tail = IF k = n THEN h ELSE k
  BY <1>1, <1>2, <1>3, <1>4 DEF absorb
<1>7. IsMerge(b, t.blk, h, n)
  BY <1>3, <1>5, <1>6, MergeLinks
<1>8. t.tail \in DOMAIN t.blk /\ t.blk[t.tail].next = NULL
  BY <1>3, <1>5, <1>6, <1>7, MergeTail
<1>9. GoodArea(t)
  BY <1>4, Absorb
<1> QED
  BY <1>1, <1>3, <1>4, <1>7, <1>8, <1>9

\* release keeps a list tidy: coalesce merges the block with both neighbours.
LEMMA ReleaseTidy ==
  ASSUME NEW s, GoodArea(s), Tidy(s), NEW p \in Nat, payload_to_header(p) \in DOMAIN s.blk
  PROVE  Tidy(release(s, p))
<1>1. PICK h : h = payload_to_header(p)
  OBVIOUS
<1>2. PICK u : u = Mark(s, h, TRUE)
  OBVIOUS
<1>3. PICK t : t = IF NextIsFree(u.blk, h) THEN absorb(u, h) ELSE u
  OBVIOUS
<1>4. PICK q : q = t.blk[h].prev
  OBVIOUS
<1>5. release(s, p) = IF PrevIsFree(t.blk, h) THEN absorb(t, q) ELSE t
  BY <1>1, <1>2, <1>3, <1>4 DEF release, coalesce
<1>6. /\ GoodArea(u) /\ h \in DOMAIN u.blk /\ u.blk[h].free
      /\ u.tail \in DOMAIN u.blk /\ u.blk[u.tail].next = NULL
      /\ MergedBut(u.blk, h)
  <2>1. GoodArea(u) /\ h \in DOMAIN s.blk
    BY <1>1, <1>2, MarkBlock
  <2>2. u.blk = SetFree(s.blk, h, TRUE) /\ u.tail = s.tail
    BY <1>2 DEF Mark
  <2>3. IsMark(s.blk, u.blk, h, TRUE)
    BY <2>1, <2>2, MarkLinks DEF GoodArea
  <2>4. h \in DOMAIN u.blk /\ u.blk[h].free
        /\ u.tail \in DOMAIN u.blk /\ u.blk[u.tail].next = NULL
    BY <2>1, <2>2, <2>3 DEF Tidy, IsMark
  <2>5. MergedBut(u.blk, h)
    <3>1. \A a \in DOMAIN s.blk : s.blk[a].next # NULL => s.blk[a].next \in DOMAIN s.blk
      BY LinkFacts DEF GoodArea
    <3> SUFFICES ASSUME NEW a \in DOMAIN u.blk \ {h}, u.blk[a].free, u.blk[a].next # h,
                        u.blk[a].next # NULL, u.blk[u.blk[a].next].free
                 PROVE  FALSE
      BY DEF MergedBut, NextIsFree
    <3>2. a \in DOMAIN s.blk /\ s.blk[a].free /\ u.blk[a].next = s.blk[a].next
      BY <2>3 DEF IsMark
    <3>3. s.blk[s.blk[a].next].free
      BY <2>3, <3>1, <3>2 DEF IsMark
    <3> QED
      BY <3>2, <3>3 DEF Tidy, Merged, NextIsFree
  <2> QED
    BY <2>1, <2>4, <2>5
<1>7. /\ GoodArea(t) /\ h \in DOMAIN t.blk /\ t.blk[h].free
      /\ t.tail \in DOMAIN t.blk /\ t.blk[t.tail].next = NULL
      /\ MergedBut(t.blk, h) /\ ~ NextIsFree(t.blk, h)
  <2>1. CASE ~ NextIsFree(u.blk, h)
    BY <1>3, <1>6, <2>1
  <2>2. CASE NextIsFree(u.blk, h)
    <3>1. PICK n : n = u.blk[h].next
      OBVIOUS
    <3>2. t = absorb(u, h) /\ n # NULL /\ u.blk[n].free
      BY <1>3, <2>2, <3>1 DEF NextIsFree
    <3>3. /\ GoodArea(t) /\ IsMerge(u.blk, t.blk, h, n)
          /\ t.tail \in DOMAIN t.blk /\ t.blk[t.tail].next = NULL
      BY <1>6, <2>2, <3>1, <3>2, AbsorbLinks
    <3>4. MergedBut(t.blk, h) /\ ~ NextIsFree(t.blk, h)
      BY <1>6, <3>1, <3>2, <3>3, MergeMerged DEF GoodArea
    <3>5. h \in DOMAIN t.blk /\ t.blk[h].free
      BY <1>6, <3>3 DEF IsMerge
    <3> QED
      BY <3>3, <3>4, <3>5
  <2> QED
    BY <2>1, <2>2
<1>8. PICK b : b = t.blk
  OBVIOUS
<1>9. /\ WellFormed(b) /\ h \in DOMAIN b /\ b[h].free /\ MergedBut(b, h)
      /\ ~ NextIsFree(b, h) /\ q = b[h].prev
  BY <1>4, <1>7, <1>8 DEF GoodArea
<1>10. /\ NULL \notin DOMAIN b
       /\ \A a, d \in DOMAIN b : b[a].next = b[d].next /\ b[a].next # NULL => a = d
       /\ q # NULL => q \in DOMAIN b /\ b[q].next = h /\ q # h
       /\ \A a \in DOMAIN b : b[a].next = h => a = q
  <2>1. /\ NULL \notin DOMAIN b
        /\ \A a, d \in DOMAIN b : b[a].next = b[d].next /\ b[a].next # NULL => a = d
        /\ \A a \in DOMAIN b : b[a].prev # NULL =>
             b[a].prev \in DOMAIN b /\ b[b[a].prev].next = a /\ b[a].prev # a
    BY <1>9, LinkFacts
  <2>2. \A a \in DOMAIN b : b[a].next # NULL => b[b[a].next].prev = a
    BY <1>9 DEF WellFormed, NextLinked
  <2> QED
    BY <1>9, <2>1, <2>2
<1>11. CASE ~ PrevIsFree(b, h)
  <2>1. Merged(b)
    <3> SUFFICES ASSUME NEW a \in DOMAIN b, b[a].free, NextIsFree(b, a)
                 PROVE  FALSE
      BY DEF Merged
    <3>1. a # h /\ b[a].next = h
      BY <1>9 DEF MergedBut
    <3>2. a = q /\ a # NULL
      BY <1>10, <3>1
    <3> QED
      BY <1>9, <1>11, <3>2 DEF PrevIsFree
  <2> QED
    BY <1>5, <1>7, <1>8, <1>11, <2>1 DEF Tidy
<1>12. CASE PrevIsFree(b, h)
  <2>1. q \in DOMAIN b /\ b[q].next = h /\ q # h /\ b[q].free /\ h # NULL
    BY <1>9, <1>10, <1>12 DEF PrevIsFree
  <2>2. PICK v : v = absorb(t, q)
    OBVIOUS
  <2>3. NextIsFree(b, q)
    BY <1>9, <2>1 DEF NextIsFree
  <2>4. /\ GoodArea(v) /\ IsMerge(b, v.blk, q, h)
        /\ v.tail \in DOMAIN v.blk /\ v.blk[v.tail].next = NULL
    BY <1>7, <1>8, <2>1, <2>2, <2>3, AbsorbLinks
  <2>5. Merged(v.blk)
    <3> SUFFICES ASSUME NEW a \in DOMAIN v.blk, v.blk[a].free, v.blk[a].next # NULL,
                        v.blk[v.blk[a].next].free
                 PROVE  FALSE
      BY DEF Merged, NextIsFree
    <3>1. \A d \in DOMAIN b : b[d].next # NULL => b[d].next \in DOMAIN b
      BY <1>9, LinkFacts
    <3>2. CASE a = q
      <4>1. v.blk[a].next = b[h].next /\ b[h].next \in DOMAIN b /\ b[h].next # NULL
        BY <1>9, <2>4, <3>1, <3>2 DEF IsMerge
      <4>2. ~ b[b[h].next].free
        BY <1>9, <4>1 DEF NextIsFree
      <4>3. b[h].next # q /\ b[h].next # h
        BY <1>9, <2>1, <4>2
      <4> QED
        BY <2>4, <4>1, <4>2, <4>3 DEF IsMerge
    <3>3. CASE a # q
      <4>1. a \in DOMAIN b \ {q, h} /\ v.blk[a].next = b[a].next /\ b[a].free
        BY <2>4, <3>3 DEF IsMerge
      <4>2. b[a].next \in DOMAIN b /\ b[a].next # h /\ b[a].next # NULL
        BY <1>10, <3>1, <4>1
      <4>3. b[b[a].next].free
        BY <2>1, <2>4, <4>1, <4>2 DEF IsMerge
      <4> QED
        BY <1>9, <4>1, <4>2, <4>3 DEF MergedBut, NextIsFree
    <3> QED
      BY <3>2, <3>3
  <2> QED
    BY <1>5, <1>8, <1>12, <2>2, <2>4, <2>5 DEF Tidy
<1> QED
  BY <1>11, <1>12

-----------------------------------------------------------------------------
\* Until realloc resizes a block in place, the heap is tidy.
TidyInv == Intact /\ ~ resized => Tidy(Heap)

\* malloc, free and the realloc that moves a block keep it so; a resize in
\* place and heap_expand end it.
LEMMA TidyStep ==
  ASSUME Inv, TidyInv, [Next]_vars
  PROVE  TidyInv'
<1> SUFFICES ASSUME Intact', ~ resized'
             PROVE  Tidy(Heap)'
  BY DEF TidyInv
<1> USE SizesAssumption
<1>1. ASSUME Intact, ~ resized, NEW s, Becomes(s), Tidy(s)
      PROVE  Tidy(Heap)'
  BY <1>1 DEF Becomes, Heap, Tidy
<1>2. ASSUME NEW n, heap_expand(n)
      PROVE  FALSE
  <2>1. PICK calls \in 1 .. brk_ptr + 1 : grown' = {Address(Morecore(n, i)) : i \in 1 .. calls}
    BY <1>2 DEF heap_expand
  <2>2. 1 \in 1 .. calls
    BY <2>1 DEF Inv, TypeOK
  <2> QED
    BY <2>1, <2>2 DEF Intact
<1>3. CASE UNCHANGED vars
  BY <1>3 DEF vars, TidyInv, Intact, Heap, Tidy, Merged, NextIsFree
<1>4. ASSUME Intact
      PROVE  GoodArea(Heap) /\ (~ resized => Tidy(Heap))
  BY <1>4, HeapAgrees DEF Agrees, TidyInv
<1>5. ASSUME NEW n \in Sizes, malloc(n)
      PROVE  Tidy(Heap)'
  <2>1. PICK r : r = allocate(Heap, n)
    OBVIOUS
  <2>2. CASE r.ptr # NULL
    <3>1. Intact /\ Becomes(r.area) /\ UNCHANGED resized
      BY <1>5, <2>1, <2>2 DEF malloc
    <3>2. n \in SizeT /\ GoodArea(Heap) /\ Tidy(Heap)
      BY <1>4, <3>1
    <3>3. Tidy(r.area)
      BY <2>1, <3>2, AllocateTidy
    <3> QED
      BY <1>1, <3>1, <3>3
  <2>3. CASE r.ptr = NULL
    BY <1>2, <1>3, <1>5, <2>1, <2>3 DEF malloc
  <2> QED
    BY <2>2, <2>3
<1>6. ASSUME NEW p \in DOMAIN held, free(p)
      PROVE  Tidy(Heap)'
  <2>1. PICK s : s = release(Heap, p)
    OBVIOUS
  <2>2. Intact /\ Becomes(s) /\ UNCHANGED resized
    BY <1>6, <2>1 DEF free
  <2>3. GoodArea(Heap) /\ Tidy(Heap) /\ p \in Nat /\ payload_to_header(p) \in DOMAIN Heap.blk
    BY <1>4, <2>2, HeldPointer DEF Heap
  <2>4. Tidy(s)
    BY <2>1, <2>3, ReleaseTidy
  <2> QED
    BY <1>1, <2>2, <2>4
<1>7. ASSUME NEW p \in DOMAIN held, NEW n \in Sizes, realloc(p, n)
      PROVE  Tidy(Heap)'
  <2>1. Intact
    BY <1>7 DEF realloc
  <2>2. CASE ReallocShrink(p, n) \/ ReallocGrow(p, n)
    BY <2>2 DEF ReallocShrink, ReallocGrow
  <2>3. CASE ReallocMove(p, n)
    <3>1. PICK r : r = allocate(Heap, align_up(n))
      OBVIOUS
    <3>2. CASE r.ptr # NULL
      <4>1. PICK s : s = release(r.area, p)
        OBVIOUS
      <4>2. Becomes(s) /\ UNCHANGED resized
        BY <2>3, <3>1, <3>2, <4>1 DEF ReallocMove
      <4>3. align_up(n) \in SizeT /\ GoodArea(Heap) /\ Tidy(Heap)
        BY <1>4, <2>1, <4>2, AlignUp
      <4>4. Tidy(r.area)
        BY <3>1, <4>3, AllocateTidy
      <4>5. PICK h \in DOMAIN Heap.blk :
              Heap.blk[h].free /\ SameUsed(Heap.blk, r.area.blk, h)
        BY <3>1, <3>2, <4>3, Allocate
      <4>6. GoodArea(r.area)
        BY <3>1, <4>3, Allocate
      <4>7. p \in Nat /\ payload_to_header(p) \in Used(Heap.blk)
        BY <2>1, HeldPointer DEF Used, Heap
      <4>8. payload_to_header(p) \in DOMAIN r.area.blk
        BY <4>5, <4>7 DEF SameUsed, Used
      <4>9. Tidy(s)
        BY <4>1, <4>4, <4>6, <4>7, <4>8, ReleaseTidy
      <4> QED
        BY <1>1, <2>1, <4>2, <4>9
    <3>3. CASE r.ptr = NULL
      BY <1>2, <1>3, <2>3, <3>1, <3>3 DEF ReallocMove
    <3> QED
      BY <3>2, <3>3
  <2> QED
    BY <1>7, <2>2, <2>3 DEF realloc
<1> QED
  BY <1>3, <1>5, <1>6, <1>7 DEF Next

\* The invariant, together with Inv.
THEOREM KMallocTidy == Spec => []TidyInv
<1>1. Init => TidyInv
  <2> SUFFICES ASSUME Init PROVE Tidy(Heap)
    BY DEF TidyInv
  <2>1. blk = OneBlock /\ heap_tail = Start
    BY DEF Init, malloc_init
  <2> QED
    BY <2>1 DEF Tidy, Merged, NextIsFree, Heap, OneBlock
<1>2. Inv /\ TidyInv /\ [Next]_vars => TidyInv'
  BY TidyStep
<1> QED
  BY <1>1, <1>2, KMallocInv, PTL DEF Spec

\* malloc, free and a realloc that moves its block never leave two
\* neighbouring blocks that are both free, in a heap of any size: coalesce,
\* which looks at one block on either side, is enough.
THEOREM KMallocMerges == Spec => []FreeBlocksMerged
<1>1. TidyInv => FreeBlocksMerged
  BY DEF TidyInv, Tidy, Merged, Heap, FreeBlocksMerged
<1> QED
  BY <1>1, KMallocTidy, PTL

\* Until realloc resizes in place, heap_tail is the last block of the list.
THEOREM KMallocTail == Spec => []TailIsLast
<1>1. TidyInv => TailIsLast
  BY DEF TidyInv, Tidy, Heap, TailIsLast
<1> QED
  BY <1>1, KMallocTidy, PTL

\* Until heap_expand first succeeds, the statistics of the heap account for
\* every byte of it and count the allocations that are outstanding.
THEOREM KMallocCounts == Spec => []StatsExact
<1>1. Inv => StatsExact
  <2> SUFFICES ASSUME Inv, Intact
               PROVE  /\ get_kmalloc_stats.total_managed = Limit - Start
                      /\ get_kmalloc_stats.num_used = Cardinality(DOMAIN held)
    BY DEF StatsExact
  <2>1. WellFormed(blk) /\ Backed(blk, held) /\ Owned(blk, held)
    BY DEF Inv, BlocksTileHeap, HeldIsBacked
  <2>2. get_kmalloc_stats.total_managed = Total(blk)
    BY DEF get_kmalloc_stats, Total, MapThenSumSet, MapThenFoldSet
  <2>3. get_kmalloc_stats.num_used = Cardinality({a \in DOMAIN blk : ~ blk[a].free})
    BY DEF get_kmalloc_stats, MapThenSumSet, MapThenFoldSet
  <2> QED
    BY <2>1, <2>2, <2>3, TotalIsTheArea, UsedAreHeld
<1> QED
  BY <1>1, KMallocInv, PTL
=============================================================================
