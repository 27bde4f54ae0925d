-------------------------- MODULE UserMallocProofs --------------------------
(***************************************************************************)
(* The .user allocator keeps its blocks tiling the area, and its clients   *)
(* apart, for every area and every set of request sizes.                   *)
(***************************************************************************)
EXTENDS UserMalloc, BlockListProofs

-----------------------------------------------------------------------------
\* The properties the model checker checks one by one are inductive together.
Inv == TypeOK /\ BlocksTileArea /\ HeldIsBacked

\* user_malloc starts from a good area that agrees with the clients.
LEMMA ReadyAgrees == Inv => Agrees(Ready, held)
<1> SUFFICES ASSUME Inv PROVE Agrees(Ready, held)
  OBVIOUS
<1>0. NULL = 0 /\ Start \in Nat
  BY AreaAssumption DEF NULL
<1>1. CASE user_head = NULL
  <2>1. Ready = [blk |-> OneBlock, tail |-> Start]
    BY <1>1 DEF Ready
  <2>2. GoodArea(Ready)
    BY <2>1, <1>0, OneBlockWF DEF GoodArea
  <2>3. DOMAIN held = {} /\ held \in [DOMAIN held -> Nat]
    BY <1>1 DEF Inv, TypeOK
  <2>4. \A a \in DOMAIN OneBlock : OneBlock[a].free
    BY DEF OneBlock
  <2> QED
    BY <2>1, <2>2, <2>3, <2>4 DEF Agrees, Backed, Owned
<1>2. CASE user_head # NULL
  BY <1>2 DEF Ready, Inv, TypeOK, BlocksTileArea, HeldIsBacked, Agrees, GoodArea
<1> QED
  BY <1>1, <1>2

\* A step that leaves the area and held in agreement keeps Inv.
LEMMA BecomesKeepsInv ==
  ASSUME NEW s, Becomes(s), Agrees(s, held')
  PROVE  Inv'
<1>1. user_head' = Start /\ Start # NULL /\ user_tail' = s.tail /\ blk' = s.blk
  BY AreaAssumption DEF Becomes, NULL
<1>2. TypeOK'
  BY <1>1 DEF TypeOK, Agrees, GoodArea, WellFormed
<1>3. BlocksTileArea' /\ HeldIsBacked'
  BY <1>1 DEF BlocksTileArea, HeldIsBacked, Agrees, GoodArea
<1> QED
  BY <1>2, <1>3 DEF Inv

\* A pointer a client holds: its block is in the list, and used.
LEMMA HeldPointer ==
  ASSUME Inv, NEW p \in DOMAIN held
  PROVE  /\ user_head # NULL /\ Ready = [blk |-> blk, tail |-> user_tail]
         /\ p \in Nat /\ payload_to_header(p) \in DOMAIN blk
         /\ payload_to_header(p) \in Nat /\ blk[payload_to_header(p)].size \in Nat
         /\ ~ blk[payload_to_header(p)].free
         /\ header_to_payload(payload_to_header(p)) = p
<1>1. user_head # NULL /\ Ready = [blk |-> blk, tail |-> user_tail]
  BY DEF Inv, TypeOK, Ready
<1>2. /\ p \in Nat /\ payload_to_header(p) \in DOMAIN blk
      /\ ~ blk[payload_to_header(p)].free
  BY DEF Inv, HeldIsBacked, Backed
<1>3. payload_to_header(p) \in Nat /\ blk[payload_to_header(p)].size \in Nat
  BY <1>1, <1>2 DEF Inv, BlocksTileArea, WellFormed, InArea, IsList, Header
<1>4. header_to_payload(payload_to_header(p)) = p
  BY <1>2 DEF header_to_payload, payload_to_header, SizeofHeader
<1> QED
  BY <1>1, <1>2, <1>3, <1>4

\* The step leaves what every client but the one that holds p has been given.
Spared(p) ==
  \A q \in DOMAIN held \ {p} :
    /\ q \in DOMAIN held' /\ held'[q] = held[q]
    /\ blk'[payload_to_header(q)].size = blk[payload_to_header(q)].size

OthersSpared == \E p \in DOMAIN held \cup {NULL} : Spared(p)

\* A step that keeps the sizes of the used blocks but for that of p, and what
\* is held but for p, spares the other clients.
LEMMA KeepsOthers ==
  ASSUME Inv, NEW s, Becomes(s), NEW p,
         p \in DOMAIN held \/ p = NULL,
         \A a \in Used(Ready.blk) : a # payload_to_header(p) => s.blk[a].size = Ready.blk[a].size,
         \A q \in DOMAIN held : q # p => q \in DOMAIN held' /\ held'[q] = held[q]
  PROVE  OthersSpared
<1>1. ASSUME NEW q \in DOMAIN held \ {p}
      PROVE  s.blk[payload_to_header(q)].size = blk[payload_to_header(q)].size
  <2>1. /\ payload_to_header(q) \in Used(Ready.blk) /\ Ready.blk = blk
        /\ q \in Nat
    BY HeldPointer DEF Used
  <2>2. p \in Nat
    BY HeldPointer DEF NULL
  <2>3. payload_to_header(q) # payload_to_header(p)
    BY <1>1, <2>1, <2>2 DEF payload_to_header, SizeofHeader
  <2> QED
    BY <2>1, <2>3
<1>2. Spared(p)
  BY <1>1 DEF Spared, Becomes
<1> QED
  BY <1>2 DEF OthersSpared

\* user_malloc keeps Inv and spares the clients.
LEMMA MallocStep ==
  ASSUME Inv, NEW n \in SizeT, user_malloc(n)
  PROVE  Inv' /\ OthersSpared
<1> DEFINE r == allocate(Ready, n)
<1>1. Agrees(Ready, held)
  BY ReadyAgrees
<1>2. /\ GoodArea(r.area)
      /\ \/ r.ptr = NULL /\ r.area = Ready
         \/ \E h \in DOMAIN Ready.blk :
              /\ r.ptr = header_to_payload(h) /\ r.ptr # NULL
              /\ Ready.blk[h].free
              /\ h \in DOMAIN r.area.blk /\ ~ r.area.blk[h].free
              /\ Granted(n) <= r.area.blk[h].size
              /\ SameUsed(Ready.blk, r.area.blk, h)
  BY <1>1, Allocate DEF Agrees
<1>3. /\ Becomes(r.area)
      /\ held' = IF r.ptr = NULL THEN held ELSE Give(held, r.ptr, Granted(n))
  BY DEF user_malloc
<1> HIDE DEF r
<1>4. Agrees(r.area, held')
  <2>1. CASE r.ptr = NULL /\ r.area = Ready
    BY <1>1, <1>3, <2>1
  <2>2. CASE ~ (r.ptr = NULL /\ r.area = Ready)
    <3>1. PICK h \in DOMAIN Ready.blk :
              /\ r.ptr = header_to_payload(h) /\ r.ptr # NULL
              /\ h \in DOMAIN r.area.blk /\ ~ r.area.blk[h].free
              /\ Granted(n) <= r.area.blk[h].size
              /\ SameUsed(Ready.blk, r.area.blk, h)
      BY <1>2, <2>2
    <3>2. held' = Give(held, header_to_payload(h), Granted(n))
      BY <1>3, <3>1
    <3>3. Granted(n) \in Nat
      BY AlignUp
    <3> QED
      BY <1>1, <1>2, <3>1, <3>2, <3>3, GiveKeepsAgreement
  <2> QED
    BY <2>1, <2>2
<1>5. \A a \in Used(Ready.blk) : r.area.blk[a].size = Ready.blk[a].size
  BY <1>2 DEF SameUsed, Used
<1>6. \A q \in DOMAIN held : q \in DOMAIN held' /\ (q # r.ptr => held'[q] = held[q])
  BY <1>3 DEF Give
<1>7. \A q \in DOMAIN held : q = r.ptr => r.ptr = NULL
  <2> SUFFICES ASSUME NEW q \in DOMAIN held, q = r.ptr, r.ptr # NULL
               PROVE  FALSE
    OBVIOUS
  <2>1. PICK h \in DOMAIN Ready.blk : r.ptr = header_to_payload(h) /\ Ready.blk[h].free
    BY <1>2
  <2>2. h \in Nat
    BY <1>1 DEF Agrees, GoodArea, WellFormed, InArea
  <2>3. payload_to_header(q) = h
    BY <2>1, <2>2 DEF payload_to_header, header_to_payload, SizeofHeader
  <2> QED
    BY <2>1, <2>3, HeldPointer
<1>8. \A q \in DOMAIN held : q # NULL => q \in DOMAIN held' /\ held'[q] = held[q]
  BY <1>6, <1>7
<1> QED
  BY <1>3, <1>4, <1>5, <1>8, BecomesKeepsInv, KeepsOthers

\* user_free keeps Inv and spares the other clients.
LEMMA FreeStep ==
  ASSUME Inv, NEW p \in DOMAIN held, user_free(p)
  PROVE  Inv' /\ OthersSpared
<1> DEFINE t == release(Ready, p)
<1>1. Agrees(Ready, held)
  BY ReadyAgrees
<1>2. p \in Nat /\ payload_to_header(p) \in DOMAIN Ready.blk
  BY HeldPointer
<1>3. /\ GoodArea(t) /\ SameUsed(Ready.blk, t.blk, payload_to_header(p))
      /\ payload_to_header(p) \notin Used(t.blk)
  BY <1>1, <1>2, Release DEF Agrees
<1>4. Becomes(t) /\ held' = Take(held, p)
  BY DEF user_free
<1> HIDE DEF t
<1>5. Agrees(t, held')
  BY <1>1, <1>2, <1>3, <1>4, TakeKeepsAgreement
<1>6. \A q \in DOMAIN held : q # p => q \in DOMAIN held' /\ held'[q] = held[q]
  BY <1>4 DEF Take
<1>7. \A a \in Used(Ready.blk) : a # payload_to_header(p) => t.blk[a].size = Ready.blk[a].size
  BY <1>3 DEF SameUsed
<1> QED
  BY <1>4, <1>5, <1>6, <1>7, BecomesKeepsInv, KeepsOthers

\* Shrinking a block in place keeps Inv and spares the other clients.
LEMMA ShrinkStep ==
  ASSUME Inv, NEW p \in DOMAIN held, NEW n \in SizeT, ReallocShrink(p, n)
  PROVE  Inv' /\ OthersSpared
<1> DEFINE h == payload_to_header(p)
           t == split_block(Ready, h, align_up(n))
<1>1. Agrees(Ready, held)
  BY ReadyAgrees
<1>2. /\ h \in DOMAIN Ready.blk /\ ~ Ready.blk[h].free
      /\ header_to_payload(h) = p /\ Ready.blk = blk
  BY HeldPointer
<1>3. align_up(n) \in Nat /\ Granted(n) \in Nat /\ Granted(n) <= align_up(n) /\ align_up(n) <= Ready.blk[h].size
  BY <1>2, AlignUp DEF ReallocShrink
<1>4. Becomes(t) /\ held' = Give(held, p, Granted(n))
  BY DEF ReallocShrink
<1> HIDE DEF h
<1>5. /\ GoodArea(t) /\ SameUsed(Ready.blk, t.blk, h)
      /\ h \in DOMAIN t.blk /\ t.blk[h].free = Ready.blk[h].free
      /\ align_up(n) <= t.blk[h].size
  BY <1>1, <1>2, <1>3, SplitBlock DEF Agrees
<1> HIDE DEF t
<1>6. t.blk[h].size \in Nat
  BY <1>5 DEF GoodArea, WellFormed, IsList, Header
<1>7. Granted(n) <= t.blk[h].size /\ ~ t.blk[h].free
  BY <1>2, <1>3, <1>5, <1>6
<1>8. Agrees(t, held')
  BY <1>1, <1>2, <1>3, <1>4, <1>5, <1>7, GiveKeepsAgreement
<1>9. \A q \in DOMAIN held : q # p => q \in DOMAIN held' /\ held'[q] = held[q]
  BY <1>4 DEF Give
<1>10. \A a \in Used(Ready.blk) : a # payload_to_header(p) => t.blk[a].size = Ready.blk[a].size
  BY <1>5 DEF SameUsed, h
<1> QED
  BY <1>4, <1>8, <1>9, <1>10, BecomesKeepsInv, KeepsOthers

\* Growing a block into the free one behind it keeps Inv and spares the others.
LEMMA GrowStep ==
  ASSUME Inv, NEW p \in DOMAIN held, NEW n \in SizeT, ReallocGrow(p, n)
  PROVE  Inv' /\ OthersSpared
<1> DEFINE h == payload_to_header(p)
           s == [blk |-> MergeNext(blk, h), tail |-> user_tail]
           t == split_block(s, h, align_up(n))
           u == Mark(t, h, FALSE)
<1>1. Agrees(Ready, held)
  BY ReadyAgrees
<1>2. /\ h \in DOMAIN blk /\ ~ blk[h].free /\ Ready = [blk |-> blk, tail |-> user_tail]
      /\ header_to_payload(h) = p /\ WellFormed(blk) /\ user_tail \in Nat
  BY HeldPointer DEF Inv, TypeOK, BlocksTileArea
<1>3. /\ NextIsFree(blk, h)
      /\ blk[h].size + SizeofHeader + blk[blk[h].next].size >= align_up(n)
  BY DEF ReallocGrow, GrowsInPlace
<1>4. Becomes(u) /\ held' = Give(held, p, Granted(n))
  BY DEF ReallocGrow
<1> HIDE DEF h
<1>5. /\ WellFormed(MergeNext(blk, h)) /\ h \in DOMAIN MergeNext(blk, h)
      /\ SameUsed(blk, MergeNext(blk, h), h)
      /\ MergeNext(blk, h)[h].size = blk[h].size + SizeofHeader + blk[blk[h].next].size
  <2>1. GoodArea(Ready) /\ h \in DOMAIN Ready.blk /\ NextIsFree(Ready.blk, h) /\ Ready.blk = blk
    BY <1>1, <1>2, <1>3 DEF Agrees
  <2> HIDE DEF s, t, u
  <2> QED
    BY <2>1, Absorb DEF GoodArea
<1>8. /\ GoodArea(s) /\ h \in DOMAIN s.blk /\ SameUsed(blk, s.blk, h)
      /\ align_up(n) <= s.blk[h].size
  <2>1. s.blk[h].size >= align_up(n)
    BY <1>3, <1>5
  <2>2. align_up(n) \in Nat /\ s.blk[h].size \in Nat
    BY <1>5, AlignUp DEF WellFormed, IsList, Header
  <2>3. align_up(n) <= s.blk[h].size
    BY <2>1, <2>2
  <2> QED
    BY <2>3, <1>2, <1>5 DEF GoodArea
<1> HIDE DEF s
<1>9. align_up(n) \in Nat /\ Granted(n) \in Nat /\ Granted(n) <= align_up(n)
  BY AlignUp
<1>10. /\ GoodArea(t) /\ SameUsed(s.blk, t.blk, h)
       /\ h \in DOMAIN t.blk /\ align_up(n) <= t.blk[h].size
  BY <1>8, <1>9, SplitBlock
<1> HIDE DEF t
<1>11. /\ GoodArea(u) /\ SameUsed(t.blk, u.blk, h) /\ h \in DOMAIN u.blk
       /\ u.blk[h].free = FALSE /\ u.blk[h].size = t.blk[h].size
  BY <1>10, MarkBlock
<1> HIDE DEF u
<1>12. SameUsed(Ready.blk, u.blk, h)
  BY <1>2, <1>8, <1>10, <1>11 DEF SameUsed
<1>13. u.blk[h].size \in Nat
  BY <1>11 DEF GoodArea, WellFormed, IsList, Header
<1>14. Granted(n) <= u.blk[h].size
  BY <1>9, <1>10, <1>11, <1>13
<1>15. Agrees(u, held')
  BY <1>1, <1>2, <1>4, <1>9, <1>11, <1>12, <1>14, GiveKeepsAgreement
<1>16. \A q \in DOMAIN held : q # p => q \in DOMAIN held' /\ held'[q] = held[q]
  BY <1>4 DEF Give
<1>17. \A a \in Used(Ready.blk) : a # payload_to_header(p) => u.blk[a].size = Ready.blk[a].size
  BY <1>12 DEF SameUsed, h
<1> QED
  BY <1>4, <1>15, <1>16, <1>17, BecomesKeepsInv, KeepsOthers

\* Moving an allocation to a new block keeps Inv and spares the other clients.
LEMMA MoveStep ==
  ASSUME Inv, NEW p \in DOMAIN held, NEW n \in SizeT, ReallocMove(p, n)
  PROVE  Inv' /\ OthersSpared
<1> DEFINE r == allocate(Ready, align_up(n))
           t == release(r.area, p)
<1>1. Agrees(Ready, held)
  BY ReadyAgrees
<1>2. /\ align_up(n) \in SizeT /\ align_up(n) \in Nat
      /\ Granted(n) \in Nat /\ Granted(n) <= align_up(n)
      /\ Granted(align_up(n)) = align_up(n)
  BY AlignUp
<1>3. /\ GoodArea(r.area)
      /\ \/ r.ptr = NULL /\ r.area = Ready
         \/ \E h \in DOMAIN Ready.blk :
              /\ r.ptr = header_to_payload(h) /\ r.ptr # NULL
              /\ Ready.blk[h].free
              /\ h \in DOMAIN r.area.blk /\ ~ r.area.blk[h].free
              /\ align_up(n) <= r.area.blk[h].size
              /\ SameUsed(Ready.blk, r.area.blk, h)
  BY <1>1, <1>2, Allocate DEF Agrees
<1>4. IF r.ptr = NULL THEN Becomes(Ready) /\ held' = held
      ELSE Becomes(t) /\ held' = Give(Take(held, p), r.ptr, Granted(n))
  BY DEF ReallocMove
<1>5. CASE r.ptr = NULL
  <2>1. Becomes(Ready) /\ held' = held
    BY <1>4, <1>5
  <2> QED
    BY <1>1, <2>1, BecomesKeepsInv, KeepsOthers
<1>6. CASE r.ptr # NULL
  <2> HIDE DEF r
  <2>1. PICK h \in DOMAIN Ready.blk :
              /\ r.ptr = header_to_payload(h)
              /\ Ready.blk[h].free
              /\ h \in DOMAIN r.area.blk /\ ~ r.area.blk[h].free
              /\ align_up(n) <= r.area.blk[h].size
              /\ SameUsed(Ready.blk, r.area.blk, h)
    BY <1>3, <1>6
  <2> DEFINE g == payload_to_header(p)
  <2>2. /\ p \in Nat /\ g \in Used(Ready.blk) /\ header_to_payload(g) = p
    BY HeldPointer DEF Used
  <2>3. g # h /\ g \in Used(r.area.blk)
    BY <2>1, <2>2 DEF SameUsed, Used
  <2>4. GoodArea(t) /\ SameUsed(r.area.blk, t.blk, g) /\ g \notin Used(t.blk)
    BY <1>3, <2>2, <2>3, Release DEF Used
  <2> HIDE DEF t, g
  <2>5. /\ r.area.blk[h].size \in Nat /\ h \in Nat
    BY <1>3, <2>1 DEF GoodArea, WellFormed, IsList, InArea, Header
  <2>6. Granted(n) <= r.area.blk[h].size
    BY <1>2, <2>1, <2>5
  <2>7. Agrees(r.area, Give(held, r.ptr, Granted(n)))
    BY <1>1, <1>2, <1>3, <2>1, <2>6, GiveKeepsAgreement
  <2>8. Agrees(t, Take(Give(held, r.ptr, Granted(n)), p))
    BY <2>2, <2>3, <2>4, <2>7, TakeKeepsAgreement DEF g, Used
  <2>9. r.ptr # p
    BY <2>1, <2>2, <2>3, <2>5, HeldPointer DEF header_to_payload, SizeofHeader, g
  <2>10. Take(Give(held, r.ptr, Granted(n)), p) = Give(Take(held, p), r.ptr, Granted(n))
    BY <2>9 DEF Take, Give
  <2>11. Becomes(t) /\ held' = Give(Take(held, p), r.ptr, Granted(n))
    BY <1>4, <1>6
  <2>12. \A q \in DOMAIN held : q # p => q \in DOMAIN held' /\ held'[q] = held[q]
    <3>1. r.ptr \notin DOMAIN held
      BY <2>1, <2>5, HeldPointer DEF payload_to_header, header_to_payload, SizeofHeader
    <3> QED
      BY <2>11, <3>1 DEF Give, Take
  <2>13. \A a \in Used(Ready.blk) : a # payload_to_header(p) => t.blk[a].size = Ready.blk[a].size
    BY <2>1, <2>4 DEF SameUsed, Used, g
  <2> QED
    BY <2>8, <2>10, <2>11, <2>12, <2>13, BecomesKeepsInv, KeepsOthers
<1> QED
  BY <1>5, <1>6

\* The conjunction of the properties that the model checker checks is an
\* inductive invariant of user_malloc.c.
THEOREM UserMallocInv == Spec => []Inv
<1>1. Init => Inv
  BY AreaAssumption DEF Init, Inv, TypeOK, BlocksTileArea, HeldIsBacked, NoFunction,
     IsList, Backed, Owned, NULL
<1>2. Inv /\ [Next]_vars => Inv'
  <2> SUFFICES ASSUME Inv, [Next]_vars PROVE Inv'
    OBVIOUS
  <2>1. CASE user_malloc_init
    <3>1. Ready = [blk |-> OneBlock, tail |-> Start] /\ held' = held
      BY <2>1 DEF user_malloc_init, Ready
    <3>2. Agrees([blk |-> OneBlock, tail |-> Start], held')
      BY <3>1, ReadyAgrees
    <3> QED
      BY <2>1, <3>2, BecomesKeepsInv DEF user_malloc_init
  <2>2. CASE \E n \in Sizes : user_malloc(n)
    BY <2>2, SizesAssumption, MallocStep
  <2>3. CASE \E p \in DOMAIN held : user_free(p)
    BY <2>3, FreeStep
  <2>4. CASE \E p \in DOMAIN held, n \in Sizes : user_realloc(p, n)
    BY <2>4, SizesAssumption, ShrinkStep, GrowStep, MoveStep DEF user_realloc
  <2>5. CASE UNCHANGED vars
    BY <2>5 DEF vars, Inv, TypeOK, BlocksTileArea, HeldIsBacked
  <2> QED
    BY <2>1, <2>2, <2>3, <2>4, <2>5 DEF Next
<1> QED
  BY <1>1, <1>2, PTL DEF Spec

\* The variables of user_malloc.c keep their types.
THEOREM UserMallocTypeOK == Spec => []TypeOK
<1>1. Inv => TypeOK
  BY DEF Inv
<1> QED
  BY <1>1, UserMallocInv, PTL

\* The blocks always tile the .user area.
THEOREM UserMallocTiles == Spec => []BlocksTileArea
<1>1. Inv => BlocksTileArea
  BY DEF Inv
<1> QED
  BY <1>1, UserMallocInv, PTL

\* Every pointer a program was given lies in a used block with room for what
\* it asked for, and no used block is lost.
THEOREM UserMallocBacks == Spec => []HeldIsBacked
<1>1. Inv => HeldIsBacked
  BY DEF Inv
<1> QED
  BY <1>1, UserMallocInv, PTL

\* What one program was given never shares a byte with what another was
\* given, nor with a header of the list.
THEOREM UserMallocSeparates == Spec => []PayloadsSeparate
<1>1. Inv => PayloadsSeparate
  <2> SUFFICES ASSUME Inv PROVE Separate(blk, held)
    BY DEF PayloadsSeparate
  <2>1. CASE user_head = NULL
    BY <2>1 DEF Inv, TypeOK, Separate
  <2>2. CASE user_head # NULL
    BY <2>2, BackedIsSeparate DEF Inv, BlocksTileArea, HeldIsBacked
  <2> QED
    BY <2>1, <2>2
<1> QED
  BY <1>1, UserMallocInv, PTL

\* An operation of user_malloc.c touches the allocation of at most one client.
THEOREM UserMallocSpares == Spec => OthersUntouched
<1>1. Inv /\ [Next]_vars => [OthersSpared]_vars
  <2> SUFFICES ASSUME Inv, Next PROVE OthersSpared
    OBVIOUS
  <2>1. CASE user_malloc_init
    <3>1. DOMAIN held = {}
      BY <2>1 DEF user_malloc_init, Inv, TypeOK
    <3> QED
      BY <3>1 DEF OthersSpared, Spared
  <2>2. CASE \E n \in Sizes : user_malloc(n)
    BY <2>2, SizesAssumption, MallocStep
  <2>3. CASE \E p \in DOMAIN held : user_free(p)
    BY <2>3, FreeStep
  <2>4. CASE \E p \in DOMAIN held, n \in Sizes : user_realloc(p, n)
    BY <2>4, SizesAssumption, ShrinkStep, GrowStep, MoveStep DEF user_realloc
  <2> QED
    BY <2>1, <2>2, <2>3, <2>4 DEF Next
<1> QED
  BY <1>1, UserMallocInv, PTL DEF Spec, OthersUntouched, OthersSpared, Spared

\* The statistics of the .user area account for every byte of it and count the
\* allocations that are outstanding.
THEOREM UserMallocCounts == Spec => []StatsExact
<1>1. Inv => StatsExact
  <2> SUFFICES ASSUME Inv, user_head # NULL
               PROVE  /\ get_usermalloc_stats.total_managed = Limit - Start
                      /\ get_usermalloc_stats.num_used = Cardinality(DOMAIN held)
    BY DEF StatsExact
  <2>1. WellFormed(blk) /\ Backed(blk, held) /\ Owned(blk, held)
    BY DEF Inv, BlocksTileArea, HeldIsBacked
  <2>2. get_usermalloc_stats.total_managed = Total(blk)
    BY DEF get_usermalloc_stats, Total, MapThenSumSet, MapThenFoldSet
  <2>3. get_usermalloc_stats.num_used = Cardinality({a \in DOMAIN blk : ~ blk[a].free})
    BY DEF get_usermalloc_stats, MapThenSumSet, MapThenFoldSet
  <2> QED
    BY <2>1, <2>2, <2>3, TotalIsTheArea, UsedAreHeld
<1> QED
  BY <1>1, UserMallocInv, PTL
=============================================================================
