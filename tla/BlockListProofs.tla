-------------------------- MODULE BlockListProofs --------------------------
(***************************************************************************)
(* What the operations on a list of blocks preserve, for every area and    *)
(* every list.  The proofs about the allocators rest on these lemmas.      *)
(***************************************************************************)
EXTENDS BlockList, FiniteSetsExt, TLAPS, FiniteSetTheorems

Used(b) == {a \in DOMAIN b : ~ b[a].free}

\* From b to c no used block has appeared, gone or changed size, but for h.
SameUsed(b, c, h) ==
  /\ Used(b) \ {h} = Used(c) \ {h}
  /\ \A a \in Used(b) \ {h} : c[a].size = b[a].size

\* align_up returns a size, and one that is as large as what the client can
\* count on; a size that is rounded up already stays what it is.
LEMMA AlignUp ==
  ASSUME NEW n \in SizeT
  PROVE  /\ align_up(n) \in SizeT /\ align_up(n) \in Nat
         /\ Granted(n) \in Nat /\ Granted(n) <= align_up(n)
         /\ Granted(align_up(n)) = align_up(n)
<1>1. n \in Nat /\ n < WORD /\ WORD \in Nat /\ WORD % 8 = 0 /\ 7 < WORD
  BY AreaAssumption DEF SizeT, SizeofHeader, MIN_SPLIT_SIZE, ALIGN
<1> DEFINE m == Plus(n, 7)
<1>2. m \in Nat /\ m < WORD /\ (n + 7 < WORD => m = n + 7)
  BY <1>1 DEF Plus
<1>3. align_up(n) = (m \div 8) * 8
  BY DEF align_up, ALIGN
<1> HIDE DEF m
<1>4. align_up(n) \in Nat /\ align_up(n) <= m /\ m < align_up(n) + 8 /\ align_up(n) + 7 < WORD
  BY <1>1, <1>2, <1>3
<1> QED
  BY <1>1, <1>2, <1>4 DEF Granted, ALIGN, SizeT

\* The initial list tiles the area.
LEMMA OneBlockWF == WellFormed(OneBlock)
  BY AreaAssumption DEF OneBlock, WellFormed, IsList, Header, InArea, Disjoint,
     NextLinked, PrevLinked, BlockEnd, SizeofHeader, NULL

\* Marking a block changes nothing else.
LEMMA SetFreeWF ==
  ASSUME NEW b, WellFormed(b), NEW h \in DOMAIN b, NEW f \in BOOLEAN
  PROVE  /\ WellFormed(SetFree(b, h, f))
         /\ DOMAIN SetFree(b, h, f) = DOMAIN b
         /\ SetFree(b, h, f)[h].free = f
         /\ \A a \in DOMAIN b : /\ SetFree(b, h, f)[a].size = b[a].size
                                /\ SetFree(b, h, f)[a].prev = b[a].prev
                                /\ SetFree(b, h, f)[a].next = b[a].next
                                /\ a # h => SetFree(b, h, f)[a].free = b[a].free
<1> DEFINE c == SetFree(b, h, f)
<1>1. b[h] \in Header /\ \A a \in DOMAIN b : b[a] \in Header
  BY DEF WellFormed, IsList
<1>2. c = [a \in DOMAIN b |-> IF a = h THEN [b[h] EXCEPT !.free = f] ELSE b[a]]
  BY DEF SetFree, WellFormed, IsList
<1>3. DOMAIN c = DOMAIN b /\ c[h].free = f
  BY <1>1, <1>2 DEF Header
<1>4. \A a \in DOMAIN b : /\ c[a].size = b[a].size
                          /\ c[a].prev = b[a].prev
                          /\ c[a].next = b[a].next
                          /\ a # h => c[a].free = b[a].free
                          /\ c[a] \in Header
  BY <1>1, <1>2 DEF Header
<1> HIDE DEF c
<1>5. IsList(c)
  BY <1>2, <1>3, <1>4 DEF IsList
<1>6. \A a \in DOMAIN c : BlockEnd(c, a) = BlockEnd(b, a)
  BY <1>3, <1>4 DEF BlockEnd
<1>7. InArea(c) /\ Disjoint(c) /\ NextLinked(c) /\ PrevLinked(c)
  BY <1>3, <1>4, <1>6 DEF WellFormed, InArea, Disjoint, NextLinked, PrevLinked
<1> QED
  BY <1>3, <1>4, <1>5, <1>7 DEF WellFormed, c

\* A set of natural numbers that is not empty has a least element.
LEMMA LeastElement ==
  ASSUME NEW S, S \subseteq Nat, S # {}
  PROVE  \E m \in S : \A g \in S : m <= g
<1>1. PICK m \in S : \A g \in S : <<g, m>> \notin OpToRel(<, Nat)
  BY NatLessThanWellFounded, WFMin
<1>2. \A g, k \in Nat : g < k => <<g, k>> \in OpToRel(<, Nat)
  BY Zenon DEF OpToRel
<1>3. \A g \in S : ~ (g < m)
  BY <1>1, <1>2, Zenon
<1> QED
  BY <1>3

\* The block find_fit returns is free, large enough and in the list.
LEMMA FindFitWF ==
  ASSUME NEW b, WellFormed(b), NEW size \in Nat, FindFit(b, size) # NULL
  PROVE  FindFit(b, size) \in Fits(b, size)
<1>1. Fits(b, size) # {} /\ Fits(b, size) \subseteq Nat
  BY DEF FindFit, Fits, WellFormed, InArea
<1>2. \E h \in Fits(b, size) : \A g \in Fits(b, size) : h <= g
  BY <1>1, LeastElement
<1> QED
  BY <1>1, <1>2 DEF FindFit

\* Splitting a block gives a well-formed list again: the block keeps its
\* address and its state, every other block is left alone, and the one new
\* block is free.
LEMMA SplitWF ==
  ASSUME NEW b, WellFormed(b), NEW h \in DOMAIN b, NEW req \in Nat,
         Splits(b, h, req)
  PROVE  LET c == Split(b, h, req)  newh == header_to_payload(h) + req
         IN  /\ WellFormed(c)
             /\ newh \notin DOMAIN b /\ DOMAIN c = DOMAIN b \cup {newh}
             /\ c[newh].free
             /\ c[h].size = req /\ c[h].free = b[h].free
             /\ \A a \in DOMAIN b \ {h} : c[a].size = b[a].size /\ c[a].free = b[a].free
<1> DEFINE newh == header_to_payload(h) + req
           c == Split(b, h, req)
           rest == [size |-> b[h].size - req - SizeofHeader, free |-> TRUE,
                    prev |-> h, next |-> b[h].next]
<1>0. /\ \A a \in DOMAIN b : b[a] \in Header /\ a \in Nat /\ Start <= a
      /\ h \in Nat /\ b[h].size \in Nat /\ SizeofHeader = 40 /\ NULL = 0
      /\ b[h].size >= req + 48 /\ newh = h + 40 + req
      /\ Start \in Nat /\ Start > 0 /\ Limit \in Nat
  BY AreaAssumption DEF WellFormed, IsList, InArea, Header, Splits, MIN_SPLIT_SIZE,
     ALIGN, SizeofHeader, header_to_payload, NULL
<1>1. newh \in Nat /\ newh > h /\ newh < BlockEnd(b, h) /\ newh \notin DOMAIN b
  BY <1>0 DEF WellFormed, Disjoint, BlockEnd
<1>2. c = [a \in DOMAIN b \cup {newh} |->
             IF a = newh THEN rest
             ELSE IF a = h THEN [b[h] EXCEPT !.size = req, !.next = newh]
             ELSE IF a = b[h].next THEN [b[a] EXCEPT !.prev = newh]
             ELSE b[a]]
  BY DEF Split
<1> HIDE DEF newh, c
<1>3. DOMAIN c = DOMAIN b \cup {newh}
  BY <1>2
<1>4. /\ c[newh] = rest
      /\ rest \in Header
      /\ rest.size = b[h].size - req - 40 /\ rest.prev = h /\ rest.next = b[h].next
      /\ rest.free = TRUE
  BY <1>0, <1>2 DEF Header
<1>5. /\ c[h] \in Header
      /\ c[h].size = req /\ c[h].next = newh /\ c[h].prev = b[h].prev
      /\ c[h].free = b[h].free
  BY <1>0, <1>1, <1>2 DEF Header
<1>6. \A a \in DOMAIN b \ {h} :
        /\ c[a] \in Header
        /\ c[a].size = b[a].size /\ c[a].free = b[a].free /\ c[a].next = b[a].next
        /\ c[a].prev = IF a = b[h].next THEN newh ELSE b[a].prev
  BY <1>0, <1>1, <1>2 DEF Header
<1> HIDE DEF rest
<1>7. IsList(c)
  BY <1>2, <1>3, <1>4, <1>5, <1>6 DEF IsList
<1>8. /\ BlockEnd(c, newh) = BlockEnd(b, h)
      /\ BlockEnd(c, h) = newh
      /\ \A a \in DOMAIN b \ {h} : BlockEnd(c, a) = BlockEnd(b, a)
      /\ \A a \in DOMAIN b : BlockEnd(b, a) \in Nat
  BY <1>0, <1>1, <1>4, <1>5, <1>6 DEF BlockEnd, Header
<1>9. InArea(c) /\ Start \in DOMAIN c
  BY <1>0, <1>1, <1>3, <1>8 DEF WellFormed, InArea
<1>10. Disjoint(c)
  <2> SUFFICES ASSUME NEW a \in DOMAIN c, NEW d \in DOMAIN c, a < d
               PROVE  BlockEnd(c, a) <= d
    BY DEF Disjoint
  <2>1. \A x, y \in DOMAIN b : x < y => BlockEnd(b, x) <= y
    BY DEF WellFormed, Disjoint
  <2> QED
    BY <1>0, <1>1, <1>3, <1>8, <2>1
<1>11. NextLinked(c)
  <2> SUFFICES ASSUME NEW a \in DOMAIN c
               PROVE  IF BlockEnd(c, a) = Limit THEN c[a].next = NULL
                      ELSE /\ c[a].next = BlockEnd(c, a)
                           /\ c[a].next \in DOMAIN c
                           /\ c[c[a].next].prev = a
    BY DEF NextLinked
  <2>0. /\ NextLinked(b) /\ newh < Limit
        /\ \A x \in DOMAIN b : BlockEnd(b, x) # Limit => x < b[x].next
    BY <1>0, <1>1, <1>8 DEF WellFormed, NextLinked, InArea, BlockEnd, Header
  <2>1. CASE a = h
    BY <2>0, <2>1, <1>1, <1>3, <1>4, <1>5, <1>8
  <2>2. CASE a = newh
    BY <2>0, <2>2, <1>0, <1>1, <1>3, <1>4, <1>6, <1>8 DEF NextLinked
  <2>3. CASE a # h /\ a # newh
    BY <2>0, <2>3, <1>0, <1>1, <1>3, <1>5, <1>6, <1>8 DEF NextLinked
  <2> QED
    BY <2>1, <2>2, <2>3
<1>12. PrevLinked(c)
  <2> SUFFICES ASSUME NEW a \in DOMAIN c
               PROVE  IF a = Start THEN c[a].prev = NULL
                      ELSE c[a].prev \in DOMAIN c /\ c[c[a].prev].next = a
    BY DEF PrevLinked
  <2>0. PrevLinked(b) /\ NextLinked(b)
    BY DEF WellFormed
  <2>1. CASE a = h
    <3>1. a # Start => b[a].prev \in DOMAIN b \ {h} /\ b[b[a].prev].next = a
      BY <2>0, <2>1, <1>0, <1>1 DEF PrevLinked, NextLinked, BlockEnd, Header
    <3> QED
      BY <3>1, <2>0, <2>1, <1>1, <1>3, <1>5, <1>6 DEF PrevLinked
  <2>2. CASE a = newh
    BY <2>2, <1>0, <1>1, <1>3, <1>4, <1>5
  <2>3. CASE a \in DOMAIN b \ {h} /\ a = b[h].next
    <3>1. a # Start
      BY <2>0, <2>3, <1>0 DEF NextLinked, BlockEnd
    <3> QED
      BY <3>1, <2>3, <1>3, <1>4, <1>6
  <2>4. CASE a \in DOMAIN b \ {h} /\ a # b[h].next
    BY <2>0, <2>4, <1>0, <1>1, <1>3, <1>6 DEF PrevLinked
  <2> QED
    BY <2>1, <2>2, <2>3, <2>4, <1>3
<1> QED
  BY <1>1, <1>3, <1>4, <1>5, <1>6, <1>7, <1>9, <1>10, <1>11, <1>12 DEF WellFormed, c, newh

\* Merging a block with the one behind it gives a well-formed list again: the
\* block keeps its address and its state, every other block is left alone.
LEMMA MergeNextWF ==
  ASSUME NEW b, WellFormed(b), NEW h \in DOMAIN b, b[h].next # NULL
  PROVE  LET c == MergeNext(b, h)  n == b[h].next
         IN  /\ WellFormed(c)
             /\ n \in DOMAIN b /\ n # h /\ DOMAIN c = DOMAIN b \ {n}
             /\ c[h].size = b[h].size + SizeofHeader + b[n].size
             /\ c[h].free = b[h].free /\ c[h].prev = b[h].prev
             /\ \A a \in DOMAIN c \ {h} : c[a].size = b[a].size /\ c[a].free = b[a].free
<1> DEFINE n == b[h].next
           c == MergeNext(b, h)
<1>0. /\ \A a \in DOMAIN b : b[a] \in Header /\ a \in Nat /\ Start <= a
      /\ h \in Nat /\ b[h].size \in Nat /\ SizeofHeader = 40 /\ NULL = 0
      /\ Start \in Nat /\ Start > 0 /\ Limit \in Nat
  BY AreaAssumption DEF WellFormed, IsList, InArea, Header, SizeofHeader, NULL
<1>1. /\ n \in DOMAIN b /\ n \in Nat /\ n = BlockEnd(b, h) /\ n > h /\ b[n].prev = h
      /\ b[n].size \in Nat /\ BlockEnd(b, h) # Limit
  BY <1>0 DEF WellFormed, NextLinked, BlockEnd, Header
<1>2. c = [a \in DOMAIN b \ {n} |->
             IF a = h THEN [b[h] EXCEPT !.size = @ + SizeofHeader + b[n].size,
                                        !.next = b[n].next]
             ELSE IF a = b[n].next THEN [b[a] EXCEPT !.prev = h]
             ELSE b[a]]
  BY DEF MergeNext
<1> HIDE DEF n, c
<1>3. DOMAIN c = DOMAIN b \ {n}
  BY <1>2
<1>4. /\ c[h] \in Header
      /\ c[h].size = b[h].size + 40 + b[n].size /\ c[h].next = b[n].next
      /\ c[h].prev = b[h].prev /\ c[h].free = b[h].free
  <2> DEFINE k == b[h].size + SizeofHeader + b[n].size
  <2>1. h # n /\ k \in Nat /\ b[n].next \in Nat /\ b[h] \in Header
    BY <1>0, <1>1 DEF Header
  <2>2. c[h] = [b[h] EXCEPT !.size = k, !.next = b[n].next]
    BY <2>1, <1>2
  <2>3. k = b[h].size + 40 + b[n].size
    BY <1>0
  <2> HIDE DEF k
  <2>4. [b[h] EXCEPT !.size = k, !.next = b[n].next] \in Header
    BY <2>1 DEF Header
  <2> QED
    BY <2>1, <2>2, <2>3, <2>4 DEF Header
<1>5. \A a \in DOMAIN c \ {h} :
        /\ c[a] \in Header
        /\ c[a].size = b[a].size /\ c[a].free = b[a].free /\ c[a].next = b[a].next
        /\ c[a].prev = IF a = b[n].next THEN h ELSE b[a].prev
  BY <1>0, <1>1, <1>2 DEF Header
<1>6. IsList(c)
  BY <1>2, <1>3, <1>4, <1>5 DEF IsList
<1>7. /\ BlockEnd(c, h) = BlockEnd(b, n)
      /\ \A a \in DOMAIN c \ {h} : BlockEnd(c, a) = BlockEnd(b, a)
      /\ \A a \in DOMAIN b : BlockEnd(b, a) \in Nat /\ a < BlockEnd(b, a)
  BY <1>0, <1>1, <1>3, <1>4, <1>5 DEF BlockEnd, Header
<1>8. InArea(c) /\ Start \in DOMAIN c
  BY <1>0, <1>1, <1>3, <1>7 DEF WellFormed, InArea
<1>9. Disjoint(c)
  <2> SUFFICES ASSUME NEW a \in DOMAIN c, NEW d \in DOMAIN c, a < d
               PROVE  BlockEnd(c, a) <= d
    BY DEF Disjoint
  <2>1. \A x, y \in DOMAIN b : x < y => BlockEnd(b, x) <= y
    BY DEF WellFormed, Disjoint
  <2> QED
    BY <1>0, <1>1, <1>3, <1>7, <2>1
<1>10. NextLinked(c)
  <2> SUFFICES ASSUME NEW a \in DOMAIN c
               PROVE  IF BlockEnd(c, a) = Limit THEN c[a].next = NULL
                      ELSE /\ c[a].next = BlockEnd(c, a)
                           /\ c[a].next \in DOMAIN c
                           /\ c[c[a].next].prev = a
    BY DEF NextLinked
  <2>0. NextLinked(b)
    BY DEF WellFormed
  <2>1. CASE a = h
    <3>1. BlockEnd(b, n) # Limit => b[n].next \in DOMAIN c \ {h}
      BY <2>0, <1>0, <1>1, <1>3, <1>7 DEF NextLinked
    <3> QED
      BY <3>1, <2>0, <2>1, <1>1, <1>4, <1>5, <1>7 DEF NextLinked
  <2>2. CASE a # h
    <3>1. BlockEnd(b, a) # Limit => b[a].next \in DOMAIN c /\ b[a].next # b[n].next
      BY <2>0, <2>2, <1>0, <1>1, <1>3, <1>7 DEF NextLinked
    <3> QED
      BY <3>1, <2>0, <2>2, <1>3, <1>4, <1>5, <1>7 DEF NextLinked
  <2> QED
    BY <2>1, <2>2
<1>11. PrevLinked(c)
  <2> SUFFICES ASSUME NEW a \in DOMAIN c
               PROVE  IF a = Start THEN c[a].prev = NULL
                      ELSE c[a].prev \in DOMAIN c /\ c[c[a].prev].next = a
    BY DEF PrevLinked
  <2>0. PrevLinked(b) /\ NextLinked(b)
    BY DEF WellFormed
  <2>1. CASE a = h
    <3>1. a # Start => b[a].prev \in DOMAIN c \ {h}
      BY <2>0, <2>1, <1>0, <1>1, <1>3, <1>7 DEF PrevLinked, NextLinked
    <3> QED
      BY <3>1, <2>0, <2>1, <1>3, <1>4, <1>5 DEF PrevLinked
  <2>2. CASE a # h /\ a = b[n].next
    <3>1. a # Start
      BY <2>0, <2>2, <1>0, <1>1, <1>3, <1>7 DEF NextLinked
    <3> QED
      BY <3>1, <2>2, <1>1, <1>3, <1>4, <1>5
  <2>3. CASE a # h /\ a # b[n].next
    <3>1. a # Start => b[a].prev \in DOMAIN b /\ b[b[a].prev].next = a
                       /\ b[a].prev # n /\ b[a].prev # h
      BY <2>0, <2>3, <1>1, <1>3 DEF PrevLinked, n
    <3> QED
      BY <3>1, <2>0, <2>3, <1>3, <1>5 DEF PrevLinked
  <2> QED
    BY <2>1, <2>2, <2>3
<1> QED
  BY <1>0, <1>1, <1>3, <1>4, <1>5, <1>6, <1>8, <1>9, <1>10, <1>11 DEF WellFormed, c, n

\* The merged block keeps its flag and its link backwards.
LEMMA MergeNextKeeps ==
  ASSUME NEW b, WellFormed(b), NEW h \in DOMAIN b, b[h].next # NULL
  PROVE  MergeNext(b, h)[h].free = b[h].free /\ MergeNext(b, h)[h].prev = b[h].prev
<1> DEFINE c == MergeNext(b, h)
           n == b[h].next
           k == b[h].size + SizeofHeader + b[n].size
<1>1. n \in DOMAIN b /\ n # h
  BY MergeNextWF
<1>2. b[h] \in Header
  BY DEF WellFormed, IsList
<1>3. c[h] = [b[h] EXCEPT !.size = k, !.next = b[n].next]
  BY <1>1 DEF MergeNext
<1> HIDE DEF k, c
<1>4. c[h].free = b[h].free /\ c[h].prev = b[h].prev
  BY <1>2, <1>3 DEF Header
<1> QED
  BY <1>4 DEF c

\* The merged block has the two payloads and the header between them.
LEMMA MergeNextSize ==
  ASSUME NEW b, WellFormed(b), NEW h \in DOMAIN b, b[h].next # NULL
  PROVE  MergeNext(b, h)[h].size = b[h].size + SizeofHeader + b[b[h].next].size
<1> DEFINE c == MergeNext(b, h)
           n == b[h].next
           k == b[h].size + SizeofHeader + b[n].size
<1>1. n \in DOMAIN b /\ n # h
  BY MergeNextWF
<1>2. b[h] \in Header
  BY DEF WellFormed, IsList
<1>3. c[h] = [b[h] EXCEPT !.size = k, !.next = b[n].next]
  BY <1>1 DEF MergeNext
<1> HIDE DEF k, c
<1>4. c[h].size = k
  BY <1>2, <1>3 DEF Header
<1> QED
  BY <1>4 DEF k, c

\* The three operations on a list change no used block but the one they name.
LEMMA OperationsKeepUsed ==
  ASSUME NEW b, WellFormed(b), NEW h \in DOMAIN b
  PROVE  /\ \A f \in BOOLEAN : SameUsed(b, SetFree(b, h, f), h)
         /\ \A req \in Nat : Splits(b, h, req) => SameUsed(b, Split(b, h, req), h)
         /\ NextIsFree(b, h) => SameUsed(b, MergeNext(b, h), h)
<1>1. ASSUME NEW f \in BOOLEAN PROVE SameUsed(b, SetFree(b, h, f), h)
  BY SetFreeWF DEF SameUsed, Used
<1>2. ASSUME NEW req \in Nat, Splits(b, h, req) PROVE SameUsed(b, Split(b, h, req), h)
  <2> DEFINE c == Split(b, h, req)
             newh == header_to_payload(h) + req
  <2>1. /\ newh \notin DOMAIN b /\ DOMAIN c = DOMAIN b \cup {newh}
        /\ c[newh].free
        /\ \A a \in DOMAIN b \ {h} : c[a].size = b[a].size /\ c[a].free = b[a].free
    BY <1>2, SplitWF
  <2> HIDE DEF c, newh
  <2>2. SameUsed(b, c, h)
    BY <2>1 DEF SameUsed, Used
  <2> QED
    BY <2>2 DEF c
<1>3. ASSUME NextIsFree(b, h) PROVE SameUsed(b, MergeNext(b, h), h)
  <2> DEFINE c == MergeNext(b, h)
             n == b[h].next
  <2>1. /\ n \in DOMAIN b /\ n # h /\ DOMAIN c = DOMAIN b \ {n} /\ b[n].free
        /\ \A a \in DOMAIN c \ {h} : c[a].size = b[a].size /\ c[a].free = b[a].free
    BY <1>3, MergeNextWF DEF NextIsFree
  <2> HIDE DEF c, n
  <2>2. SameUsed(b, c, h)
    BY <2>1 DEF SameUsed, Used
  <2> QED
    BY <2>2 DEF c
<1> QED
  BY <1>1, <1>2, <1>3

\* Handing out, or resizing, the block at h keeps the clients' view and the
\* list in agreement.
LEMMA GiveAgrees ==
  ASSUME NEW b, NEW c, WellFormed(b), WellFormed(c), NEW held,
         Backed(b, held), Owned(b, held),
         NEW h \in DOMAIN c, SameUsed(b, c, h), ~ c[h].free,
         NEW n \in Nat, n <= c[h].size
  PROVE  LET g == Give(held, header_to_payload(h), n)
         IN  Backed(c, g) /\ Owned(c, g)
<1> DEFINE p == header_to_payload(h)
           g == Give(held, p, n)
<1>0. SizeofHeader = 40 /\ h \in Nat /\ p = h + 40 /\ p \in Nat
  BY DEF SizeofHeader, header_to_payload, WellFormed, InArea
<1>1. DOMAIN g = DOMAIN held \cup {p} /\ g[p] = n
      /\ \A q \in DOMAIN held \ {p} : g[q] = held[q]
  BY DEF Give
<1> HIDE DEF g, p
<1>2. \A a \in DOMAIN c : a \in Nat
  BY DEF WellFormed, InArea
<1>2b. \A a \in DOMAIN b : a \in Nat
  BY DEF WellFormed, InArea
<1>3. Backed(c, g)
  <2> SUFFICES ASSUME NEW q \in DOMAIN g
               PROVE  /\ q \in Nat /\ g[q] \in Nat
                      /\ q - 40 \in DOMAIN c
                      /\ ~ c[q - 40].free
                      /\ g[q] <= c[q - 40].size
    BY <1>0 DEF Backed, payload_to_header
  <2>1. CASE q = p
    BY <2>1, <1>0, <1>1
  <2>2. CASE q # p
    <3>1. /\ q \in DOMAIN held /\ g[q] = held[q] /\ q \in Nat /\ held[q] \in Nat
          /\ q - 40 \in Used(b) /\ held[q] <= b[q - 40].size
      BY <2>2, <1>0, <1>1 DEF Backed, payload_to_header, Used
    <3>2. q - 40 # h
      BY <3>1, <2>2, <1>0
    <3> QED
      BY <3>1, <3>2 DEF SameUsed, Used
  <2> QED
    BY <2>1, <2>2
<1>4. Owned(c, g)
  BY <1>0, <1>1 DEF Owned, SameUsed, Used, header_to_payload, p
<1> QED
  BY <1>3, <1>4 DEF g, p

\* Releasing the block at h keeps them in agreement too.
LEMMA TakeAgrees ==
  ASSUME NEW b, NEW c, WellFormed(b), WellFormed(c), NEW held,
         Backed(b, held), Owned(b, held),
         NEW h \in Nat, SameUsed(b, c, h), h \notin Used(c)
  PROVE  LET g == Take(held, header_to_payload(h))
         IN  Backed(c, g) /\ Owned(c, g)
<1> DEFINE p == header_to_payload(h)
           g == Take(held, p)
<1>0. SizeofHeader = 40 /\ p = h + 40 /\ p \in Nat
  BY DEF SizeofHeader, header_to_payload
<1>1. DOMAIN g = DOMAIN held \ {p} /\ \A q \in DOMAIN g : g[q] = held[q]
  BY DEF Take
<1> HIDE DEF g, p
<1>2. \A a \in DOMAIN c : a \in Nat
  BY DEF WellFormed, InArea
<1>3. Backed(c, g)
  <2> SUFFICES ASSUME NEW q \in DOMAIN g
               PROVE  /\ q \in Nat /\ g[q] \in Nat
                      /\ q - 40 \in DOMAIN c
                      /\ ~ c[q - 40].free
                      /\ g[q] <= c[q - 40].size
    BY <1>0 DEF Backed, payload_to_header
  <2>1. /\ q \in DOMAIN held /\ g[q] = held[q] /\ q \in Nat /\ held[q] \in Nat /\ q # p
        /\ q - 40 \in Used(b) /\ held[q] <= b[q - 40].size
    BY <1>0, <1>1 DEF Backed, payload_to_header, Used
  <2>2. q - 40 # h
    BY <2>1, <1>0
  <2> QED
    BY <2>1, <2>2 DEF SameUsed, Used
<1>4. Owned(c, g)
  <2> SUFFICES ASSUME NEW a \in DOMAIN c, ~ c[a].free
               PROVE  a + 40 \in DOMAIN g
    BY <1>0 DEF Owned, header_to_payload
  <2>1. a \in Used(c) /\ a # h /\ a \in Nat
    BY <1>2 DEF Used
  <2>2. a \in Used(b)
    BY <2>1 DEF SameUsed
  <2>3. a + 40 \in DOMAIN held
    BY <2>2, <1>0 DEF Owned, Used, header_to_payload
  <2> QED
    BY <2>1, <2>3, <1>0, <1>1
<1> QED
  BY <1>3, <1>4 DEF g, p

\* Clients whose pointers are backed by blocks of a well-formed list cannot
\* touch each other's bytes nor a header.
LEMMA BackedIsSeparate ==
  ASSUME NEW b, WellFormed(b), NEW held, Backed(b, held)
  PROVE  Separate(b, held)
<1>0. SizeofHeader = 40 /\ Start \in Nat /\ Limit \in Nat
  BY AreaAssumption DEF SizeofHeader
<1>1. \A a \in DOMAIN b : a \in Nat /\ b[a].size \in Nat /\ Start <= a
                           /\ a + 40 + b[a].size <= Limit
  BY <1>0 DEF WellFormed, IsList, Header, InArea, BlockEnd
<1>2. \A a, c \in DOMAIN b : a < c => a + 40 + b[a].size <= c
  BY <1>0 DEF WellFormed, Disjoint, BlockEnd
<1>3. \A p \in DOMAIN held : p \in Nat /\ held[p] \in Nat /\ p - 40 \in DOMAIN b
                              /\ held[p] <= b[p - 40].size
  BY <1>0 DEF Backed, payload_to_header
<1> SUFFICES ASSUME NEW p \in DOMAIN held
             PROVE  /\ Start + 40 <= p /\ p + held[p] <= Limit
                    /\ \A a \in DOMAIN b : Apart(p, held[p], a, 40)
                    /\ \A q \in DOMAIN held \ {p} : Apart(p, held[p], q, held[q])
  BY <1>0 DEF Separate
<1>4. Start + 40 <= p /\ p + held[p] <= Limit
  BY <1>0, <1>1, <1>3
<1>5. ASSUME NEW a \in DOMAIN b PROVE Apart(p, held[p], a, 40)
  BY <1>1, <1>2, <1>3 DEF Apart
<1>6. ASSUME NEW q \in DOMAIN held \ {p} PROVE Apart(p, held[p], q, held[q])
  <2>1. p - 40 # q - 40 /\ p - 40 \in DOMAIN b /\ q - 40 \in DOMAIN b
    BY <1>3
  <2> QED
    BY <2>1, <1>1, <1>2, <1>3 DEF Apart
<1> QED
  BY <1>4, <1>5, <1>6

-----------------------------------------------------------------------------
\* [blk, tail] as the functions of the allocators find it.
GoodArea(s) ==
  /\ s = [blk |-> s.blk, tail |-> s.tail]
  /\ WellFormed(s.blk)
  /\ s.tail \in Nat

\* Splitting keeps an area good and every used block but the one split.
LEMMA SplitBlock ==
  ASSUME NEW s, GoodArea(s), NEW h \in DOMAIN s.blk, NEW req \in Nat,
         req <= s.blk[h].size
  PROVE  LET t == split_block(s, h, req)
         IN  /\ GoodArea(t) /\ SameUsed(s.blk, t.blk, h)
             /\ h \in DOMAIN t.blk /\ t.blk[h].free = s.blk[h].free
             /\ req <= t.blk[h].size
<1>1. CASE ~ Splits(s.blk, h, req)
  BY <1>1 DEF split_block, SameUsed, GoodArea
<1>2. CASE Splits(s.blk, h, req)
  <2> DEFINE c == Split(s.blk, h, req)
             k == IF s.tail = h THEN header_to_payload(h) + req ELSE s.tail
  <2>1. split_block(s, h, req) = [blk |-> c, tail |-> k]
    BY <1>2 DEF split_block
  <2>2. k \in Nat
    BY DEF GoodArea, WellFormed, InArea, header_to_payload, SizeofHeader
  <2>3. /\ WellFormed(c) /\ h \in DOMAIN c /\ c[h].size = req
        /\ c[h].free = s.blk[h].free
    <3> DEFINE newh == header_to_payload(h) + req
    <3>0. PICK b : b = s.blk
      OBVIOUS
    <3>1. WellFormed(b) /\ h \in DOMAIN b /\ Splits(b, h, req)
      BY <1>2, <3>0 DEF GoodArea
    <3>2. /\ WellFormed(Split(b, h, req))
          /\ DOMAIN Split(b, h, req) = DOMAIN b \cup {newh}
          /\ Split(b, h, req)[h].size = req /\ Split(b, h, req)[h].free = b[h].free
      BY <3>1, SplitWF
    <3> QED
      BY <3>0, <3>2
  <2>4. SameUsed(s.blk, c, h)
    BY <1>2, OperationsKeepUsed DEF GoodArea
  <2> HIDE DEF c, k
  <2> QED
    BY <2>1, <2>2, <2>3, <2>4 DEF GoodArea
<1> QED
  BY <1>1, <1>2

\* Taking in a free block behind h keeps an area good, and every used block
\* but h.
LEMMA Absorb ==
  ASSUME NEW s, GoodArea(s), NEW h \in DOMAIN s.blk, NextIsFree(s.blk, h)
  PROVE  LET t == absorb(s, h)
         IN  /\ GoodArea(t) /\ SameUsed(s.blk, t.blk, h)
             /\ h \in DOMAIN t.blk /\ t.blk[h].free = s.blk[h].free
             /\ t.blk[h].prev = s.blk[h].prev
             /\ t.blk = MergeNext(s.blk, h)
             /\ t.blk[h].size = s.blk[h].size + SizeofHeader + s.blk[s.blk[h].next].size
<1> DEFINE c == MergeNext(s.blk, h)
           k == IF s.tail = s.blk[h].next THEN h ELSE s.tail
<1>1. absorb(s, h) = [blk |-> c, tail |-> k]
  BY DEF absorb
<1>2. k \in Nat
  BY DEF GoodArea, WellFormed, InArea
<1>3. /\ WellFormed(c) /\ h \in DOMAIN c /\ c[h].free = s.blk[h].free
      /\ c[h].prev = s.blk[h].prev
      /\ c[h].size = s.blk[h].size + SizeofHeader + s.blk[s.blk[h].next].size
  <2>0. PICK b : b = s.blk
    OBVIOUS
  <2> DEFINE n == b[h].next
  <2>1. WellFormed(b) /\ h \in DOMAIN b /\ n # NULL
    BY <2>0 DEF GoodArea, NextIsFree
  <2>2. /\ WellFormed(MergeNext(b, h)) /\ n # h
        /\ DOMAIN MergeNext(b, h) = DOMAIN b \ {n}
    BY <2>1, MergeNextWF
  <2>3. MergeNext(b, h)[h].free = b[h].free
    BY <2>1, MergeNextKeeps
  <2>4. MergeNext(b, h)[h].prev = b[h].prev
    BY <2>1, MergeNextKeeps
  <2>5. MergeNext(b, h)[h].size = b[h].size + SizeofHeader + b[n].size
    BY <2>1, MergeNextSize
  <2>6. h \in DOMAIN MergeNext(b, h)
    BY <2>1, <2>2
  <2> QED
    BY <2>0, <2>2, <2>3, <2>4, <2>5, <2>6
<1>4. SameUsed(s.blk, c, h)
  BY OperationsKeepUsed DEF GoodArea
<1> HIDE DEF c, k
<1> QED
  BY <1>1, <1>2, <1>3, <1>4 DEF GoodArea, c

\* coalesce, called on a free block, changes no used block.
LEMMA Coalesce ==
  ASSUME NEW s, GoodArea(s), NEW h \in DOMAIN s.blk, s.blk[h].free
  PROVE  LET t == coalesce(s, h)
         IN  GoodArea(t) /\ SameUsed(s.blk, t.blk, h) /\ h \notin Used(t.blk)
<1> DEFINE t == IF NextIsFree(s.blk, h) THEN absorb(s, h) ELSE s
           p == t.blk[h].prev
<1>1. /\ GoodArea(t) /\ SameUsed(s.blk, t.blk, h)
      /\ h \in DOMAIN t.blk /\ t.blk[h].free
  BY Absorb DEF SameUsed
<1>2. coalesce(s, h) = IF PrevIsFree(t.blk, h) THEN absorb(t, p) ELSE t
  BY DEF coalesce
<1> HIDE DEF t
<1>3. CASE ~ PrevIsFree(t.blk, h)
  BY <1>1, <1>2, <1>3 DEF Used
<1>4. CASE PrevIsFree(t.blk, h)
  <2>1. p \in DOMAIN t.blk /\ t.blk[p].next = h /\ t.blk[p].free
    BY <1>1, <1>4 DEF PrevIsFree, GoodArea, WellFormed, PrevLinked
  <2>2. NextIsFree(t.blk, p)
    BY <2>1, <1>1, AreaAssumption DEF NextIsFree, GoodArea, WellFormed, InArea, NULL
  <2> DEFINE u == absorb(t, p)
  <2>3. /\ GoodArea(u) /\ SameUsed(t.blk, u.blk, p) /\ u.blk[p].free
    BY <2>1, <2>2, <1>1, Absorb
  <2> HIDE DEF u
  <2>4. Used(t.blk) = Used(u.blk) /\ h \notin Used(t.blk)
    BY <2>1, <2>3, <1>1 DEF SameUsed, Used
  <2>5. SameUsed(s.blk, u.blk, h)
    BY <2>1, <2>3, <2>4, <1>1 DEF SameUsed, Used
  <2> QED
    BY <2>3, <2>4, <2>5, <1>2, <1>4 DEF u
<1> QED
  BY <1>3, <1>4

\* Marking a block keeps an area good and every other used block.
LEMMA MarkBlock ==
  ASSUME NEW s, GoodArea(s), NEW h \in DOMAIN s.blk, NEW f \in BOOLEAN
  PROVE  LET t == Mark(s, h, f)
         IN  /\ GoodArea(t) /\ SameUsed(s.blk, t.blk, h)
             /\ DOMAIN t.blk = DOMAIN s.blk
             /\ t.blk[h].free = f /\ t.blk[h].size = s.blk[h].size
<1>1. PICK b : b = s.blk
  OBVIOUS
<1>2. WellFormed(b) /\ h \in DOMAIN b /\ s.tail \in Nat
  BY <1>1 DEF GoodArea
<1>3. WellFormed(SetFree(b, h, f)) /\ DOMAIN SetFree(b, h, f) = DOMAIN b
  BY <1>2, SetFreeWF
<1>4. SetFree(b, h, f)[h].free = f
  BY <1>2, SetFreeWF
<1>5. SetFree(b, h, f)[h].size = b[h].size
  BY <1>2, SetFreeWF
<1>6. SameUsed(b, SetFree(b, h, f), h)
  BY <1>2, OperationsKeepUsed
<1> QED
  BY <1>1, <1>2, <1>3, <1>4, <1>5, <1>6 DEF Mark, GoodArea

\* user_malloc either fails and leaves the area as it was, or hands out one
\* block that was free, that is large enough, and changes no other used one.
LEMMA Allocate ==
  ASSUME NEW s, GoodArea(s), NEW n \in SizeT
  PROVE  LET r == allocate(s, n)
         IN  /\ GoodArea(r.area)
             /\ \/ r.ptr = NULL /\ r.area = s
                \/ \E h \in DOMAIN s.blk :
                     /\ r.ptr = header_to_payload(h) /\ r.ptr # NULL
                     /\ s.blk[h].free
                     /\ h \in DOMAIN r.area.blk /\ ~ r.area.blk[h].free
                     /\ Granted(n) <= r.area.blk[h].size
                     /\ SameUsed(s.blk, r.area.blk, h)
<1> DEFINE size == align_up(n)
           fit == FindFit(s.blk, size)
           t == split_block(s, fit, size)
           u == Mark(t, fit, FALSE)
<1>1. CASE n = 0 \/ fit = NULL
  <2>1. allocate(s, n) = [ptr |-> NULL, area |-> s]
    BY <1>1 DEF allocate
  <2> QED
    BY <2>1
<1>2. CASE ~ (n = 0 \/ fit = NULL)
  <2>1. allocate(s, n) = [ptr |-> header_to_payload(fit), area |-> u]
    BY <1>2 DEF allocate
  <2>2. size \in Nat /\ Granted(n) \in Nat /\ Granted(n) <= size
    BY AlignUp
  <2> HIDE DEF size
  <2>3. fit \in DOMAIN s.blk /\ s.blk[fit].free /\ size <= s.blk[fit].size
    <3>1. FindFit(s.blk, size) \in Fits(s.blk, size)
      BY <1>2, <2>2, FindFitWF DEF GoodArea
    <3>2. s.blk[fit].size \in Nat
      BY <3>1 DEF Fits, GoodArea, WellFormed, IsList, Header
    <3> QED
      BY <2>2, <3>1, <3>2 DEF Fits
  <2> HIDE DEF fit
  <2>4. /\ GoodArea(t) /\ SameUsed(s.blk, t.blk, fit)
        /\ fit \in DOMAIN t.blk /\ size <= t.blk[fit].size
    BY <2>2, <2>3, SplitBlock
  <2> HIDE DEF t
  <2>5. /\ GoodArea(u) /\ SameUsed(t.blk, u.blk, fit) /\ fit \in DOMAIN u.blk
        /\ u.blk[fit].free = FALSE /\ u.blk[fit].size = t.blk[fit].size
    BY <2>4, MarkBlock
  <2> HIDE DEF u
  <2>6. SameUsed(s.blk, u.blk, fit)
    BY <2>4, <2>5 DEF SameUsed
  <2>7. u.blk[fit].size \in Nat /\ fit \in Nat
    BY <2>5 DEF GoodArea, WellFormed, InArea, IsList, Header
  <2>8. Granted(n) <= u.blk[fit].size
    BY <2>2, <2>4, <2>5, <2>7
  <2>9. header_to_payload(fit) # NULL
    BY <2>7 DEF header_to_payload, SizeofHeader, NULL
  <2> QED
    BY <2>1, <2>3, <2>5, <2>6, <2>8, <2>9
<1> QED
  BY <1>1, <1>2

\* user_free of a block: the block is no longer used, the others are as they
\* were.
LEMMA Release ==
  ASSUME NEW s, GoodArea(s), NEW p \in Nat, payload_to_header(p) \in DOMAIN s.blk
  PROVE  LET t == release(s, p)  h == payload_to_header(p)
         IN  GoodArea(t) /\ SameUsed(s.blk, t.blk, h) /\ h \notin Used(t.blk)
<1> DEFINE h == payload_to_header(p)
           u == Mark(s, h, TRUE)
           t == coalesce(u, h)
<1>1. release(s, p) = t
  BY DEF release
<1>2. GoodArea(u) /\ SameUsed(s.blk, u.blk, h) /\ h \in DOMAIN u.blk /\ u.blk[h].free
  BY MarkBlock
<1> HIDE DEF h, u
<1>3. GoodArea(t) /\ SameUsed(u.blk, t.blk, h) /\ h \notin Used(t.blk)
  BY <1>2, Coalesce
<1> HIDE DEF t
<1>4. SameUsed(s.blk, t.blk, h)
  BY <1>2, <1>3 DEF SameUsed
<1> QED
  BY <1>1, <1>3, <1>4 DEF h

\* What a step must establish of the area and of held to keep Inv.
Agrees(s, g) ==
  GoodArea(s) /\ Backed(s.blk, g) /\ Owned(s.blk, g) /\ g \in [DOMAIN g -> Nat]

\* Handing out or resizing one block keeps the area and held in agreement.
LEMMA GiveKeepsAgreement ==
  ASSUME NEW s, NEW t, NEW g, Agrees(s, g), GoodArea(t),
         NEW h \in DOMAIN t.blk, SameUsed(s.blk, t.blk, h), ~ t.blk[h].free,
         NEW n \in Nat, n <= t.blk[h].size
  PROVE  Agrees(t, Give(g, header_to_payload(h), n))
<1>1. WellFormed(s.blk) /\ WellFormed(t.blk) /\ Backed(s.blk, g) /\ Owned(s.blk, g)
  BY DEF Agrees, GoodArea
<1>2. LET k == Give(g, header_to_payload(h), n) IN Backed(t.blk, k) /\ Owned(t.blk, k)
  BY <1>1, GiveAgrees
<1>3. Give(g, header_to_payload(h), n)
        \in [DOMAIN Give(g, header_to_payload(h), n) -> Nat]
  BY DEF Give, Agrees
<1> QED
  BY <1>2, <1>3 DEF Agrees

\* So does releasing one.
LEMMA TakeKeepsAgreement ==
  ASSUME NEW s, NEW t, NEW g, Agrees(s, g), GoodArea(t),
         NEW p \in Nat, payload_to_header(p) \in DOMAIN s.blk,
         SameUsed(s.blk, t.blk, payload_to_header(p)),
         payload_to_header(p) \notin Used(t.blk)
  PROVE  Agrees(t, Take(g, p))
<1> DEFINE h == payload_to_header(p)
<1>1. WellFormed(s.blk) /\ WellFormed(t.blk) /\ Backed(s.blk, g) /\ Owned(s.blk, g)
  BY DEF Agrees, GoodArea
<1>2. h \in Nat /\ header_to_payload(h) = p
  BY <1>1 DEF WellFormed, InArea, payload_to_header, header_to_payload, SizeofHeader
<1> HIDE DEF h
<1>3. SameUsed(s.blk, t.blk, h) /\ h \notin Used(t.blk)
  BY DEF h
<1>4. LET k == Take(g, header_to_payload(h)) IN Backed(t.blk, k) /\ Owned(t.blk, k)
  BY <1>1, <1>2, <1>3, TakeAgrees
<1>5. Take(g, p) \in [DOMAIN Take(g, p) -> Nat]
  BY DEF Take, Agrees
<1> QED
  BY <1>2, <1>4, <1>5 DEF Agrees


-----------------------------------------------------------------------------
(***************************************************************************)
(* What the statistics of both allocators add up.  The sum over the blocks *)
(* is the number of bytes that they cover, and that is the whole area.     *)
(***************************************************************************)
Total(b) == MapThenSumSet(LAMBDA a : SizeofHeader + b[a].size, DOMAIN b)

\* The bytes of the blocks in s, headers included.
Bytes(b, s) == UNION {a .. BlockEnd(b, a) - 1 : a \in s}

\* One step of the sum, which h continues.
SumStep(b, h) ==
  [s \in SUBSET DOMAIN b |->
     IF s = {} THEN 0
     ELSE SizeofHeader + b[CHOOSE x \in s : TRUE].size + h[s \ {CHOOSE x \in s : TRUE}]]

\* The loop of the statistics, as a recursive function.
LEMMA TotalSteps ==
  ASSUME NEW b
  PROVE  Total(b) = (CHOOSE h : h = SumStep(b, h))[DOMAIN b]
  BY DEF Total, MapThenSumSet, MapThenFoldSet, SumStep

\* Addresses and sizes of a list are numbers, and there are finitely many.
LEMMA ListIsFinite ==
  ASSUME NEW b, WellFormed(b)
  PROVE  /\ IsFiniteSet(DOMAIN b)
         /\ Start \in Nat /\ Limit \in Nat /\ Start < Limit
         /\ \A a \in DOMAIN b : a \in Nat /\ b[a].size \in Nat /\ Start <= a
                                /\ BlockEnd(b, a) = a + 40 + b[a].size
                                /\ a + 40 + b[a].size <= Limit
<1>1. Start \in Nat /\ Limit \in Nat /\ Start < Limit
  BY AreaAssumption DEF SizeofHeader
<1>2. \A a \in DOMAIN b : a \in Nat /\ b[a].size \in Nat /\ Start <= a
                          /\ BlockEnd(b, a) = a + 40 + b[a].size
                          /\ a + 40 + b[a].size <= Limit
  BY DEF WellFormed, IsList, Header, InArea, BlockEnd, SizeofHeader
<1>3. DOMAIN b \in SUBSET (Start .. Limit)
  BY <1>1, <1>2
<1>4. IsFiniteSet(Start .. Limit)
  BY <1>1, FS_Interval
<1> QED
  BY <1>1, <1>2, <1>3, <1>4, FS_Subset

\* One block more covers the bytes of its header and its payload more.
LEMMA BytesOfOneMore ==
  ASSUME NEW b, WellFormed(b), NEW s \in SUBSET DOMAIN b, NEW x \in s
  PROVE  Cardinality(Bytes(b, s)) = SizeofHeader + b[x].size + Cardinality(Bytes(b, s \ {x}))
<1>1. /\ Start \in Nat /\ Limit \in Nat
      /\ \A a \in DOMAIN b : a \in Nat /\ b[a].size \in Nat /\ Start <= a
                             /\ BlockEnd(b, a) = a + 40 + b[a].size
                             /\ a + 40 + b[a].size <= Limit
  BY ListIsFinite
<1>2. \A a, c \in DOMAIN b : a < c => BlockEnd(b, a) <= c
  BY DEF WellFormed, Disjoint
<1> DEFINE X == x .. BlockEnd(b, x) - 1
           R == Bytes(b, s \ {x})
<1>3. Bytes(b, s) = R \cup X
  BY DEF Bytes
<1>4. R \cap X = {}
  <2> SUFFICES ASSUME NEW a \in s \ {x}, NEW y \in a .. BlockEnd(b, a) - 1, y \in X
               PROVE  FALSE
    BY DEF Bytes
  <2>1. a \in DOMAIN b /\ x \in DOMAIN b /\ a # x
    OBVIOUS
  <2>2. a < x \/ x < a
    BY <1>1, <2>1
  <2>3. BlockEnd(b, a) <= x \/ BlockEnd(b, x) <= a
    BY <1>2, <2>1, <2>2
  <2> QED
    BY <1>1, <2>1, <2>3
<1>5. IsFiniteSet(X) /\ Cardinality(X) = 40 + b[x].size
  <2>1. x \in Int /\ BlockEnd(b, x) - 1 \in Int /\ ~ (x > BlockEnd(b, x) - 1)
        /\ BlockEnd(b, x) - 1 - x + 1 = 40 + b[x].size
    BY <1>1
  <2> QED
    BY <2>1, FS_Interval
<1>6. IsFiniteSet(R)
  <2>1. R \in SUBSET (Start .. Limit)
    BY <1>1 DEF Bytes
  <2>2. IsFiniteSet(Start .. Limit)
    BY <1>1, FS_Interval
  <2> QED
    BY <2>1, <2>2, FS_Subset
<1> HIDE DEF R, X
<1>7. Cardinality(R \cup X) = Cardinality(R) + Cardinality(X) - Cardinality(R \cap X)
  BY <1>5, <1>6, FS_Union
<1>8. Cardinality(R) \in Nat /\ Cardinality(R \cap X) = 0 /\ b[x].size \in Nat
  BY <1>1, <1>4, <1>6, FS_CardinalityType, FS_EmptySet
<1>9. Cardinality(Bytes(b, s)) = 40 + b[x].size + Cardinality(R)
  BY <1>3, <1>5, <1>7, <1>8
<1> QED
  BY <1>9 DEF SizeofHeader, R

\* The sum of the statistics counts the bytes of the blocks.
LEMMA TotalIsBytes ==
  ASSUME NEW b, WellFormed(b)
  PROVE  Total(b) = Cardinality(Bytes(b, DOMAIN b))
<1> DEFINE g == [s \in SUBSET DOMAIN b |-> Cardinality(Bytes(b, s))]
           one(s) == CHOOSE x \in s : TRUE
           F(h) == h = SumStep(b, h)
<1>1. \A s : s # {} => one(s) \in s
  OBVIOUS
<1>2. ASSUME NEW s \in SUBSET DOMAIN b
      PROVE  g[s] = IF s = {} THEN 0 ELSE SizeofHeader + b[one(s)].size + g[s \ {one(s)}]
  <2>1. CASE s = {}
    <3>1. Bytes(b, s) = {}
      BY <2>1 DEF Bytes
    <3> QED
      BY <2>1, <3>1, FS_EmptySet
  <2>2. CASE s # {}
    <3> HIDE DEF one
    <3>1. one(s) \in s /\ s \ {one(s)} \in SUBSET DOMAIN b
      BY <1>1, <2>2
    <3>2. Cardinality(Bytes(b, s)) =
            SizeofHeader + b[one(s)].size + Cardinality(Bytes(b, s \ {one(s)}))
      BY <3>1, BytesOfOneMore
    <3> QED
      BY <2>2, <3>1, <3>2
  <2> QED
    BY <2>1, <2>2
<1>3. F(g)
  BY <1>2 DEF SumStep
<1>4. PICK h : h = CHOOSE k : F(k)
  OBVIOUS
<1>5. F(h)
  <2> HIDE DEF F
  <2> QED
    BY <1>3, <1>4, Zenon
<1>6. \A s \in SUBSET DOMAIN b :
        h[s] = IF s = {} THEN 0 ELSE SizeofHeader + b[one(s)].size + h[s \ {one(s)}]
  BY <1>5 DEF SumStep
<1>7. \A s \in SUBSET DOMAIN b : g[s] = Cardinality(Bytes(b, s))
  OBVIOUS
<1> HIDE DEF one, g
<1> DEFINE Wrong == {s \in SUBSET DOMAIN b : h[s] # g[s]}
           N == {Cardinality(s) : s \in Wrong}
<1>8. \A s \in SUBSET DOMAIN b : IsFiniteSet(s) /\ Cardinality(s) \in Nat
  BY ListIsFinite, FS_Subset, FS_CardinalityType
<1>9. Wrong = {}
  <2> SUFFICES ASSUME Wrong # {}
               PROVE  FALSE
    OBVIOUS
  <2>1. N \subseteq Nat /\ N # {}
    BY <1>8
  <2>2. \E m \in N : \A k \in N : m <= k
    <3> HIDE DEF N
    <3> QED
      BY <2>1, LeastElement
  <2>3. PICK s \in Wrong : \A r \in Wrong : Cardinality(s) <= Cardinality(r)
    BY <2>2
  <2>4. s # {}
    BY <1>2, <1>6, <2>3
  <2> DEFINE r == s \ {one(s)}
  <2>5. r \in SUBSET DOMAIN b /\ Cardinality(r) = Cardinality(s) - 1
    BY <1>1, <1>8, <2>3, <2>4, FS_RemoveElement
  <2>6. r \notin Wrong
    BY <1>8, <2>3, <2>5
  <2>7. h[r] = g[r]
    BY <2>5, <2>6
  <2>8. h[s] = g[s]
    BY <1>2, <1>6, <2>3, <2>4, <2>7
  <2> QED
    BY <2>3, <2>8
<1>10. h[DOMAIN b] = g[DOMAIN b]
  BY <1>9
<1>11. Total(b) = h[DOMAIN b]
  BY <1>4, TotalSteps
<1> QED
  BY <1>7, <1>10, <1>11

\* Every byte of the area is in a block.
LEMMA BytesAreTheArea ==
  ASSUME NEW b, WellFormed(b)
  PROVE  Bytes(b, DOMAIN b) = Start .. Limit - 1
<1>1. /\ Start \in Nat /\ Limit \in Nat
      /\ \A a \in DOMAIN b : a \in Nat /\ b[a].size \in Nat /\ Start <= a
                             /\ BlockEnd(b, a) = a + 40 + b[a].size
                             /\ a + 40 + b[a].size <= Limit
  BY ListIsFinite
<1>2. ASSUME NEW y \in Start .. Limit - 1
      PROVE  y \in Bytes(b, DOMAIN b)
  <2> DEFINE Gaps == {y - a : a \in {c \in DOMAIN b : c <= y}}
  <2>1. Gaps \subseteq Nat /\ Gaps # {}
    <3>1. Start \in DOMAIN b /\ Start <= y
      BY DEF WellFormed
    <3> QED
      BY <1>1, <3>1
  <2>2. \E m \in Gaps : \A k \in Gaps : m <= k
    <3> HIDE DEF Gaps
    <3> QED
      BY <2>1, LeastElement
  <2>3. PICK a \in DOMAIN b : a <= y /\ \A c \in DOMAIN b : c <= y => y - a <= y - c
    BY <2>2
  <2>4. y < BlockEnd(b, a)
    <3> SUFFICES ASSUME BlockEnd(b, a) <= y
                 PROVE  FALSE
      BY <1>1, <2>3
    <3>1. BlockEnd(b, a) # Limit
      BY <1>1
    <3>2. BlockEnd(b, a) \in DOMAIN b
      BY <2>3, <3>1 DEF WellFormed, NextLinked
    <3>3. y - a <= y - BlockEnd(b, a)
      BY <2>3, <3>2
    <3> QED
      BY <1>1, <2>3, <3>3
  <2>5. y \in a .. BlockEnd(b, a) - 1
    BY <1>1, <2>3, <2>4
  <2> QED
    BY <2>3, <2>5 DEF Bytes
<1>3. Bytes(b, DOMAIN b) \subseteq Start .. Limit - 1
  BY <1>1 DEF Bytes
<1> QED
  BY <1>2, <1>3

\* The statistics account for every byte of the area ...
LEMMA TotalIsTheArea ==
  ASSUME NEW b, WellFormed(b)
  PROVE  Total(b) = Limit - Start
<1>1. Start \in Nat /\ Limit \in Nat /\ Start < Limit
  BY ListIsFinite
<1>2. Cardinality(Start .. Limit - 1) = Limit - Start
  <2>1. Start \in Int /\ Limit - 1 \in Int /\ ~ (Start > Limit - 1)
        /\ Limit - 1 - Start + 1 = Limit - Start
    BY <1>1
  <2> QED
    BY <2>1, FS_Interval
<1> QED
  BY <1>2, TotalIsBytes, BytesAreTheArea

\* ... and count the used blocks, of which there is one for every pointer held.
LEMMA UsedAreHeld ==
  ASSUME NEW b, WellFormed(b), NEW held, Backed(b, held), Owned(b, held)
  PROVE  Cardinality({a \in DOMAIN b : ~ b[a].free}) = Cardinality(DOMAIN held)
<1> DEFINE U == {a \in DOMAIN b : ~ b[a].free}
           f == [a \in U |-> a + 40]
<1>1. \A a \in U : a \in Nat /\ a + 40 \in DOMAIN held
  BY DEF Owned, header_to_payload, SizeofHeader, WellFormed, InArea
<1>2. \A p \in DOMAIN held : p \in Nat /\ p - 40 \in U
  BY DEF Backed, payload_to_header, SizeofHeader
<1>3. IsFiniteSet(U)
  <2>1. U \in SUBSET DOMAIN b
    OBVIOUS
  <2> QED
    BY <2>1, ListIsFinite, FS_Subset
<1> HIDE DEF U
<1>4. f \in [U -> DOMAIN held] /\ IsInjective(f)
  BY <1>1 DEF IsInjective
<1>5. \A p \in DOMAIN held : \E a \in U : f[a] = p
  <2> SUFFICES ASSUME NEW p \in DOMAIN held
               PROVE  \E a \in U : f[a] = p
    OBVIOUS
  <2>1. p - 40 \in U /\ f[p - 40] = p
    BY <1>2
  <2> QED
    BY <2>1
<1> HIDE DEF f
<1>6. ExistsBijection(U, DOMAIN held)
  BY <1>4, <1>5 DEF ExistsBijection, Bijection, Injection, Surjection
<1>7. Cardinality(U) = Cardinality(DOMAIN held)
  BY <1>3, <1>6, FS_Bijection
<1> QED
  BY <1>7 DEF U
=============================================================================
