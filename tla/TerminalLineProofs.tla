------------------------- MODULE TerminalLineProofs -------------------------
(***************************************************************************)
(* The lines of the terminal, for any number of keys and every size of the *)
(* keyboard's buffer and of the input buffer: what the terminal runs is    *)
(* what was typed, and it writes inside its buffer as long as no line is   *)
(* too long for it.                                                        *)
(*                                                                         *)
(* The invariant relates the input buffer to the keys that were read: they *)
(* end with a line that began after a line feed, or with the first key,    *)
(* and what the buffer holds is what is seen of that line.                 *)
(***************************************************************************)
EXTENDS Terminal, TLAPS, FiniteSetTheorems

\* A set of natural numbers that is not empty has a least element.
LEMMA LeastNumber ==
  ASSUME NEW S, S \subseteq Nat, S # {}
  PROVE  \E m \in S : \A g \in S : m <= g
<1>1. PICK m \in S : \A g \in S : <<g, m>> \notin OpToRel(<, Nat)
  BY NatLessThanWellFounded, WFMin
<1>2. \A g, k \in Nat : g < k => <<g, k>> \in OpToRel(<, Nat)
  BY Zenon DEF OpToRel
<1>3. \A g \in S : ~ (g < m)
  BY <1>1, <1>2, Zenon
<1> QED
  BY <1>3

-----------------------------------------------------------------------------
(***************************************************************************)
(* The keys and the lines.  a is a sequence of keys that were accepted.    *)
(***************************************************************************)
\* The number of elements of T from one place to another.
Count(T, from, to) == Cardinality(T \cap (from .. to))

\* One place more counts one more at most.
LEMMA CountStep ==
  ASSUME NEW T, NEW from \in Nat, NEW n \in Nat, from <= n + 1
  PROVE  /\ Count(T, from, n) \in Nat
         /\ Count(T, from, n + 1) = IF n + 1 \in T THEN Count(T, from, n) + 1
                                    ELSE Count(T, from, n)
<1> DEFINE C == T \cap (from .. n)
<1>1. IsFiniteSet(C)
  <2>1. IsFiniteSet(from .. n)
    BY FS_Interval
  <2>2. C \in SUBSET (from .. n)
    OBVIOUS
  <2> QED
    BY <2>1, <2>2, FS_Subset
<1>2. n + 1 \notin C
  OBVIOUS
<1>3. T \cap (from .. n + 1) = IF n + 1 \in T THEN C \cup {n + 1} ELSE C
  <2>1. from .. n + 1 = (from .. n) \cup {n + 1}
    OBVIOUS
  <2> QED
    BY <2>1
<1> HIDE DEF C
<1>4. Cardinality(C) \in Nat /\ Cardinality(C \cup {n + 1}) = Cardinality(C) + 1
  BY <1>1, <1>2, FS_CardinalityType, FS_AddElement
<1> QED
  BY <1>3, <1>4 DEF Count, C

\* Nothing is counted between a place and the one before.
LEMMA CountNone ==
  ASSUME NEW T, NEW from \in Nat, NEW to \in Nat, to < from
  PROVE  Count(T, from, to) = 0
<1>1. T \cap (from .. to) = {}
  OBVIOUS
<1> QED
  BY <1>1, FS_EmptySet DEF Count

\* A number of elements determines the last of them.
LEMMA CountDetermines ==
  ASSUME NEW T, NEW i \in T, NEW j \in T, i \in Nat, j \in Nat,
         Count(T, 1, i) = Count(T, 1, j)
  PROVE  i = j
<1>1. ASSUME NEW k \in Nat, NEW m \in T, m \in Nat, k < m, Count(T, 1, k) = Count(T, 1, m)
      PROVE  FALSE
  <2> DEFINE A == T \cap (1 .. k)
             B == T \cap (1 .. m)
  <2>1. IsFiniteSet(B)
    <3>1. IsFiniteSet(1 .. m)
      BY FS_Interval
    <3>2. B \in SUBSET (1 .. m)
      OBVIOUS
    <3> QED
      BY <3>1, <3>2, FS_Subset
  <2>2. A \in SUBSET B /\ m \in B /\ m \notin A
    BY <1>1
  <2>3. Cardinality(B) = Cardinality(A)
    BY <1>1 DEF Count
  <2> HIDE DEF A, B
  <2>4. B = A
    BY <2>1, <2>2, <2>3, FS_Subset
  <2> QED
    BY <2>2, <2>4
<1>2. i < j \/ j < i \/ i = j
  OBVIOUS
<1> QED
  BY <1>1, <1>2

-----------------------------------------------------------------------------
\* A set that contains 0, and with k also k + 1, contains all numbers up to n.
LEMMA SetInduction ==
  ASSUME NEW n \in Nat, NEW S, 0 \in S,
         \A k \in 0 .. n : k + 1 <= n /\ k \in S => k + 1 \in S
  PROVE  0 .. n \subseteq S
<1> SUFFICES ASSUME (0 .. n) \ S # {}
             PROVE  FALSE
  OBVIOUS
<1>1. PICK m \in (0 .. n) \ S : \A g \in (0 .. n) \ S : m <= g
  <2>1. (0 .. n) \ S \subseteq Nat
    OBVIOUS
  <2> QED
    BY <2>1, LeastNumber
<1>2. m # 0 /\ m - 1 \in 0 .. n /\ m - 1 + 1 = m
  BY <1>1
<1>3. m - 1 \in S
  BY <1>1, <1>2
<1> QED
  BY <1>1, <1>2, <1>3

\* The recursive function in Seen exists.
LEMMA ShownFunction ==
  ASSUME NEW a, NEW N \in Nat
  PROVE  \E f : f = [n \in 0 .. N |-> IF n = 0 THEN <<>> ELSE Edit(f[n - 1], a[n])]
<1> DEFINE W(s, n) == IF n = 0 THEN <<>> ELSE Edit(s, a[n])
           E(f, m) == f = [n \in 0 .. m |-> W(f[n - 1], n)]
           S == {m \in Nat : \E f : E(f, m)}
<1>1. \A s, t : W(s, 0) = W(t, 0)
  OBVIOUS
<1> HIDE DEF W
<1>2. 0 \in S
  <2>1. E([n \in 0 .. 0 |-> W(0, 0)], 0)
    BY <1>1
  <2> HIDE DEF E
  <2> QED
    BY <2>1
<1>3. ASSUME NEW k \in Nat, k \in S
      PROVE  k + 1 \in S
  <2>1. PICK f : E(f, k)
    BY <1>3
  <2> DEFINE h == [n \in 0 .. k + 1 |-> W(f[n - 1], n)]
  <2>2. \A n \in 0 .. k : h[n] = f[n]
    BY <2>1
  <2>3. \A n \in 0 .. k + 1 : n # 0 => n - 1 \in 0 .. k
    OBVIOUS
  <2>4. \A n \in 0 .. k + 1 : W(f[n - 1], n) = W(h[n - 1], n)
    BY <2>2, <2>3, <1>1
  <2>5. E(h, k + 1)
    BY <2>4
  <2> HIDE DEF E, h
  <2> QED
    BY <2>5
<1> HIDE DEF S
<1>4. 0 .. N \subseteq S
  BY <1>2, <1>3, SetInduction
<1>5. \E f : E(f, N)
  <2> HIDE DEF E
  <2> QED
    BY <1>4 DEF S
<1> QED
  BY <1>5 DEF W

\* w[n] is what is seen after n keys.
Edits(a, w) ==
  /\ w[0] = <<>>
  /\ \A n \in 1 .. Len(a) : w[n] = Edit(w[n - 1], a[n])

\* What Seen computes, key by key.
LEMMA SeenSteps ==
  ASSUME NEW S, NEW a \in Seq(S)
  PROVE  \E w : Edits(a, w) /\ Seen(a) = w[Len(a)]
<1>1. Len(a) \in Nat
  OBVIOUS
<1> DEFINE F(f) == f = [n \in 0 .. Len(a) |-> IF n = 0 THEN <<>> ELSE Edit(f[n - 1], a[n])]
<1>2. PICK w : w = CHOOSE f : F(f)
  OBVIOUS
<1>3. F(w)
  <2>1. \E f : F(f)
    BY <1>1, ShownFunction
  <2> HIDE DEF F
  <2> QED
    BY <1>2, <2>1, Zenon
<1>4. Seen(a) = w[Len(a)]
  BY <1>2 DEF Seen
<1>5. w[0] = <<>>
  BY <1>1, <1>3
<1>6. \A n \in 1 .. Len(a) : w[n] = Edit(w[n - 1], a[n])
  BY <1>1, <1>3
<1> QED
  BY <1>4, <1>5, <1>6 DEF Edits

\* A key edits what is seen of the keys before it.
LEMMA SeenAppend ==
  ASSUME NEW S, NEW a \in Seq(S), NEW k \in S
  PROVE  Seen(Append(a, k)) = Edit(Seen(a), k)
<1> DEFINE b == Append(a, k)
<1>1. /\ b \in Seq(S) /\ Len(a) \in Nat /\ Len(b) = Len(a) + 1 /\ b[Len(a) + 1] = k
      /\ \A n \in 1 .. Len(a) : b[n] = a[n]
  OBVIOUS
<1> HIDE DEF b
<1>2. PICK w : Edits(a, w) /\ Seen(a) = w[Len(a)]
  BY SeenSteps
<1>3. PICK v : Edits(b, v) /\ Seen(b) = v[Len(b)]
  BY <1>1, SeenSteps
<1> DEFINE T == {n \in Nat : n <= Len(a) => v[n] = w[n]}
<1>4. 0 \in T
  BY <1>2, <1>3 DEF Edits
<1>5. ASSUME NEW n \in 0 .. Len(a), n + 1 <= Len(a), n \in T
      PROVE  n + 1 \in T
  <2>1. n + 1 \in 1 .. Len(a) /\ n + 1 \in 1 .. Len(b) /\ n + 1 - 1 = n /\ v[n] = w[n]
    BY <1>1, <1>5
  <2>2. w[n + 1] = Edit(w[n + 1 - 1], a[n + 1]) /\ v[n + 1] = Edit(v[n + 1 - 1], b[n + 1])
    BY <1>2, <1>3, <2>1 DEF Edits
  <2>3. v[n + 1] = w[n + 1]
    BY <1>1, <2>1, <2>2
  <2> QED
    BY <1>1, <2>3
<1> HIDE DEF T
<1>6. Len(a) \in T
  <2>1. Len(a) \in Nat /\ Len(a) \in 0 .. Len(a)
    BY <1>1
  <2>2. 0 .. Len(a) \subseteq T
    BY <1>4, <1>5, <2>1, SetInduction
  <2> QED
    BY <2>1, <2>2
<1>7. v[Len(a)] = w[Len(a)]
  BY <1>1, <1>6 DEF T
<1>8. v[Len(a) + 1] = Edit(v[Len(a) + 1 - 1], b[Len(a) + 1])
  BY <1>1, <1>3 DEF Edits
<1>9. Len(a) + 1 - 1 = Len(a)
  BY <1>1
<1> QED
  BY <1>1, <1>2, <1>3, <1>7, <1>8, <1>9 DEF b

\* Nothing is seen of a line without keys.
LEMMA SeenNothing == Seen(<<>>) = <<>>
<1>1. <<>> \in Seq({}) /\ Len(<<>>) = 0
  OBVIOUS
<1>2. PICK w : Edits(<<>>, w) /\ Seen(<<>>) = w[Len(<<>>)]
  BY <1>1, SeenSteps
<1> QED
  BY <1>1, <1>2 DEF Edits

-----------------------------------------------------------------------------
\* The line feeds among the keys, and those that put a character into the line.
Feed(a) == {j \in 1 .. Len(a) : a[j] = "LF"}

Char(a) == {j \in 1 .. Len(a) : a[j] \notin {"LF", "BS"}}

OneLine(a, from, to) == \A j \in from .. to : a[j] # "LF"

Plain(a, from, to) == \A j \in from .. to : a[j] # "^C"

IsEnd(a, i, j) == j \in 1 .. Len(a) /\ a[j] = "LF" /\ Count(Feed(a), 1, j) = i

\* The i-th line begins at from, and its line feed is at to.
IsLine(a, i, from, to) ==
  /\ from \in 1 .. to
  /\ IsEnd(a, i, to)
  /\ IF i = 1 THEN from = 1 ELSE from > 1 /\ IsEnd(a, i - 1, from - 1)

\* s is in the input buffer when the first n keys have been read and the last
\* line begins at from; owed characters are about to be stored as well.
LineFrom(a, n, s, owed, from) ==
  /\ from \in 1 .. n + 1
  /\ from # 1 => a[from - 1] = "LF"
  /\ OneLine(a, from, n)
  /\ Len(s) + owed <= Count(Char(a), from, n)
  /\ Plain(a, from, n) => s = Seen(SubSeq(a, from, n)) /\ \A i \in 1 .. Len(s) : s[i] # "NUL"

\* No place of the input buffer behind h was written to.
HighIn(a, h) ==
  h = 0 \/ \E from, to \in 1 .. Len(a) : OneLine(a, from, to) /\ h <= Count(Char(a), from, to)

\* r is what was run when the first n keys have been read.
RanIn(a, n, r) ==
  /\ Count(Feed(a), 1, n) = Len(r)
  /\ \A i \in 1 .. Len(r) : \E from, to \in 1 .. n :
       IsLine(a, i, from, to) /\ (Plain(a, from, to - 1) => r[i] = Seen(SubSeq(a, from, to - 1)))

\* The first keys of b are those of a.
Begins(a, b) ==
  /\ Len(a) \in Nat /\ Len(b) \in Nat /\ Len(a) <= Len(b)
  /\ \A j \in 1 .. Len(a) : b[j] = a[j]
  /\ \A f \in Nat, t \in Nat : 1 <= f /\ t <= Len(a) => SubSeq(b, f, t) = SubSeq(a, f, t)

\* A key that is accepted comes behind the others.
LEMMA AppendBegins ==
  ASSUME NEW S, NEW a \in Seq(S), NEW k \in S
  PROVE  Begins(a, Append(a, k))
<1> DEFINE b == Append(a, k)
<1>1. /\ Len(a) \in Nat /\ Len(b) = Len(a) + 1 /\ \A j \in 1 .. Len(a) : b[j] = a[j]
  OBVIOUS
<1> HIDE DEF b
<1>2. ASSUME NEW f \in Nat, NEW t \in Nat, 1 <= f, t <= Len(a)
      PROVE  SubSeq(b, f, t) = SubSeq(a, f, t)
  <2>1. \A i \in 1 .. t - f + 1 : f + i - 1 \in 1 .. Len(a)
    BY <1>1, <1>2
  <2>2. /\ SubSeq(b, f, t) = [i \in 1 .. t - f + 1 |-> b[f + i - 1]]
        /\ SubSeq(a, f, t) = [i \in 1 .. t - f + 1 |-> a[f + i - 1]]
    OBVIOUS
  <2> QED
    BY <1>1, <2>1, <2>2
<1> QED
  BY <1>1, <1>2 DEF Begins, b

\* What is counted among the first keys stays.
LEMMA BeginsCounts ==
  ASSUME NEW a, NEW b, Begins(a, b), NEW f \in Nat, NEW t \in Nat, 1 <= f, t <= Len(a)
  PROVE  Count(Feed(b), f, t) = Count(Feed(a), f, t) /\ Count(Char(b), f, t) = Count(Char(a), f, t)
<1>1. /\ Feed(b) \cap (f .. t) = Feed(a) \cap (f .. t)
      /\ Char(b) \cap (f .. t) = Char(a) \cap (f .. t)
  BY DEF Begins, Feed, Char
<1> QED
  BY <1>1 DEF Count

\* Keys that are accepted later change nothing for those that were read.
LEMMA BeginsKeeps ==
  ASSUME NEW a, NEW b, Begins(a, b), NEW n \in Nat, n <= Len(a)
  PROVE  /\ \A s, owed, from : LineFrom(a, n, s, owed, from) => LineFrom(b, n, s, owed, from)
         /\ \A h : HighIn(a, h) => HighIn(b, h)
         /\ \A r : RanIn(a, n, r) => RanIn(b, n, r)
<1>1. Len(a) \in Nat /\ Len(b) \in Nat /\ Len(a) <= Len(b) /\ \A j \in 1 .. Len(a) : b[j] = a[j]
  BY DEF Begins
<1>2. ASSUME NEW f \in Nat, NEW t \in Nat, 1 <= f, t <= Len(a)
      PROVE  /\ OneLine(b, f, t) = OneLine(a, f, t) /\ Plain(b, f, t) = Plain(a, f, t)
             /\ SubSeq(b, f, t) = SubSeq(a, f, t)
  <2>1. \A j \in f .. t : b[j] = a[j]
    BY <1>1, <1>2
  <2>2. SubSeq(b, f, t) = SubSeq(a, f, t)
    BY <1>2 DEF Begins
  <2> QED
    BY <2>1, <2>2 DEF OneLine, Plain
<1>3. ASSUME NEW s, NEW owed, NEW from, LineFrom(a, n, s, owed, from)
      PROVE  LineFrom(b, n, s, owed, from)
  <2>1. from \in Nat /\ 1 <= from /\ (from # 1 => from - 1 \in 1 .. Len(a))
    BY <1>1, <1>3 DEF LineFrom
  <2>2. Count(Char(b), from, n) = Count(Char(a), from, n)
    BY <2>1, BeginsCounts
  <2> QED
    BY <1>1, <1>2, <1>3, <2>1, <2>2 DEF LineFrom
<1>4. ASSUME NEW h, HighIn(a, h), h # 0
      PROVE  HighIn(b, h)
  <2>1. PICK from, to \in 1 .. Len(a) : OneLine(a, from, to) /\ h <= Count(Char(a), from, to)
    BY <1>4 DEF HighIn
  <2>2. from \in Nat /\ to \in Nat /\ 1 <= from /\ to <= Len(a)
        /\ from \in 1 .. Len(b) /\ to \in 1 .. Len(b)
    BY <1>1
  <2>3. OneLine(b, from, to) /\ h <= Count(Char(b), from, to)
    BY <1>2, <2>1, <2>2, BeginsCounts
  <2> QED
    BY <2>2, <2>3 DEF HighIn
<1>5. \A h : h = 0 => HighIn(b, h)
  BY DEF HighIn
<1>6. ASSUME NEW i, NEW j \in 1 .. n, IsEnd(a, i, j)
      PROVE  IsEnd(b, i, j)
  <2>1. j \in Nat /\ 1 <= j /\ j <= Len(a) /\ j \in 1 .. Len(b) /\ b[j] = a[j]
    BY <1>1
  <2>2. Count(Feed(b), 1, j) = Count(Feed(a), 1, j)
    BY <2>1, BeginsCounts
  <2> QED
    BY <1>6, <2>1, <2>2 DEF IsEnd
<1>7. ASSUME NEW r, RanIn(a, n, r)
      PROVE  RanIn(b, n, r)
  <2>1. Count(Feed(b), 1, n) = Count(Feed(a), 1, n)
    BY BeginsCounts
  <2>2. ASSUME NEW i \in 1 .. Len(r)
        PROVE  \E from, to \in 1 .. n :
                 IsLine(b, i, from, to) /\ (Plain(b, from, to - 1) => r[i] = Seen(SubSeq(b, from, to - 1)))
    <3>1. PICK from, to \in 1 .. n :
            IsLine(a, i, from, to) /\ (Plain(a, from, to - 1) => r[i] = Seen(SubSeq(a, from, to - 1)))
      BY <1>7, <2>2 DEF RanIn
    <3>2. from \in Nat /\ 1 <= from /\ to - 1 \in Nat /\ to - 1 <= Len(a)
      BY <1>1
    <3>3. from > 1 => from - 1 \in 1 .. n
      OBVIOUS
    <3>4. IsLine(b, i, from, to)
      BY <1>6, <3>1, <3>3 DEF IsLine
    <3> QED
      BY <1>2, <3>1, <3>2, <3>4
  <2> QED
    BY <1>7, <2>1, <2>2 DEF RanIn
<1> QED
  BY <1>3, <1>4, <1>5, <1>7

-----------------------------------------------------------------------------
\* The characters that can be in the input buffer.
InputChars == Keys \cup {" ", "0xFF", "NUL"}

\* The next key is the last of the keys read.
LEMMA NextKey ==
  ASSUME NEW S, NEW a \in Seq(S), NEW n \in Nat, n < Len(a), NEW from \in 1 .. n + 1
  PROVE  /\ SubSeq(a, from, n) \in Seq(S) /\ a[n + 1] \in S
         /\ SubSeq(a, from, n + 1) = Append(SubSeq(a, from, n), a[n + 1])
<1>1. Len(a) \in Nat /\ n + 1 \in 1 .. Len(a) /\ a[n + 1] \in S
  OBVIOUS
<1>2. SubSeq(a, from, n) \in Seq(S)
  BY <1>1
<1>3. SubSeq(a, from, n + 1) = Append(SubSeq(a, from, n), a[n + 1])
  <2>1. /\ SubSeq(a, from, n) = [i \in 1 .. n - from + 1 |-> a[from + i - 1]]
        /\ SubSeq(a, from, n + 1) = [i \in 1 .. n + 1 - from + 1 |-> a[from + i - 1]]
    OBVIOUS
  <2>2. Len(SubSeq(a, from, n)) = n - from + 1
    BY <1>1
  <2> QED
    BY <1>1, <2>1, <2>2
<1> QED
  BY <1>1, <1>2, <1>3

\* What is counted up to the next key.
LEMMA NextCount ==
  ASSUME NEW S, NEW a \in Seq(S), NEW n \in Nat, n < Len(a), NEW from \in 1 .. n + 1
  PROVE  /\ Count(Char(a), from, n) \in Nat /\ Count(Feed(a), 1, n) \in Nat
         /\ Count(Char(a), from, n + 1) =
              Count(Char(a), from, n) + IF a[n + 1] \in {"LF", "BS"} THEN 0 ELSE 1
         /\ Count(Feed(a), 1, n + 1) =
              Count(Feed(a), 1, n) + IF a[n + 1] = "LF" THEN 1 ELSE 0
<1>1. /\ n + 1 \in 1 .. Len(a) /\ from \in Nat /\ from <= n + 1 /\ 1 <= n + 1
      /\ n + 1 \in Char(a) <=> a[n + 1] \notin {"LF", "BS"}
      /\ n + 1 \in Feed(a) <=> a[n + 1] = "LF"
  BY DEF Char, Feed
<1>2. /\ Count(Char(a), from, n) \in Nat
      /\ Count(Char(a), from, n + 1) = IF n + 1 \in Char(a) THEN Count(Char(a), from, n) + 1
                                       ELSE Count(Char(a), from, n)
  BY <1>1, CountStep
<1>3. /\ Count(Feed(a), 1, n) \in Nat
      /\ Count(Feed(a), 1, n + 1) = IF n + 1 \in Feed(a) THEN Count(Feed(a), 1, n) + 1
                                    ELSE Count(Feed(a), 1, n)
  BY <1>1, CountStep
<1> QED
  BY <1>1, <1>2, <1>3

\* A key that is no line feed belongs to the line.
LEMMA LineGoesOn ==
  ASSUME NEW a \in Seq(Keys), NEW n \in Nat, n < Len(a), a[n + 1] # "LF",
         NEW s, NEW owed, NEW from, LineFrom(a, n, s, owed, from)
  PROVE  /\ from \in 1 .. n + 1 /\ from \in 1 .. n + 1 + 1
         /\ from # 1 => a[from - 1] = "LF"
         /\ OneLine(a, from, n + 1)
         /\ Plain(a, from, n + 1) => Plain(a, from, n) /\ a[n + 1] # "^C"
         /\ Plain(a, from, n) /\ s = Seen(SubSeq(a, from, n))
              => Edit(s, a[n + 1]) = Seen(SubSeq(a, from, n + 1))
<1>1. from \in 1 .. n + 1 /\ from \in 1 .. n + 1 + 1 /\ (from # 1 => a[from - 1] = "LF")
      /\ OneLine(a, from, n)
  BY DEF LineFrom
<1>2. OneLine(a, from, n + 1)
  <2>1. \A j \in from .. n + 1 : j \in from .. n \/ j = n + 1
    BY <1>1
  <2> QED
    BY <1>1, <2>1 DEF OneLine
<1>3. Plain(a, from, n + 1) => Plain(a, from, n) /\ a[n + 1] # "^C"
  BY <1>1 DEF Plain
<1>4. Seen(SubSeq(a, from, n + 1)) = Edit(Seen(SubSeq(a, from, n)), a[n + 1])
  <2>1. /\ SubSeq(a, from, n) \in Seq(Keys) /\ a[n + 1] \in Keys
        /\ SubSeq(a, from, n + 1) = Append(SubSeq(a, from, n), a[n + 1])
    BY <1>1, NextKey
  <2> QED
    BY <2>1, SeenAppend
<1> QED
  BY <1>1, <1>2, <1>3, <1>4

\* A character is stored: a key, or the answer of TASK_STOP.
LEMMA ReadChar ==
  ASSUME NEW a \in Seq(Keys), NEW n \in Nat, n < Len(a), a[n + 1] \notin {"LF", "BS"},
         NEW s \in Seq(InputChars), NEW from, LineFrom(a, n, s, 0, from)
  PROVE  LineFrom(a, n + 1, Append(s, IF a[n + 1] = "space" THEN " " ELSE a[n + 1]), 0, from)
<1> DEFINE x == IF a[n + 1] = "space" THEN " " ELSE a[n + 1]
           t == Append(s, x)
<1>1. /\ from \in 1 .. n + 1 /\ from \in 1 .. n + 1 + 1
      /\ from # 1 => a[from - 1] = "LF"
      /\ OneLine(a, from, n + 1)
      /\ Plain(a, from, n + 1) => Plain(a, from, n)
      /\ Plain(a, from, n) /\ s = Seen(SubSeq(a, from, n))
           => Edit(s, a[n + 1]) = Seen(SubSeq(a, from, n + 1))
  BY LineGoesOn
<1>2. Edit(s, a[n + 1]) = t
  BY DEF Edit
<1>3. a[n + 1] \in Keys /\ x # "NUL"
  BY TerminalAssumption
<1>4. x \in InputChars
  BY <1>3 DEF InputChars
<1> HIDE DEF x
<1>5. Len(t) = Len(s) + 1 /\ Len(s) \in Nat /\ \A i \in 1 .. Len(t) : t[i] = x \/ (i \in 1 .. Len(s) /\ t[i] = s[i])
  BY <1>4
<1> HIDE DEF t
<1>6. Len(t) + 0 <= Count(Char(a), from, n + 1)
  <2>1. Count(Char(a), from, n) \in Nat /\ Count(Char(a), from, n + 1) = Count(Char(a), from, n) + 1
    BY <1>1, NextCount
  <2>2. Len(s) + 0 <= Count(Char(a), from, n)
    BY DEF LineFrom
  <2> QED
    BY <1>5, <2>1, <2>2
<1>7. ASSUME Plain(a, from, n + 1)
      PROVE  t = Seen(SubSeq(a, from, n + 1)) /\ \A i \in 1 .. Len(t) : t[i] # "NUL"
  <2>1. Plain(a, from, n) /\ s = Seen(SubSeq(a, from, n)) /\ \A i \in 1 .. Len(s) : s[i] # "NUL"
    BY <1>1, <1>7 DEF LineFrom
  <2> QED
    BY <1>1, <1>2, <1>3, <1>5, <2>1
<1>8. LineFrom(a, n + 1, t, 0, from)
  BY <1>1, <1>6, <1>7 DEF LineFrom
<1> QED
  BY <1>8 DEF t, x

\* A backspace takes the last character back.
LEMMA ReadBackspace ==
  ASSUME NEW a \in Seq(Keys), NEW n \in Nat, n < Len(a), a[n + 1] = "BS",
         NEW s \in Seq(InputChars), NEW from, LineFrom(a, n, s, 0, from)
  PROVE  LineFrom(a, n + 1, IF s = <<>> THEN s ELSE SubSeq(s, 1, Len(s) - 1), 0, from)
<1> DEFINE t == IF s = <<>> THEN s ELSE SubSeq(s, 1, Len(s) - 1)
<1>1. /\ from \in 1 .. n + 1 /\ from \in 1 .. n + 1 + 1
      /\ from # 1 => a[from - 1] = "LF"
      /\ OneLine(a, from, n + 1)
      /\ Plain(a, from, n + 1) => Plain(a, from, n)
      /\ Plain(a, from, n) /\ s = Seen(SubSeq(a, from, n))
           => Edit(s, a[n + 1]) = Seen(SubSeq(a, from, n + 1))
  BY LineGoesOn
<1>2. Edit(s, a[n + 1]) = t
  BY DEF Edit
<1>3. Len(t) \in Nat /\ Len(s) \in Nat /\ Len(t) <= Len(s) /\ \A i \in 1 .. Len(t) : t[i] = s[i]
  OBVIOUS
<1> HIDE DEF t
<1>4. Len(t) + 0 <= Count(Char(a), from, n + 1)
  <2>1. Count(Char(a), from, n) \in Nat /\ Count(Char(a), from, n + 1) = Count(Char(a), from, n)
    BY <1>1, NextCount
  <2>2. Len(s) + 0 <= Count(Char(a), from, n)
    BY DEF LineFrom
  <2> QED
    BY <1>3, <2>1, <2>2
<1>5. ASSUME Plain(a, from, n + 1)
      PROVE  t = Seen(SubSeq(a, from, n + 1)) /\ \A i \in 1 .. Len(t) : t[i] # "NUL"
  <2>1. Plain(a, from, n) /\ s = Seen(SubSeq(a, from, n)) /\ \A i \in 1 .. Len(s) : s[i] # "NUL"
    BY <1>1, <1>5 DEF LineFrom
  <2> QED
    BY <1>1, <1>2, <1>3, <2>1
<1>6. LineFrom(a, n + 1, t, 0, from)
  BY <1>1, <1>4, <1>5 DEF LineFrom
<1> QED
  BY <1>6 DEF t

\* After a Ctrl+C, TASK_STOP's answer is going to be stored ...
LEMMA ReadStop ==
  ASSUME NEW a \in Seq(Keys), NEW n \in Nat, n < Len(a), a[n + 1] = "^C",
         NEW s \in Seq(InputChars), NEW from, LineFrom(a, n, s, 0, from)
  PROVE  LineFrom(a, n + 1, s, 1, from)
<1>1. /\ from \in 1 .. n + 1 /\ from \in 1 .. n + 1 + 1
      /\ from # 1 => a[from - 1] = "LF"
      /\ OneLine(a, from, n + 1)
      /\ ~ Plain(a, from, n + 1)
  BY LineGoesOn
<1>2. Len(s) + 1 <= Count(Char(a), from, n + 1)
  <2>1. Count(Char(a), from, n) \in Nat /\ Count(Char(a), from, n + 1) = Count(Char(a), from, n) + 1
    BY <1>1, NextCount
  <2>2. Len(s) + 0 <= Count(Char(a), from, n) /\ Len(s) \in Nat
    BY DEF LineFrom
  <2> QED
    BY <2>1, <2>2
<1> QED
  BY <1>1, <1>2 DEF LineFrom

\* ... and is stored.
LEMMA StoreAnswer ==
  ASSUME NEW a \in Seq(Keys), NEW n \in Nat \ {0}, a[n] = "^C",
         NEW s \in Seq(InputChars), NEW x \in InputChars, NEW from, LineFrom(a, n, s, 1, from)
  PROVE  LineFrom(a, n, Append(s, x), 0, from)
<1>1. /\ from \in 1 .. n + 1 /\ (from # 1 => a[from - 1] = "LF") /\ OneLine(a, from, n)
      /\ Len(s) + 1 <= Count(Char(a), from, n)
  BY DEF LineFrom
<1>2. Len(s) \in Nat /\ Len(Append(s, x)) = Len(s) + 1
  OBVIOUS
<1>3. from <= n
  <2>1. from > n => Count(Char(a), from, n) = 0
    BY <1>1, CountNone
  <2> QED
    BY <1>1, <1>2, <2>1
<1>4. ~ Plain(a, from, n)
  BY <1>1, <1>3 DEF Plain
<1>5. Len(Append(s, x)) + 0 <= Count(Char(a), from, n)
  BY <1>1, <1>2
<1> QED
  BY <1>1, <1>4, <1>5 DEF LineFrom

\* What is written lies inside the line.
LEMMA WroteInside ==
  ASSUME NEW a \in Seq(Keys), NEW n \in Nat, n <= Len(a), NEW s \in Seq(InputChars),
         NEW owed \in {0, 1}, NEW from, LineFrom(a, n, s, owed, from)
  PROVE  HighIn(a, Len(s))
<1>1. /\ from \in 1 .. n + 1 /\ OneLine(a, from, n) /\ Len(a) \in Nat
      /\ Len(s) + owed <= Count(Char(a), from, n) /\ Len(s) \in Nat
  BY DEF LineFrom
<1>2. CASE from > n
  <2>1. Count(Char(a), from, n) = 0
    BY <1>1, <1>2, CountNone
  <2>2. Len(s) = 0
    BY <1>1, <2>1
  <2> QED
    BY <2>2 DEF HighIn
<1>3. CASE from <= n
  <2>1. from \in 1 .. Len(a) /\ n \in 1 .. Len(a)
    BY <1>1, <1>3
  <2>2. Count(Char(a), from, n) \in Nat
    BY <1>1, CountStep
  <2>3. Len(s) <= Count(Char(a), from, n)
    BY <1>1, <2>2
  <2> QED
    BY <1>1, <2>1, <2>3 DEF HighIn
<1> QED
  BY <1>1, <1>2, <1>3

-----------------------------------------------------------------------------
\* The string in the input buffer is all of it if there is no NUL.
LEMMA CStringFacts ==
  ASSUME NEW s \in Seq(InputChars)
  PROVE  /\ CString(s) \in Seq(InputChars)
         /\ (\A i \in 1 .. Len(s) : s[i] # "NUL") => CString(s) = s
<1> DEFINE I == {i \in DOMAIN s : s[i] = "NUL"}
<1>1. CString(s) = IF I = {} THEN s ELSE SubSeq(s, 1, Min(I) - 1)
  BY DEF CString
<1>2. Len(s) \in Nat
  OBVIOUS
<1>3. I # {} => Min(I) \in 1 .. Len(s)
  <2> SUFFICES ASSUME I # {}
               PROVE  Min(I) \in 1 .. Len(s)
    OBVIOUS
  <2>1. I \subseteq Nat /\ I \subseteq 1 .. Len(s)
    BY <1>2
  <2> HIDE DEF I
  <2>2. \E m \in I : \A g \in I : m <= g
    BY <2>1, LeastNumber
  <2> QED
    BY <2>1, <2>2 DEF Min
<1>4. (\A i \in 1 .. Len(s) : s[i] # "NUL") => I = {}
  OBVIOUS
<1> HIDE DEF I
<1>5. I # {} => SubSeq(s, 1, Min(I) - 1) \in Seq(InputChars)
  <2> SUFFICES ASSUME I # {}
               PROVE  SubSeq(s, 1, Min(I) - 1) \in Seq(InputChars)
    OBVIOUS
  <2>1. 1 \in 1 .. Len(s) + 1 /\ Min(I) - 1 \in 1 - 1 .. Len(s)
    BY <1>2, <1>3
  <2> QED
    BY <2>1
<1> QED
  BY <1>1, <1>4, <1>5

\* A key that is no line feed runs nothing.
LEMMA RunsNothing ==
  ASSUME NEW a \in Seq(Keys), NEW n \in Nat, n < Len(a), a[n + 1] # "LF", NEW r, RanIn(a, n, r)
  PROVE  RanIn(a, n + 1, r)
<1>1. Count(Feed(a), 1, n) \in Nat /\ Count(Feed(a), 1, n + 1) = Count(Feed(a), 1, n)
  BY NextCount
<1>2. 1 .. n \subseteq 1 .. n + 1
  OBVIOUS
<1> QED
  BY <1>1, <1>2 DEF RanIn

\* The line that a line feed ends comes after those that were run.
LEMMA LineIsNext ==
  ASSUME NEW a \in Seq(Keys), NEW n \in Nat, n < Len(a), a[n + 1] = "LF",
         NEW from \in 1 .. n + 1, from # 1 => a[from - 1] = "LF", OneLine(a, from, n)
  PROVE  IsLine(a, Count(Feed(a), 1, n) + 1, from, n + 1)
<1>0. PICK m : m = Count(Feed(a), 1, n)
  OBVIOUS
<1>1. Len(a) \in Nat /\ n + 1 \in 1 .. Len(a) /\ m \in Nat /\ Count(Feed(a), 1, n + 1) = m + 1
  <2>1. 1 \in 1 .. n + 1
    OBVIOUS
  <2> QED
    BY <1>0, <2>1, NextCount
<1>2. IsEnd(a, m + 1, n + 1)
  BY <1>1 DEF IsEnd
<1>3. Count(Feed(a), 1, from - 1) = m
  <2>1. Feed(a) \cap (1 .. n) = Feed(a) \cap (1 .. from - 1)
    BY <1>1 DEF Feed, OneLine
  <2> QED
    BY <1>0, <2>1 DEF Count
<1>4. CASE from = 1
  <2>1. Count(Feed(a), 1, 0) = 0
    BY CountNone
  <2>2. m = 0
    BY <1>3, <1>4, <2>1
  <2> QED
    BY <1>0, <1>2, <1>4, <2>2 DEF IsLine
<1>5. CASE from # 1
  <2>1. from - 2 \in Nat /\ from - 2 < Len(a) /\ from - 2 + 1 = from - 1
        /\ from - 1 \in 1 .. Len(a) /\ 1 \in 1 .. from - 2 + 1
    BY <1>1, <1>5
  <2>2. Count(Feed(a), 1, from - 2) \in Nat
        /\ Count(Feed(a), 1, from - 2 + 1) = Count(Feed(a), 1, from - 2) + 1
    BY <1>5, <2>1, NextCount
  <2>3. m # 0
    BY <1>3, <2>1, <2>2
  <2>4. IsEnd(a, (m + 1) - 1, from - 1)
    BY <1>1, <1>3, <1>5, <2>1 DEF IsEnd
  <2>5. m + 1 # 1 /\ from > 1 /\ from \in 1 .. n + 1
    BY <1>1, <1>5, <2>3
  <2>6. IsLine(a, m + 1, from, n + 1)
    BY <1>2, <2>4, <2>5, Zenon DEF IsLine
  <2> QED
    BY <1>0, <2>6, Zenon
<1> QED
  BY <1>4, <1>5

\* A line that has just begun.
LEMMA EmptyLine ==
  ASSUME NEW a, NEW n \in Nat, n # 0 => a[n] = "LF"
  PROVE  LineFrom(a, n, <<>>, 0, n + 1)
<1>1. n + 1 \in 1 .. n + 1 /\ n + 1 - 1 = n /\ n + 1 .. n = {} /\ (n + 1 # 1 => a[n + 1 - 1] = "LF")
  OBVIOUS
<1>2. Len(<<>>) = 0
  OBVIOUS
<1>3. Len(<<>>) + 0 <= Count(Char(a), n + 1, n)
  <2>1. Count(Char(a), n + 1, n) = 0
    BY CountNone
  <2> QED
    BY <1>2, <2>1
<1>4. <<>> = Seen(SubSeq(a, n + 1, n))
  <2>1. SubSeq(a, n + 1, n) = <<>>
    OBVIOUS
  <2> QED
    BY <2>1, SeenNothing
<1>5. \A i \in 1 .. Len(<<>>) : <<>>[i] # "NUL"
  <2>1. 1 .. 0 = {}
    OBVIOUS
  <2> QED
    BY <1>2, <2>1
<1>6. OneLine(a, n + 1, n)
  BY <1>1 DEF OneLine
<1>7. n + 1 \in 1 .. n + 1
  BY <1>1
<1>8. n + 1 # 1 => a[n + 1 - 1] = "LF"
  BY <1>1
<1> QED
  BY <1>3, <1>4, <1>5, <1>6, <1>7, <1>8 DEF LineFrom

\* A line feed runs the line, and a new one begins.
LEMMA RunsLine ==
  ASSUME NEW a \in Seq(Keys), NEW n \in Nat, n < Len(a), a[n + 1] = "LF",
         NEW r \in Seq(Seq(InputChars)), RanIn(a, n, r),
         NEW s \in Seq(InputChars), NEW from, LineFrom(a, n, s, 0, from)
  PROVE  /\ RanIn(a, n + 1, Append(r, CString(s)))
         /\ LineFrom(a, n + 1, <<>>, 0, n + 2)
<1> DEFINE x == CString(s)
           q == Append(r, x)
<1>1. /\ from \in 1 .. n + 1 /\ (from # 1 => a[from - 1] = "LF") /\ OneLine(a, from, n)
      /\ Plain(a, from, n) => s = Seen(SubSeq(a, from, n)) /\ \A i \in 1 .. Len(s) : s[i] # "NUL"
  BY DEF LineFrom
<1>2. Plain(a, from, n) => x = Seen(SubSeq(a, from, n))
  BY <1>1, CStringFacts
<1>3. x \in Seq(InputChars)
  BY CStringFacts
<1> HIDE DEF x
<1>4. Len(r) \in Nat /\ Len(q) = Len(r) + 1 /\ q[Len(r) + 1] = x /\ \A i \in 1 .. Len(r) : q[i] = r[i]
  BY <1>3
<1> HIDE DEF q
<1>5. Count(Feed(a), 1, n) = Len(r) /\ Count(Feed(a), 1, n + 1) = Len(q)
  <2>1. 1 \in 1 .. n + 1
    OBVIOUS
  <2>2. Count(Feed(a), 1, n + 1) = Count(Feed(a), 1, n) + 1
    BY <2>1, NextCount
  <2> QED
    BY <1>4, <2>2 DEF RanIn
<1>6. ASSUME NEW i \in 1 .. Len(q)
      PROVE  \E f, t \in 1 .. n + 1 :
               IsLine(a, i, f, t) /\ (Plain(a, f, t - 1) => q[i] = Seen(SubSeq(a, f, t - 1)))
  <2>1. CASE i = Len(r) + 1
    <3>1. IsLine(a, i, from, n + 1)
      BY <1>1, <1>5, <2>1, LineIsNext
    <3>2. n + 1 - 1 = n /\ n + 1 \in 1 .. n + 1
      OBVIOUS
    <3>3. Plain(a, from, n + 1 - 1) => q[i] = Seen(SubSeq(a, from, n + 1 - 1))
      BY <1>2, <1>4, <2>1, <3>2
    <3> QED
      BY <1>1, <3>1, <3>2, <3>3
  <2>2. CASE i # Len(r) + 1
    <3>1. i \in 1 .. Len(r) /\ q[i] = r[i] /\ 1 .. n \subseteq 1 .. n + 1
      BY <1>4, <2>2
    <3> QED
      BY <3>1 DEF RanIn
  <2> QED
    BY <2>1, <2>2
<1>7. RanIn(a, n + 1, q)
  BY <1>5, <1>6 DEF RanIn
<1>8. LineFrom(a, n + 1, <<>>, 0, n + 2)
  <2>1. n + 1 \in Nat /\ n + 1 + 1 = n + 2
    OBVIOUS
  <2> QED
    BY <2>1, EmptyLine
<1> QED
  BY <1>7, <1>8 DEF q, x

\* What RanIn says of the keys accepted so far is what the terminal promises.
LEMMA RanSuffices ==
  ASSUME accepted \in Seq(Keys), NEW n \in 0 .. Len(accepted), RanIn(accepted, n, ran),
         ran \in Seq(Seq(InputChars))
  PROVE  RunsWhatWasTyped
<1>1. Len(accepted) \in Nat /\ DOMAIN accepted = 1 .. Len(accepted) /\ DOMAIN ran = 1 .. Len(ran)
      /\ Len(ran) \in Nat
  OBVIOUS
<1>2. ASSUME NEW i, NEW j, IsEnd(accepted, i, j)
      PROVE  EndOf(i) = j
  <2>1. \A k \in 1 .. Len(accepted) :
          {l \in 1 .. k : accepted[l] = "LF"} = Feed(accepted) \cap (1 .. k)
    BY <1>1 DEF Feed
  <2>2. \A k \in 1 .. Len(accepted) :
          accepted[k] = "LF" /\ Cardinality({l \in 1 .. k : accepted[l] = "LF"}) = i
            <=> IsEnd(accepted, i, k)
    BY <2>1 DEF IsEnd, Count
  <2>3. \A k \in 1 .. Len(accepted) : IsEnd(accepted, i, k) => k = j
    <3> SUFFICES ASSUME NEW k \in 1 .. Len(accepted), IsEnd(accepted, i, k)
                 PROVE  k = j
      OBVIOUS
    <3>1. /\ k \in Feed(accepted) /\ j \in Feed(accepted) /\ k \in Nat /\ j \in Nat
          /\ Count(Feed(accepted), 1, k) = Count(Feed(accepted), 1, j)
      BY <1>1, <1>2 DEF IsEnd, Feed
    <3> QED
      BY <3>1, CountDetermines
  <2>4. j \in 1 .. Len(accepted)
    BY <1>2 DEF IsEnd
  <2> QED
    BY <1>1, <1>2, <2>2, <2>3, <2>4 DEF EndOf
<1> SUFFICES ASSUME NEW i \in 1 .. Len(ran), "^C" \notin Range(Typed(i))
             PROVE  ran[i] = Seen(Typed(i))
  BY <1>1 DEF RunsWhatWasTyped
<1>3. PICK from, to \in 1 .. n :
        /\ IsLine(accepted, i, from, to)
        /\ Plain(accepted, from, to - 1) => ran[i] = Seen(SubSeq(accepted, from, to - 1))
  BY DEF RanIn
<1>4. EndOf(i) = to /\ (i # 1 => EndOf(i - 1) + 1 = from) /\ (i = 1 => from = 1) /\ from <= to
  <2>1. EndOf(i) = to
    BY <1>2, <1>3 DEF IsLine
  <2>2. i # 1 => EndOf(i - 1) = from - 1
    BY <1>2, <1>3 DEF IsLine
  <2> QED
    BY <1>3, <2>1, <2>2 DEF IsLine
<1>5. Typed(i) = SubSeq(accepted, from, to - 1)
  BY <1>4 DEF Typed
<1>6. Plain(accepted, from, to - 1)
  <2> SUFFICES ASSUME NEW j \in from .. to - 1, accepted[j] = "^C"
               PROVE  FALSE
    BY DEF Plain
  <2>1. SubSeq(accepted, from, to - 1) = [k \in 1 .. to - 1 - from + 1 |-> accepted[from + k - 1]]
    OBVIOUS
  <2>2. j - from + 1 \in 1 .. to - 1 - from + 1 /\ from + (j - from + 1) - 1 = j
    BY <1>3
  <2>3. j - from + 1 \in DOMAIN Typed(i) /\ Typed(i)[j - from + 1] = "^C"
    BY <1>5, <2>1, <2>2
  <2> QED
    BY <2>3 DEF Range
<1> QED
  BY <1>3, <1>5, <1>6

\* What HighIn says of the keys accepted so far is what the terminal promises.
LEMMA HighSuffices ==
  ASSUME accepted \in Seq(Keys), HighIn(accepted, high), high \in Nat
  PROVE  WritesInsideBuffer
<1>1. Len(accepted) \in Nat /\ DOMAIN accepted = 1 .. Len(accepted)
  OBVIOUS
<1> DEFINE Chars(from, to) ==
             Cardinality({j \in from .. to : accepted[j] \notin {"LF", "BS"}})
<1> SUFFICES ASSUME \A from, to \in DOMAIN accepted :
                      (\A j \in from .. to : accepted[j] # "LF") => Chars(from, to) < InputSize
             PROVE  high < InputSize
  BY DEF WritesInsideBuffer
<1>2. CASE high = 0
  BY <1>2, TerminalAssumption
<1>3. CASE high # 0
  <2>1. PICK from, to \in 1 .. Len(accepted) :
          OneLine(accepted, from, to) /\ high <= Count(Char(accepted), from, to)
    BY <1>3 DEF HighIn
  <2>2. {j \in from .. to : accepted[j] \notin {"LF", "BS"}} = Char(accepted) \cap (from .. to)
    BY <1>1 DEF Char
  <2>3. Count(Char(accepted), from, to) < InputSize
    BY <1>1, <2>1, <2>2 DEF Count, OneLine
  <2>4. Count(Char(accepted), from, to) \in Nat
    <3>1. from <= to => Count(Char(accepted), from, to) \in Nat
      BY <1>1, CountStep
    <3>2. from > to => Count(Char(accepted), from, to) = 0
      BY <1>1, CountNone
    <3> QED
      BY <1>1, <3>1, <3>2
  <2> QED
    BY <2>1, <2>3, <2>4, TerminalAssumption
<1> QED
  BY <1>2, <1>3

-----------------------------------------------------------------------------
\* The number of keys that the terminal has read.
KeysRead == Len(accepted) - Len(waiting)

\* TASK_STOP is under way, and its answer is going to be stored.
Stopping == {"stop", "look", "stopped"}

Owed == IF pc \in Stopping THEN 1 ELSE 0

\* The keys that wait are the last ones accepted.
KeysInv ==
  /\ accepted \in Seq(Keys) /\ waiting \in Seq(Keys)
  /\ Len(waiting) <= Capacity /\ Len(waiting) <= Len(accepted)
  /\ \A i \in 1 .. Len(waiting) : waiting[i] = accepted[KeysRead + i]

\* What the terminal holds and has done follows from the keys it has read.
LinesInv ==
  /\ input \in Seq(InputChars) /\ ran \in Seq(Seq(InputChars)) /\ high \in Nat
  /\ pc \in Stopping => KeysRead # 0 /\ accepted[KeysRead] = "^C"
  /\ \E from : LineFrom(accepted, KeysRead, input, Owed, from)
  /\ HighIn(accepted, high)
  /\ RanIn(accepted, KeysRead, ran)

PcInv == pc \in {"getchar", "create", "poll", "check", "stop", "look", "stopped"}

InputInv == KeysInv /\ LinesInv /\ PcInv

\* The number of keys read is one of their places, or 0.
LEMMA KeysReadFacts ==
  ASSUME KeysInv
  PROVE  /\ KeysRead \in Nat /\ Len(accepted) \in Nat /\ Len(waiting) \in Nat
         /\ KeysRead <= Len(accepted) /\ KeysRead + Len(waiting) = Len(accepted)
  BY DEF KeysInv, KeysRead

\* The highest place written to is that of the line or an earlier one.
LEMMA WroteHigh ==
  ASSUME InputInv, Wrote(Len(input))
  PROVE  high' \in Nat /\ HighIn(accepted, high')
<1>1. PICK from : LineFrom(accepted, KeysRead, input, Owed, from)
  BY DEF InputInv, LinesInv
<1>2. HighIn(accepted, Len(input))
  <2>1. Owed \in {0, 1}
    BY DEF Owed
  <2>2. accepted \in Seq(Keys) /\ input \in Seq(InputChars)
    BY DEF InputInv, KeysInv, LinesInv
  <2>3. KeysRead \in Nat /\ KeysRead <= Len(accepted)
    BY KeysReadFacts DEF InputInv
  <2> QED
    BY <1>1, <2>1, <2>2, <2>3, WroteInside
<1>3. Len(input) \in Nat /\ high \in Nat /\ HighIn(accepted, high)
  BY DEF InputInv, LinesInv
<1> QED
  BY <1>2, <1>3 DEF Wrote

\* A step that touches neither the keys nor the line.
LEMMA InputKept ==
  ASSUME InputInv, UNCHANGED <<waiting, accepted, input, ran, high>>,
         pc' \in Stopping <=> pc \in Stopping, PcInv'
  PROVE  InputInv'
<1>1. KeysRead' = KeysRead /\ Owed' = Owed
  BY DEF KeysRead, Owed
<1>2. KeysInv'
  BY <1>1 DEF InputInv, KeysInv
<1>3. LinesInv'
  BY <1>1 DEF InputInv, LinesInv
<1> QED
  BY <1>2, <1>3 DEF InputInv

\* A key is accepted, or dropped.
LEMMA KeyHitKeeps ==
  ASSUME InputInv, NEW k \in Keys, KeyHit(k)
  PROVE  InputInv'
<1>1. /\ waiting' = (IF Len(waiting) < Capacity THEN Append(waiting, k) ELSE waiting)
      /\ accepted' = IF waiting' = waiting THEN accepted ELSE Append(accepted, k)
      /\ UNCHANGED <<pc, input, ran, high>>
  BY DEF KeyHit, Queue!Put
<1>2. CASE ~ (Len(waiting) < Capacity)
  <2>1. UNCHANGED <<waiting, accepted, input, ran, high>> /\ pc' = pc
    BY <1>1, <1>2
  <2> QED
    BY <2>1, InputKept DEF InputInv, PcInv
<1>3. CASE Len(waiting) < Capacity
  <2>1. accepted \in Seq(Keys) /\ waiting \in Seq(Keys)
    BY DEF InputInv, KeysInv
  <2>2. waiting' = Append(waiting, k) /\ Len(waiting') = Len(waiting) + 1 /\ waiting' # waiting
    BY <1>1, <1>3, <2>1
  <2>3. accepted' = Append(accepted, k)
    BY <1>1, <2>2
  <2>4. /\ KeysRead \in Nat /\ Len(accepted) \in Nat /\ Len(waiting) \in Nat
        /\ KeysRead <= Len(accepted) /\ KeysRead + Len(waiting) = Len(accepted)
    BY KeysReadFacts DEF InputInv
  <2>5. /\ accepted' \in Seq(Keys) /\ waiting' \in Seq(Keys) /\ Len(accepted') = Len(accepted) + 1
        /\ accepted'[Len(accepted) + 1] = k /\ waiting'[Len(waiting) + 1] = k
        /\ \A i \in 1 .. Len(accepted) : accepted'[i] = accepted[i]
        /\ \A i \in 1 .. Len(waiting) : waiting'[i] = waiting[i]
    BY <2>1, <2>2, <2>3
  <2>6. KeysRead' = KeysRead /\ Owed' = Owed
    BY <1>1, <2>2, <2>4, <2>5 DEF KeysRead, Owed
  <2>7. KeysInv'
    <3>1. Len(waiting') <= Capacity /\ Len(waiting') <= Len(accepted')
      BY <1>3, <2>2, <2>4, <2>5, TerminalAssumption
    <3>2. ASSUME NEW i \in 1 .. Len(waiting')
          PROVE  waiting'[i] = accepted'[KeysRead + i]
      <4>1. CASE i = Len(waiting) + 1
        BY <2>4, <2>5, <4>1
      <4>2. CASE i # Len(waiting) + 1
        <5>1. i \in 1 .. Len(waiting) /\ KeysRead + i \in 1 .. Len(accepted)
          BY <2>2, <2>4, <4>2
        <5>2. waiting[i] = accepted[KeysRead + i]
          BY <5>1 DEF InputInv, KeysInv
        <5> QED
          BY <2>5, <5>1, <5>2
      <4> QED
        BY <4>1, <4>2
    <3> QED
      BY <2>5, <2>6, <3>1, <3>2 DEF KeysInv
  <2>8. Begins(accepted, accepted')
    BY <2>1, <2>3, AppendBegins
  <2>9. PICK from : LineFrom(accepted, KeysRead, input, Owed, from)
    BY DEF InputInv, LinesInv
  <2>10. /\ LineFrom(accepted', KeysRead, input, Owed, from)
         /\ HighIn(accepted', high) /\ RanIn(accepted', KeysRead, ran)
    <3>1. HighIn(accepted, high) /\ RanIn(accepted, KeysRead, ran)
      BY DEF InputInv, LinesInv
    <3> QED
      BY <2>4, <2>8, <2>9, <3>1, BeginsKeeps
  <2>11. pc \in Stopping => KeysRead # 0 /\ accepted'[KeysRead] = "^C"
    BY <2>4, <2>5 DEF InputInv, LinesInv
  <2>12. LinesInv'
    <3>1. input \in Seq(InputChars) /\ ran \in Seq(Seq(InputChars)) /\ high \in Nat
      BY DEF InputInv, LinesInv
    <3> QED
      BY <1>1, <2>6, <2>10, <2>11, <3>1 DEF LinesInv
  <2> QED
    BY <1>1, <2>7, <2>12 DEF InputInv, PcInv
<1> QED
  BY <1>2, <1>3

\* The first key that waits is the next one of those accepted.
LEMMA ReadKey ==
  ASSUME KeysInv, waiting # <<>>, waiting' = Tail(waiting), accepted' = accepted
  PROVE  /\ KeysInv' /\ KeysRead' = KeysRead + 1 /\ KeysRead < Len(accepted)
         /\ Head(waiting) = accepted[KeysRead + 1] /\ Head(waiting) \in Keys
<1>1. /\ KeysRead \in Nat /\ Len(accepted) \in Nat /\ Len(waiting) \in Nat
      /\ KeysRead <= Len(accepted) /\ KeysRead + Len(waiting) = Len(accepted)
  BY KeysReadFacts
<1>2. accepted \in Seq(Keys) /\ waiting \in Seq(Keys) /\ Len(waiting) <= Capacity
  BY DEF KeysInv
<1>3. /\ Len(waiting) # 0 /\ Head(waiting) = waiting[1] /\ Head(waiting) \in Keys
      /\ waiting' \in Seq(Keys) /\ Len(waiting') = Len(waiting) - 1
      /\ \A i \in 1 .. Len(waiting) - 1 : waiting'[i] = waiting[i + 1]
  BY <1>2
<1>4. \A i \in 1 .. Len(waiting) : waiting[i] = accepted[KeysRead + i]
  BY DEF KeysInv
<1>5. KeysRead' = KeysRead + 1 /\ KeysRead < Len(accepted) /\ 1 \in 1 .. Len(waiting)
  BY <1>1, <1>3 DEF KeysRead
<1>6. \A i \in 1 .. Len(waiting') : waiting'[i] = accepted[KeysRead + 1 + i]
  <2> SUFFICES ASSUME NEW i \in 1 .. Len(waiting')
               PROVE  waiting'[i] = accepted[KeysRead + 1 + i]
    OBVIOUS
  <2>1. i \in 1 .. Len(waiting) - 1 /\ i + 1 \in 1 .. Len(waiting)
        /\ KeysRead + (i + 1) = KeysRead + 1 + i
    BY <1>1, <1>3
  <2> QED
    BY <1>3, <1>4, <2>1
<1>7. KeysInv'
  BY <1>1, <1>2, <1>3, <1>5, <1>6, TerminalAssumption DEF KeysInv
<1> QED
  BY <1>3, <1>4, <1>5, <1>7

\* GETCHAR, and what the terminal does with the key.
LEMMA GetCharKeeps ==
  ASSUME InputInv, GetChar
  PROVE  InputInv'
<1>1. /\ pc = "getchar" /\ accepted' = accepted
      /\ IF waiting = <<>> THEN answer' = Empty /\ waiting' = waiting
         ELSE answer' = Head(waiting) /\ waiting' = Tail(waiting)
  BY DEF GetChar, Queue!Get
<1>2. /\ accepted \in Seq(Keys) /\ input \in Seq(InputChars)
      /\ ran \in Seq(Seq(InputChars)) /\ high \in Nat
      /\ HighIn(accepted, high) /\ RanIn(accepted, KeysRead, ran) /\ KeysInv
  BY DEF InputInv, KeysInv, LinesInv
<1>3. PICK from : LineFrom(accepted, KeysRead, input, 0, from)
  BY <1>1 DEF InputInv, LinesInv, Owed, Stopping
<1>4. KeysRead \in Nat
  BY <1>2, KeysReadFacts
<1>5. CASE waiting = <<>>
  <2>1. answer' = "0" /\ waiting' = waiting
    BY <1>1, <1>5 DEF Empty
  <2>2. UNCHANGED <<pc, input, ran, high>>
    BY <2>1 DEF GetChar, Empty
  <2> QED
    BY <1>1, <2>1, <2>2, InputKept DEF InputInv, PcInv
<1>6. CASE waiting # <<>>
  <2> DEFINE n == KeysRead
             c == accepted[n + 1]
  <2>1. answer' = Head(waiting) /\ waiting' = Tail(waiting)
    BY <1>1, <1>6
  <2>2. KeysInv' /\ KeysRead' = n + 1 /\ n < Len(accepted) /\ answer' = c /\ c \in Keys
    BY <1>1, <1>2, <1>6, <2>1, ReadKey
  <2>3. c # "0"
    BY <2>2, TerminalAssumption
  <2> HIDE DEF n, c
  <2>4. \/ c = "^C" /\ pc' = "stop" /\ UNCHANGED <<input, ran, high>>
        \/ c = "LF" /\ NewLine
        \/ c = "BS" /\ Backspace /\ UNCHANGED ran
        \/ c \notin {"LF", "BS"} /\ Store(c) /\ UNCHANGED ran
    BY <2>2, <2>3 DEF GetChar, Empty
  <2>5. n \in Nat /\ LineFrom(accepted, n, input, 0, from) /\ RanIn(accepted, n, ran)
        /\ c = accepted[n + 1]
    BY <1>2, <1>3, <1>4 DEF n, c
  <2>6. CASE c = "^C" /\ pc' = "stop" /\ UNCHANGED <<input, ran, high>>
    <3>1. LineFrom(accepted, n + 1, input, 1, from)
      BY <1>2, <2>2, <2>5, <2>6, ReadStop
    <3>2. RanIn(accepted, n + 1, ran)
      BY <1>2, <2>2, <2>5, <2>6, RunsNothing
    <3>3. Owed' = 1 /\ PcInv' /\ n + 1 # 0
      BY <2>5, <2>6 DEF Owed, Stopping, PcInv
    <3>4. LinesInv'
      BY <1>1, <1>2, <2>2, <2>5, <2>6, <3>1, <3>2, <3>3 DEF LinesInv
    <3> QED
      BY <2>2, <3>3, <3>4 DEF InputInv
  <2>7. CASE c = "LF" /\ NewLine
    <3>1. /\ Wrote(Len(input)) /\ ran' = Append(ran, CString(input)) /\ input' = <<>>
          /\ pc' = "create"
      BY <2>7 DEF NewLine
    <3>2. RanIn(accepted, n + 1, ran') /\ LineFrom(accepted, n + 1, input', 0, n + 2)
      BY <1>2, <2>2, <2>5, <2>7, <3>1, RunsLine
    <3>3. high' \in Nat /\ HighIn(accepted, high')
      BY <3>1, WroteHigh
    <3>4. ran' \in Seq(Seq(InputChars)) /\ input' \in Seq(InputChars)
      <4>1. CString(input) \in Seq(InputChars)
        BY <1>2, CStringFacts
      <4> QED
        BY <1>2, <3>1, <4>1
    <3>5. Owed' = 0 /\ PcInv' /\ pc' \notin Stopping
      BY <3>1 DEF Owed, Stopping, PcInv
    <3>6. LinesInv'
      BY <1>1, <2>2, <3>2, <3>3, <3>4, <3>5 DEF LinesInv
    <3> QED
      BY <2>2, <3>5, <3>6 DEF InputInv
  <2>8. CASE c = "BS" /\ Backspace /\ UNCHANGED ran
    <3>1. input' = (IF input = <<>> THEN input ELSE SubSeq(input, 1, Len(input) - 1)) /\ UNCHANGED <<pc, high, ran>>
      BY <2>8 DEF Backspace
    <3>2. LineFrom(accepted, n + 1, input', 0, from)
      BY <1>2, <2>2, <2>5, <2>8, <3>1, ReadBackspace
    <3>3. RanIn(accepted, n + 1, ran)
      BY <1>2, <2>2, <2>5, <2>8, RunsNothing
    <3>4. input' \in Seq(InputChars)
      BY <1>2, <3>1
    <3>5. Owed' = 0 /\ PcInv' /\ pc' \notin Stopping
      BY <1>1, <3>1 DEF Owed, Stopping, PcInv
    <3>6. LinesInv'
      BY <1>1, <1>2, <2>2, <3>1, <3>2, <3>3, <3>4, <3>5 DEF LinesInv
    <3> QED
      BY <2>2, <3>5, <3>6 DEF InputInv
  <2>9. CASE c \notin {"LF", "BS"} /\ Store(c) /\ UNCHANGED ran
    <3>1. /\ input' = Append(input, IF c = "space" THEN " " ELSE c) /\ Wrote(Len(input))
          /\ pc' = "getchar" /\ ran' = ran
      BY <2>9 DEF Store
    <3>2. LineFrom(accepted, n + 1, input', 0, from)
      BY <1>2, <2>2, <2>5, <2>9, <3>1, ReadChar
    <3>3. RanIn(accepted, n + 1, ran)
      BY <1>2, <2>2, <2>5, <2>9, RunsNothing
    <3>4. high' \in Nat /\ HighIn(accepted, high')
      BY <3>1, WroteHigh
    <3>5. input' \in Seq(InputChars)
      <4>1. PICK x : x = IF c = "space" THEN " " ELSE c
        OBVIOUS
      <4>2. x \in InputChars
        BY <2>2, <4>1 DEF InputChars
      <4>3. input' = Append(input, x)
        BY <3>1, <4>1
      <4> QED
        BY <1>2, <4>2, <4>3
    <3>6. Owed' = 0 /\ PcInv' /\ pc' \notin Stopping
      BY <3>1 DEF Owed, Stopping, PcInv
    <3>7. LinesInv'
      BY <1>1, <1>2, <2>2, <3>1, <3>2, <3>3, <3>4, <3>5, <3>6 DEF LinesInv
    <3> QED
      BY <2>2, <3>6, <3>7 DEF InputInv
  <2> QED
    BY <2>4, <2>6, <2>7, <2>8, <2>9
<1> QED
  BY <1>5, <1>6

\* The answer of TASK_STOP is stored like a character.
LEMMA AnswerKeeps ==
  ASSUME InputInv, pc \in Stopping, NEW x \in {"0xFF", "NUL"}, Store(x),
         UNCHANGED <<waiting, accepted, ran>>
  PROVE  InputInv'
<1>1. /\ accepted \in Seq(Keys) /\ input \in Seq(InputChars)
      /\ ran \in Seq(Seq(InputChars)) /\ RanIn(accepted, KeysRead, ran) /\ KeysInv
      /\ KeysRead # 0 /\ accepted[KeysRead] = "^C"
  BY DEF InputInv, KeysInv, LinesInv
<1>2. PICK from : LineFrom(accepted, KeysRead, input, 1, from)
  BY DEF InputInv, LinesInv, Owed
<1>3. x \in InputChars /\ input' = Append(input, x) /\ Wrote(Len(input)) /\ pc' = "getchar"
  BY DEF Store, InputChars
<1>4. KeysRead \in Nat \ {0}
  BY <1>1, KeysReadFacts
<1>5. LineFrom(accepted, KeysRead, input', 0, from)
  BY <1>1, <1>2, <1>3, <1>4, StoreAnswer
<1>6. high' \in Nat /\ HighIn(accepted, high')
  BY <1>3, WroteHigh
<1>7. input' \in Seq(InputChars)
  BY <1>1, <1>3
<1>8. Owed' = 0 /\ PcInv' /\ pc' \notin Stopping /\ KeysRead' = KeysRead
  BY <1>3 DEF Owed, Stopping, PcInv, KeysRead
<1>9. LinesInv'
  BY <1>1, <1>5, <1>6, <1>7, <1>8 DEF LinesInv
<1>10. KeysInv'
  BY <1>1, <1>8 DEF KeysInv
<1> QED
  BY <1>8, <1>9, <1>10 DEF InputInv

\* At the first prompt nothing was typed, read or run.
LEMMA InitInput == Init => InputInv
<1> SUFFICES ASSUME Init
             PROVE  InputInv
  OBVIOUS
<1>1. /\ waiting = <<>> /\ accepted = <<>> /\ input = <<>> /\ ran = <<>> /\ high = 0
      /\ pc = "getchar"
  BY DEF Init, Queue!Init
<1>2. Len(<<>>) = 0 /\ \A S : <<>> \in Seq(S)
  OBVIOUS
<1>3. KeysRead = 0
  BY <1>1, <1>2 DEF KeysRead
<1>4. KeysInv
  BY <1>1, <1>2, <1>3, TerminalAssumption DEF KeysInv
<1>5. LineFrom(<<>>, 0, <<>>, 0, 1)
  <2>1. 0 \in Nat /\ 0 + 1 = 1
    OBVIOUS
  <2> QED
    BY <2>1, EmptyLine
<1>6. RanIn(<<>>, 0, <<>>)
  <2>1. Count(Feed(<<>>), 1, 0) = 0 /\ 1 .. 0 = {}
    BY CountNone
  <2> QED
    BY <1>2, <2>1 DEF RanIn
<1>7. LinesInv
  BY <1>1, <1>2, <1>3, <1>5, <1>6 DEF LinesInv, HighIn, Owed, Stopping
<1> QED
  BY <1>1, <1>4, <1>7 DEF InputInv, PcInv

\* Every step keeps the invariant; only GETCHAR and the answers of TASK_STOP
\* change the line.
LEMMA NextInput == InputInv /\ [Next]_vars => InputInv'
<1> SUFFICES ASSUME InputInv, [Next]_vars
             PROVE  InputInv'
  OBVIOUS
<1> DEFINE Same == UNCHANGED <<waiting, accepted, input, ran, high>>
<1>1. ASSUME Same, pc' = pc
      PROVE  InputInv'
  BY <1>1, InputKept DEF InputInv, PcInv
<1>2. CASE UNCHANGED vars
  BY <1>1, <1>2 DEF vars
<1>3. ASSUME NEW k \in Keys, KeyHit(k)
      PROVE  InputInv'
  BY <1>3, KeyHitKeeps
<1>4. CASE GetChar
  BY <1>4, GetCharKeeps
<1>5. CASE TaskCreate \/ TaskIsAlive \/ Check
  <2>1. Same /\ pc \in {"create", "poll", "check"} /\ pc' \in {"getchar", "poll", "check"}
    BY <1>5 DEF TaskCreate, TaskIsAlive, Check
  <2> QED
    BY <2>1, InputKept DEF Stopping, PcInv
<1>6. CASE TaskStop
  <2>1. Same /\ pc = "stop" /\ pc' = "look"
    BY <1>6 DEF TaskStop
  <2> QED
    BY <2>1, InputKept DEF Stopping, PcInv
<1>7. CASE StopLook
  <2>1. pc = "look" /\ UNCHANGED <<waiting, accepted, ran>>
    BY <1>7 DEF StopLook
  <2>2. CASE Store("0xFF")
    BY <2>1, <2>2, AnswerKeeps DEF Stopping
  <2>3. CASE pc' = "stopped" /\ UNCHANGED <<input, high>>
    BY <2>1, <2>3, InputKept DEF Stopping, PcInv
  <2> QED
    BY <1>7, <2>2, <2>3 DEF StopLook
<1>8. CASE StopDone
  BY <1>8, AnswerKeeps DEF StopDone, Stopping
<1>9. CASE ReaperLoop \/ (\E t \in Reapers : KernelStep(t)) \/ (\E p \in Programs : Exit(p))
  <2>1. Same /\ pc' = pc
    BY <1>9 DEF ReaperLoop, KernelStep, Exit, terminalVars
  <2> QED
    BY <1>1, <2>1
<1> QED
  BY <1>2, <1>3, <1>4, <1>5, <1>6, <1>7, <1>8, <1>9 DEF Next, TerminalStep

\* The terminal runs exactly the lines that were typed, as they were edited,
\* for any number of keys and any size of the keyboard's buffer.
THEOREM TerminalRunsLines == Spec => []RunsWhatWasTyped
<1>1. InputInv => RunsWhatWasTyped
  <2> SUFFICES ASSUME InputInv
               PROVE  RunsWhatWasTyped
    OBVIOUS
  <2>1. KeysRead \in 0 .. Len(accepted)
    BY KeysReadFacts DEF InputInv
  <2>2. accepted \in Seq(Keys) /\ RanIn(accepted, KeysRead, ran) /\ ran \in Seq(Seq(InputChars))
    BY DEF InputInv, KeysInv, LinesInv
  <2> QED
    BY <2>1, <2>2, RanSuffices
<1> QED
  BY <1>1, InitInput, NextInput, PTL DEF Spec

\* As long as no line is as long as the input buffer, the terminal writes inside
\* it, for every size of the buffer.
THEOREM TerminalWritesInside == Spec => []WritesInsideBuffer
<1>1. InputInv => WritesInsideBuffer
  BY HighSuffices DEF InputInv, KeysInv, LinesInv
<1> QED
  BY <1>1, InitInput, NextInput, PTL DEF Spec
=============================================================================
