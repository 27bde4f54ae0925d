-------------------------- MODULE MultitaskProofs --------------------------
(***************************************************************************)
(* Proofs about Multitask, for any number of slots and of pids.            *)
(*                                                                         *)
(* The loops of multitask.c follow pointers, so the model's walks are      *)
(* recursive functions.  The induction that they need is done in the form  *)
(* of SetInduction: what is proved of every number up to n is a set of     *)
(* numbers that contains them all.                                         *)
(***************************************************************************)
EXTENDS Multitask, Integers, TLAPS, WellFoundedInduction

\* A set of natural numbers that is not empty has a least element.
LEMMA LeastNumber ==
  ASSUME NEW S, S \subseteq Nat, S # {}
  PROVE  \E m \in S : \A g \in S : m <= g
<1>1. PICK m \in S : \A g \in S : <<g, m>> \notin OpToRel(<, Nat)
  BY NatLessThanWellFounded, WFMin
<1>2. \A g, k \in Nat : g < k => <<g, k>> \in OpToRel(<, Nat)
  BY Zenon DEF OpToRel
<1>3. \A g \in S : ~ (g < m)
  BY <1>1, <1>2, Zenon
<1> QED
  BY <1>3

\* A set that contains 0, and with k also k + 1, contains all numbers up to n.
LEMMA SetInduction ==
  ASSUME NEW n \in Nat, NEW S, 0 \in S,
         \A k \in 0 .. n : k + 1 <= n /\ k \in S => k + 1 \in S
  PROVE  0 .. n \subseteq S
<1> SUFFICES ASSUME (0 .. n) \ S # {}
             PROVE  FALSE
  OBVIOUS
<1>1. PICK m \in (0 .. n) \ S : \A g \in (0 .. n) \ S : m <= g
  <2>1. (0 .. n) \ S \subseteq Nat
    OBVIOUS
  <2> QED
    BY <2>1, LeastNumber
<1>2. m # 0 /\ m - 1 \in 0 .. n /\ m - 1 + 1 = m
  BY <1>1
<1>3. m - 1 \in S
  BY <1>1, <1>2
<1> QED
  BY <1>1, <1>2, <1>3

\* k + 1 things lie in k places, each one in a place of its own.
Fits(u, k) ==
  /\ u \in [1 .. k + 1 -> 1 .. k]
  /\ \A i, j \in 1 .. k + 1 : u[i] = u[j] => i = j

\* No such thing happens: what lies in the last place could go where the last
\* thing lies, and one place less would do for one thing less.
LEMMA PigeonHole ==
  ASSUME NEW m \in Nat, NEW t
  PROVE  ~ Fits(t, m)
<1> DEFINE S == {k \in Nat : \A u : ~ Fits(u, k)}
<1>1. 0 \in S
  <2> SUFFICES ASSUME NEW u, Fits(u, 0)
               PROVE  FALSE
    OBVIOUS
  <2>1. u[1] \in 1 .. 0
    BY DEF Fits
  <2> QED
    BY <2>1
<1>2. ASSUME NEW k \in 0 .. m, k + 1 <= m, k \in S
      PROVE  k + 1 \in S
  <2> SUFFICES ASSUME NEW u, Fits(u, k + 1)
               PROVE  FALSE
    BY <1>2
  <2> DEFINE v == [i \in 1 .. k + 1 |-> IF u[i] = k + 1 THEN u[k + 2] ELSE u[i]]
  <2>1. /\ \A i \in 1 .. k + 2 : u[i] \in 1 .. k + 1
        /\ \A i, j \in 1 .. k + 2 : u[i] = u[j] => i = j
    <3>1. k + 1 + 1 = k + 2
      OBVIOUS
    <3> QED
      BY <3>1 DEF Fits
  <2>2. ASSUME NEW i \in 1 .. k + 1
        PROVE  (IF u[i] = k + 1 THEN u[k + 2] ELSE u[i]) \in 1 .. k
    <3>1. i \in 1 .. k + 2 /\ k + 2 \in 1 .. k + 2 /\ i # k + 2
      OBVIOUS
    <3>2. u[i] \in 1 .. k + 1 /\ u[k + 2] \in 1 .. k + 1 /\ u[i] # u[k + 2]
      BY <2>1, <3>1
    <3> QED
      BY <3>2
  <2>3. v \in [1 .. k + 1 -> 1 .. k]
    BY <2>2
  <2>4. ASSUME NEW i \in 1 .. k + 1, NEW j \in 1 .. k + 1, v[i] = v[j]
        PROVE  i = j
    <3>1. i \in 1 .. k + 2 /\ j \in 1 .. k + 2 /\ k + 2 \in 1 .. k + 2 /\ i # k + 2 /\ j # k + 2
      OBVIOUS
    <3>2. /\ v[i] = IF u[i] = k + 1 THEN u[k + 2] ELSE u[i]
          /\ v[j] = IF u[j] = k + 1 THEN u[k + 2] ELSE u[j]
      OBVIOUS
    <3> HIDE DEF v
    <3>3. u[i] # u[k + 2] /\ u[j] # u[k + 2]
      BY <2>1, <3>1
    <3>4. u[i] = u[j]
      BY <2>4, <3>2, <3>3
    <3> QED
      BY <2>1, <3>1, <3>4
  <2> HIDE DEF v
  <2>5. Fits(v, k)
    BY <2>3, <2>4 DEF Fits
  <2> QED
    BY <1>2, <2>5
<1> HIDE DEF S
<1>3. m \in S
  <2>1. m \in 0 .. m /\ 0 .. m \subseteq S
    BY <1>1, <1>2, SetInduction
  <2> QED
    BY <2>1
<1> QED
  BY <1>3 DEF S

\* A sequence without repetition of tasks is not longer than there are tasks.
LEMMA FewTasks ==
  ASSUME NEW n \in Nat, NEW s \in [1 .. n -> Task],
         \A i, j \in 1 .. n : s[i] = s[j] => i = j
  PROVE  n <= Slots + 1
<1> USE BoundsAssumption
<1> SUFFICES ASSUME ~ (n <= Slots + 1)
             PROVE  FALSE
  OBVIOUS
<1> DEFINE m == Slots + 1
           t == [i \in 1 .. m + 1 |-> s[i] + 1]
<1>1. m \in Nat /\ \A i \in 1 .. m + 1 : i \in 1 .. n
  OBVIOUS
<1>2. t \in [1 .. m + 1 -> 1 .. m]
  BY <1>1 DEF Task
<1>3. \A i, j \in 1 .. m + 1 : t[i] = t[j] => i = j
  BY <1>1 DEF Task
<1> HIDE DEF m, t
<1> QED
  BY <1>1, <1>2, <1>3, PigeonHole DEF Fits

-----------------------------------------------------------------------------
FindMore(tasks, g, n) ==
  [q \in Pointer |-> IF q = NULL \/ n = 0 THEN NULL
                     ELSE IF q \in tasks THEN q ELSE g[task[q].next]]

\* The recursive function in Find exists.
LEMMA FindFunction ==
  ASSUME NEW tasks
  PROVE  \E f : f = [n \in 0 .. Slots + 1 |-> FindMore(tasks, f[n - 1], n)]
<1> DEFINE W(g, n) == FindMore(tasks, g, n)
           E(f, m) == f = [n \in 0 .. m |-> W(f[n - 1], n)]
           S == {m \in Nat : \E f : E(f, m)}
<1>1. \A g, h : W(g, 0) = W(h, 0)
  BY DEF FindMore
<1> HIDE DEF W
<1>2. 0 \in S
  <2>1. E([n \in 0 .. 0 |-> W(0, 0)], 0)
    BY <1>1
  <2> HIDE DEF E
  <2> QED
    BY <2>1
<1>3. ASSUME NEW k \in Nat, k \in S
      PROVE  k + 1 \in S
  <2>1. PICK f : E(f, k)
    BY <1>3
  <2> DEFINE h == [n \in 0 .. k + 1 |-> W(f[n - 1], n)]
  <2>2. \A n \in 0 .. k : h[n] = f[n]
    BY <2>1
  <2>3. \A n \in 0 .. k + 1 : n # 0 => n - 1 \in 0 .. k
    OBVIOUS
  <2>4. \A n \in 0 .. k + 1 : W(f[n - 1], n) = W(h[n - 1], n)
    BY <2>2, <2>3, <1>1
  <2>5. E(h, k + 1)
    BY <2>4
  <2> HIDE DEF E, h
  <2> QED
    BY <2>5
<1> HIDE DEF S
<1>4. Slots + 1 \in Nat
  BY BoundsAssumption
<1>5. 0 .. Slots + 1 \subseteq S
  BY <1>2, <1>3, <1>4, SetInduction
<1>6. \E f : E(f, Slots + 1)
  <2> HIDE DEF E
  <2> QED
    BY <1>4, <1>5 DEF S
<1> QED
  BY <1>6 DEF W

\* f[n][q] is what the loop finds in n steps from q.
FindWalk(f, tasks) ==
  /\ \A q \in Pointer : f[0][q] = NULL
  /\ \A n \in 0 .. Slots, q \in Task :
       f[n + 1][q] = IF q \in tasks THEN q ELSE f[n][task[q].next]

\* What Find computes, step by step.
LEMMA FindSteps ==
  ASSUME NEW p, NEW tasks
  PROVE  \E f : FindWalk(f, tasks) /\ Find(p, tasks) = f[Slots + 1][p]
<1> USE BoundsAssumption
<1> DEFINE F(f) == f = [n \in 0 .. Slots + 1 |-> FindMore(tasks, f[n - 1], n)]
           it == CHOOSE f : F(f)
<1>1. Find(p, tasks) = it[Slots + 1][p]
  BY DEF Find, FindMore
<1>2. F(it)
  <2>1. \E f : F(f)
    BY FindFunction, Zenon
  <2> HIDE DEF F
  <2> QED
    BY <2>1, Zenon
<1> HIDE DEF it
<1>3. \A n \in 0 .. Slots + 1 : it[n] = FindMore(tasks, it[n - 1], n)
  BY <1>2
<1>4. \A g, n : \A q \in Pointer :
        FindMore(tasks, g, n)[q] = IF q = NULL \/ n = 0 THEN NULL
                                   ELSE IF q \in tasks THEN q ELSE g[task[q].next]
  BY DEF FindMore
<1>5. \A n \in 0 .. Slots, q \in Task : /\ n + 1 \in 0 .. Slots + 1
                                        /\ n + 1 - 1 = n /\ n + 1 # 0
                                        /\ q # NULL /\ q \in Pointer
  BY DEF Task, NULL, Pointer
<1>6. \A n \in 0 .. Slots, q \in Task :
        it[n + 1][q] = IF q \in tasks THEN q ELSE it[n][task[q].next]
  BY <1>3, <1>4, <1>5
<1>7. \A q \in Pointer : it[0][q] = NULL
  BY <1>3, <1>4
<1>8. FindWalk(it, tasks)
  BY <1>6, <1>7 DEF FindWalk
<1> QED
  BY <1>1, <1>8

\* Find follows a path of tasks to the first one that it looks for ...
LEMMA FindHit ==
  ASSUME NEW tasks, NEW L \in 1 .. Slots + 1, NEW s \in [1 .. L -> Task],
         \A i \in 1 .. L - 1 : task[s[i]].next = s[i + 1] /\ s[i] \notin tasks,
         s[L] \in tasks
  PROVE  Find(s[1], tasks) = s[L]
<1> USE BoundsAssumption
<1>0. PICK f : FindWalk(f, tasks) /\ Find(s[1], tasks) = f[Slots + 1][s[1]]
  BY FindSteps, Zenon
<1>1. \A n \in 0 .. Slots, q \in Task :
        f[n + 1][q] = IF q \in tasks THEN q ELSE f[n][task[q].next]
  BY <1>0 DEF FindWalk
<1> DEFINE S == {k \in 0 .. L - 1 : \A n \in k .. Slots : f[n + 1][s[L - k]] = s[L]}
<1>2. 0 \in S
  BY <1>1
<1>3. ASSUME NEW k \in 0 .. L - 1, k + 1 <= L - 1, k \in S
      PROVE  k + 1 \in S
  <2>1. L - (k + 1) \in 1 .. L - 1 /\ L - (k + 1) + 1 = L - k /\ L - (k + 1) \in 1 .. L
    BY <1>3
  <2>2. task[s[L - (k + 1)]].next = s[L - k] /\ s[L - (k + 1)] \notin tasks
        /\ s[L - (k + 1)] \in Task
    BY <2>1
  <2>3. ASSUME NEW n \in k + 1 .. Slots
        PROVE  f[n + 1][s[L - (k + 1)]] = s[L]
    <3>1. n \in 0 .. Slots /\ n - 1 \in k .. Slots /\ n - 1 + 1 = n
      OBVIOUS
    <3>2. f[n + 1][s[L - (k + 1)]] = f[n][s[L - k]]
      BY <1>1, <2>2, <3>1
    <3>3. f[n - 1 + 1][s[L - k]] = s[L]
      BY <1>3, <3>1
    <3> QED
      BY <3>1, <3>2, <3>3
  <2> QED
    BY <1>3, <2>3
<1>4. L - 1 \in S
  <2>1. L - 1 \in Nat
    OBVIOUS
  <2> HIDE DEF S
  <2>2. 0 .. L - 1 \subseteq S
    BY <1>2, <1>3, <2>1, SetInduction
  <2> QED
    BY <2>1, <2>2
<1>5. Slots \in L - 1 .. Slots /\ L - (L - 1) = 1
  OBVIOUS
<1> QED
  BY <1>0, <1>4, <1>5

\* ... and finds nothing outside a set that the links do not leave.
LEMMA FindInside ==
  ASSUME NEW tasks, NEW p
  PROVE  \A C \in SUBSET Task :
           p \in C /\ (\A q \in C : task[q].next \in C)
             => Find(p, tasks) \in (C \cap tasks) \cup {NULL}
<1> USE BoundsAssumption
<1>1. PICK f : FindWalk(f, tasks) /\ Find(p, tasks) = f[Slots + 1][p]
  BY FindSteps, Zenon
<1> TAKE C \in SUBSET Task
<1> HAVE p \in C /\ \A q \in C : task[q].next \in C
<1> DEFINE S == {n \in 0 .. Slots + 1 : \A q \in C : f[n][q] \in (C \cap tasks) \cup {NULL}}
<1>2. 0 \in S
  BY <1>1 DEF FindWalk, Pointer
<1>3. ASSUME NEW k \in 0 .. Slots + 1, k + 1 <= Slots + 1, k \in S
      PROVE  k + 1 \in S
  BY <1>1, <1>3 DEF FindWalk
<1> HIDE DEF S
<1>4. 0 .. Slots + 1 \subseteq S
  BY <1>2, <1>3, SetInduction
<1> QED
  BY <1>1, <1>4 DEF S

-----------------------------------------------------------------------------
RingMore(g, n) ==
  [q \in Task |-> IF n = 0 \/ task[q].next \in {NULL, task[task_ring].next} THEN <<q>>
                  ELSE <<q>> \o g[task[q].next]]

\* The recursive function in Ring exists.
LEMMA RingFunction ==
  \E f : f = [n \in 0 .. Slots |-> RingMore(f[n - 1], n)]
<1> DEFINE W(g, n) == RingMore(g, n)
           E(f, m) == f = [n \in 0 .. m |-> W(f[n - 1], n)]
           S == {m \in Nat : \E f : E(f, m)}
<1>1. \A g, h : W(g, 0) = W(h, 0)
  BY DEF RingMore
<1> HIDE DEF W
<1>2. 0 \in S
  <2>1. E([n \in 0 .. 0 |-> W(0, 0)], 0)
    BY <1>1
  <2> HIDE DEF E
  <2> QED
    BY <2>1
<1>3. ASSUME NEW k \in Nat, k \in S
      PROVE  k + 1 \in S
  <2>1. PICK f : E(f, k)
    BY <1>3
  <2> DEFINE h == [n \in 0 .. k + 1 |-> W(f[n - 1], n)]
  <2>2. \A n \in 0 .. k : h[n] = f[n]
    BY <2>1
  <2>3. \A n \in 0 .. k + 1 : n # 0 => n - 1 \in 0 .. k
    OBVIOUS
  <2>4. \A n \in 0 .. k + 1 : W(f[n - 1], n) = W(h[n - 1], n)
    BY <2>2, <2>3, <1>1
  <2>5. E(h, k + 1)
    BY <2>4
  <2> HIDE DEF E, h
  <2> QED
    BY <2>5
<1> HIDE DEF S
<1>4. Slots \in Nat
  BY BoundsAssumption
<1>5. 0 .. Slots \subseteq S
  BY <1>2, <1>3, <1>4, SetInduction
<1>6. \E f : E(f, Slots)
  <2> HIDE DEF E
  <2> QED
    BY <1>4, <1>5 DEF S
<1> QED
  BY <1>6 DEF W

\* What Ring computes, step by step.
LEMMA RingSteps ==
  \E f : /\ Ring = f[Slots][task[task_ring].next]
         /\ \A n \in 0 .. Slots, q \in Task :
              f[n][q] = IF n = 0 \/ task[q].next \in {NULL, task[task_ring].next} THEN <<q>>
                        ELSE <<q>> \o f[n - 1][task[q].next]
<1> USE BoundsAssumption
<1> DEFINE F(f) == f = [n \in 0 .. Slots |-> RingMore(f[n - 1], n)]
           from == CHOOSE f : F(f)
<1>1. Ring = from[Slots][task[task_ring].next]
  BY DEF Ring, RingMore
<1>2. F(from)
  <2>1. \E f : F(f)
    BY RingFunction, Zenon
  <2> HIDE DEF F
  <2> QED
    BY <2>1, Zenon
<1> HIDE DEF from
<1>3. \A n \in 0 .. Slots : from[n] = RingMore(from[n - 1], n)
  BY <1>2
<1>4. \A g, n : \A q \in Task :
        RingMore(g, n)[q] = IF n = 0 \/ task[q].next \in {NULL, task[task_ring].next} THEN <<q>>
                            ELSE <<q>> \o g[task[q].next]
  BY DEF RingMore
<1>5. \A n \in 0 .. Slots, q \in Task :
        from[n][q] = IF n = 0 \/ task[q].next \in {NULL, task[task_ring].next} THEN <<q>>
                     ELSE <<q>> \o from[n - 1][task[q].next]
  <2> TAKE n \in 0 .. Slots, q \in Task
  <2>1. from[n][q] = RingMore(from[n - 1], n)[q]
    BY <1>3, Zenon
  <2> QED
    BY <1>4, <2>1, Zenon
<1> QED
  BY <1>1, <1>5

\* The tasks r[1], r[2], ... are linked to a cycle that ends at task_ring.
Cycle(r) ==
  /\ r \in Seq(Task)
  /\ r # <<>>
  /\ \A i, j \in 1 .. Len(r) : r[i] = r[j] => i = j
  /\ \A i \in 1 .. Len(r) - 1 : task[r[i]].next = r[i + 1]
  /\ task[r[Len(r)]].next = r[1]
  /\ r[Len(r)] = task_ring

\* The tasks of a cycle that ends at task_ring are the ring.
LEMMA CycleIsRing ==
  \A r : Cycle(r) => /\ Ring = r
                     /\ Len(r) \in 1 .. Slots + 1
                     /\ r \in [1 .. Len(r) -> Task]
<1> USE BoundsAssumption
<1> SUFFICES ASSUME NEW r, Cycle(r)
             PROVE  /\ Ring = r
                    /\ Len(r) \in 1 .. Slots + 1
                    /\ r \in [1 .. Len(r) -> Task]
  OBVIOUS
<1> DEFINE L == Len(r)
<1>1. L \in Nat /\ L # 0 /\ r \in [1 .. L -> Task]
  BY DEF Cycle
<1>2. L <= Slots + 1
  <2> HIDE DEF L
  <2>1. \A i, j \in 1 .. L : r[i] = r[j] => i = j
    BY DEF Cycle, L
  <2> QED
    BY <1>1, <2>1, FewTasks
<1>3. /\ \A i \in 1 .. L - 1 : task[r[i]].next = r[i + 1] /\ r[i + 1] # r[1] /\ r[i + 1] # NULL
      /\ task[r[L]].next = r[1] /\ r[L] = task_ring /\ r[1] \in Task
      /\ r \in Seq(Task)
  BY <1>1 DEF Cycle, Task, NULL
<1>4. PICK f : /\ Ring = f[Slots][task[task_ring].next]
               /\ \A n \in 0 .. Slots, q \in Task :
                    f[n][q] = IF n = 0 \/ task[q].next \in {NULL, task[task_ring].next}
                              THEN <<q>> ELSE <<q>> \o f[n - 1][task[q].next]
  BY RingSteps
<1>5. \A i \in 1 .. L : SubSeq(r, i, L) = <<r[i]>> \o SubSeq(r, i + 1, L)
  <2> TAKE i \in 1 .. L
  <2>1. i \in 1 .. Len(r) /\ L \in i .. Len(r)
    BY <1>1
  <2> HIDE DEF L
  <2> QED
    BY <1>3, <2>1
<1>6. SubSeq(r, L, L) = <<r[L]>>
  <2>1. SubSeq(r, L + 1, L) = <<>>
    BY <1>1
  <2>2. <<r[L]>> \o <<>> = <<r[L]>>
    BY <1>1
  <2>3. SubSeq(r, L, L) = <<r[L]>> \o SubSeq(r, L + 1, L)
    <3>1. L \in 1 .. L
      BY <1>1
    <3> HIDE DEF L
    <3> QED
      BY <1>5, <3>1, Zenon
  <2> HIDE DEF L
  <2> QED
    BY <2>1, <2>2, <2>3, Zenon
<1>7. SubSeq(r, 1, L) = r
  BY <1>3
<1> HIDE DEF L
<1> DEFINE S == {k \in 0 .. L - 1 : \A m \in k .. Slots : f[m][r[L - k]] = SubSeq(r, L - k, L)}
<1>8. 0 \in S
  <2>1. ASSUME NEW m \in 0 .. Slots
        PROVE  f[m][r[L]] = <<r[L]>>
    <3>1. r[L] \in Task /\ task[r[L]].next = task[task_ring].next
      BY <1>1, <1>3
    <3> QED
      BY <1>4, <3>1, Zenon
  <2> QED
    BY <1>1, <1>6, <2>1
<1>9. ASSUME NEW k \in 0 .. L - 1, k + 1 <= L - 1, k \in S
      PROVE  k + 1 \in S
  <2> DEFINE j == L - (k + 1)
  <2>1. j \in 1 .. L - 1 /\ j + 1 = L - k /\ j \in 1 .. L
    BY <1>1, <1>9
  <2> HIDE DEF j
  <2>2. ASSUME NEW m \in k + 1 .. Slots
        PROVE  f[m][r[j]] = SubSeq(r, j, L)
    <3>1. m \in 0 .. Slots /\ m - 1 \in k .. Slots /\ m # 0
      OBVIOUS
    <3>2. r[j] \in Task /\ task[r[j]].next = r[j + 1]
          /\ task[r[j]].next \notin {NULL, task[task_ring].next}
      BY <1>1, <1>3, <2>1
    <3>3. f[m][r[j]] = <<r[j]>> \o f[m - 1][r[j + 1]]
      BY <1>4, <3>1, <3>2
    <3>4. f[m - 1][r[j + 1]] = SubSeq(r, j + 1, L)
      BY <1>9, <2>1, <3>1
    <3> QED
      BY <1>5, <2>1, <3>3, <3>4
  <2> QED
    BY <1>1, <1>9, <2>2 DEF j
<1>10. L - 1 \in S
  <2>1. L - 1 \in Nat
    BY <1>1
  <2> HIDE DEF S
  <2>2. 0 .. L - 1 \subseteq S
    BY <1>8, <1>9, <2>1, SetInduction
  <2> QED
    BY <2>1, <2>2
<1>11. f[Slots][r[1]] = r
  <2>1. Slots \in L - 1 .. Slots /\ L - (L - 1) = 1
    BY <1>1, <1>2
  <2> QED
    BY <1>7, <1>10, <2>1
<1> QED
  BY <1>1, <1>2, <1>3, <1>4, <1>11 DEF L

-----------------------------------------------------------------------------
ListedMore(g, n) ==
  [q \in Pointer |-> IF q = NULL \/ n = 0 THEN {} ELSE {q} \cup g[task[q].znext]]

\* The recursive function in Listed exists.
LEMMA ListedFunction ==
  \E f : f = [n \in 0 .. Slots + 1 |-> ListedMore(f[n - 1], n)]
<1> DEFINE W(g, n) == ListedMore(g, n)
           E(f, m) == f = [n \in 0 .. m |-> W(f[n - 1], n)]
           S == {m \in Nat : \E f : E(f, m)}
<1>1. \A g, h : W(g, 0) = W(h, 0)
  BY DEF ListedMore
<1> HIDE DEF W
<1>2. 0 \in S
  <2>1. E([n \in 0 .. 0 |-> W(0, 0)], 0)
    BY <1>1
  <2> HIDE DEF E
  <2> QED
    BY <2>1
<1>3. ASSUME NEW k \in Nat, k \in S
      PROVE  k + 1 \in S
  <2>1. PICK f : E(f, k)
    BY <1>3
  <2> DEFINE h == [n \in 0 .. k + 1 |-> W(f[n - 1], n)]
  <2>2. \A n \in 0 .. k : h[n] = f[n]
    BY <2>1
  <2>3. \A n \in 0 .. k + 1 : n # 0 => n - 1 \in 0 .. k
    OBVIOUS
  <2>4. \A n \in 0 .. k + 1 : W(f[n - 1], n) = W(h[n - 1], n)
    BY <2>2, <2>3, <1>1
  <2>5. E(h, k + 1)
    BY <2>4
  <2> HIDE DEF E, h
  <2> QED
    BY <2>5
<1> HIDE DEF S
<1>4. Slots + 1 \in Nat
  BY BoundsAssumption
<1>5. 0 .. Slots + 1 \subseteq S
  BY <1>2, <1>3, <1>4, SetInduction
<1>6. \E f : E(f, Slots + 1)
  <2> HIDE DEF E
  <2> QED
    BY <1>4, <1>5 DEF S
<1> QED
  BY <1>6 DEF W

\* f[n][q] holds the first n tasks of the list that starts at q.
ListedWalk(f) ==
  /\ \A n \in 0 .. Slots + 1 : f[n][NULL] = {}
  /\ \A n \in 0 .. Slots, q \in Task : f[n + 1][q] = {q} \cup f[n][task[q].znext]

\* What Listed computes, step by step.
LEMMA ListedSteps ==
  ASSUME NEW z
  PROVE  \E f : ListedWalk(f) /\ Listed(z) = f[Slots + 1][z]
<1> USE BoundsAssumption
<1> DEFINE F(f) == f = [n \in 0 .. Slots + 1 |-> ListedMore(f[n - 1], n)]
           from == CHOOSE f : F(f)
<1>1. Listed(z) = from[Slots + 1][z]
  BY DEF Listed, ListedMore
<1>2. F(from)
  <2>1. \E f : F(f)
    BY ListedFunction, Zenon
  <2> HIDE DEF F
  <2> QED
    BY <2>1, Zenon
<1> HIDE DEF from
<1>3. \A n \in 0 .. Slots + 1 : from[n] = ListedMore(from[n - 1], n)
  BY <1>2
<1>4. \A g, n : \A q \in Pointer :
        ListedMore(g, n)[q] = IF q = NULL \/ n = 0 THEN {} ELSE {q} \cup g[task[q].znext]
  BY DEF ListedMore
<1>5. \A n \in 0 .. Slots, q \in Task : /\ n + 1 \in 0 .. Slots + 1
                                        /\ n + 1 - 1 = n /\ n + 1 # 0
                                        /\ q # NULL /\ q \in Pointer
  BY DEF Task, NULL, Pointer
<1>6. ASSUME NEW n \in 0 .. Slots, NEW q \in Task
      PROVE  from[n + 1][q] = {q} \cup from[n][task[q].znext]
  <2>1. from[n + 1] = ListedMore(from[n], n + 1)
    BY <1>3, <1>5
  <2>2. n + 1 # 0 /\ q # NULL /\ q \in Pointer
    BY <1>5
  <2>3. ListedMore(from[n], n + 1)[q] = {q} \cup from[n][task[q].znext]
    BY <2>2 DEF ListedMore
  <2> QED
    BY <2>1, <2>3
<1>7. \A n \in 0 .. Slots + 1 : from[n][NULL] = {}
  <2> TAKE n \in 0 .. Slots + 1
  <2>1. from[n][NULL] = ListedMore(from[n - 1], n)[NULL] /\ NULL \in Pointer
    BY <1>3 DEF Pointer
  <2> QED
    BY <1>4, <2>1, Zenon
<1>8. ListedWalk(from)
  BY <1>6, <1>7, Zenon DEF ListedWalk
<1> QED
  BY <1>1, <1>8

\* The n tasks s[1], s[2], ... are linked to a list that starts at z and ends.
Chain(z, n, s) ==
  /\ n \in Nat
  /\ s \in [1 .. n -> Task]
  /\ \A i, j \in 1 .. n : s[i] = s[j] => i = j
  /\ z = IF n = 0 THEN NULL ELSE s[1]
  /\ \A i \in 1 .. n : task[s[i]].znext = IF i = n THEN NULL ELSE s[i + 1]

\* The tasks of such a list are the ones on it.
LEMMA ChainIsListed ==
  \A z, L, s : Chain(z, L, s) => Listed(z) = {s[i] : i \in 1 .. L}
<1> USE BoundsAssumption
<1> SUFFICES ASSUME NEW z, NEW L, NEW s, Chain(z, L, s)
             PROVE  Listed(z) = {s[i] : i \in 1 .. L}
  OBVIOUS
<1>1. L \in Nat /\ s \in [1 .. L -> Task]
  BY DEF Chain
<1>2. /\ \A i, j \in 1 .. L : s[i] = s[j] => i = j
      /\ z = IF L = 0 THEN NULL ELSE s[1]
      /\ \A i \in 1 .. L : task[s[i]].znext = IF i = L THEN NULL ELSE s[i + 1]
  BY DEF Chain
<1>3. L <= Slots + 1
  BY <1>1, <1>2, FewTasks
<1>4. PICK f : ListedWalk(f) /\ Listed(z) = f[Slots + 1][z]
  BY ListedSteps, Zenon
<1> DEFINE From(k) == IF k = 0 THEN NULL ELSE s[L - k + 1]
           Rest(k) == {s[i] : i \in L - k + 1 .. L}
           S == {k \in 0 .. L : \A m \in k .. Slots + 1 : f[m][From(k)] = Rest(k)}
<1>5. 0 \in S
  <2>1. L - 0 + 1 .. L = {}
    BY <1>1
  <2>2. Rest(0) = {}
    BY <2>1
  <2>3. \A m \in 0 .. Slots + 1 : f[m][From(0)] = {}
    BY <1>4 DEF ListedWalk
  <2>4. 0 \in 0 .. L
    BY <1>1
  <2> HIDE DEF Rest, From
  <2>5. \A m \in 0 .. Slots + 1 : f[m][From(0)] = Rest(0)
    BY <2>2, <2>3
  <2> QED
    BY <2>4, <2>5
<1>6. ASSUME NEW k \in 0 .. L, k + 1 <= L, k \in S
      PROVE  k + 1 \in S
  <2>1. /\ L - (k + 1) + 1 = L - k /\ L - k \in 1 .. L /\ (L - k = L <=> k = 0)
        /\ k + 1 # 0 /\ k + 1 \in 0 .. L
    BY <1>1, <1>6
  <2>2. From(k + 1) = s[L - k] /\ s[L - k] \in Task /\ task[s[L - k]].znext = From(k)
    BY <1>1, <1>2, <2>1
  <2>3. Rest(k + 1) = {s[L - k]} \cup Rest(k)
    <3>1. L - (k + 1) + 1 .. L = {L - k} \cup (L - k + 1 .. L)
      BY <1>1, <1>6
    <3> QED
      BY <3>1
  <2>4. ASSUME NEW m \in k + 1 .. Slots + 1
        PROVE  f[m][From(k + 1)] = Rest(k + 1)
    <3> HIDE DEF From, Rest
    <3>1. m - 1 \in 0 .. Slots /\ m - 1 + 1 = m /\ m - 1 \in k .. Slots + 1
      BY <1>1
    <3>2. f[m][s[L - k]] = {s[L - k]} \cup f[m - 1][From(k)]
      BY <1>4, <2>2, <3>1 DEF ListedWalk
    <3>3. f[m - 1][From(k)] = Rest(k)
      BY <1>6, <3>1
    <3> QED
      BY <2>2, <2>3, <3>2, <3>3
  <2> HIDE DEF From, Rest
  <2> QED
    BY <2>1, <2>4
<1>7. L \in S
  <2> HIDE DEF S
  <2>1. 0 .. L \subseteq S
    BY <1>1, <1>5, <1>6, SetInduction
  <2> QED
    BY <1>1, <2>1
<1>8. f[Slots + 1][From(L)] = Rest(L)
  <2> HIDE DEF From, Rest
  <2>1. Slots + 1 \in L .. Slots + 1
    BY <1>1, <1>3
  <2> QED
    BY <1>7, <2>1
<1>9. L - L + 1 = 1
  BY <1>1
<1>10. From(L) = z /\ Rest(L) = {s[i] : i \in 1 .. L}
  BY <1>2, <1>9
<1> QED
  BY <1>4, <1>8, <1>10

\* A list that ends starts at z.
IsList(z) == \E n, s : Chain(z, n, s)

\* The empty list.
LEMMA ListEmpty == IsList(NULL) /\ Listed(NULL) = {}
<1> DEFINE s == [i \in 1 .. 0 |-> InitTask]
<1>1. 1 .. 0 = {}
  OBVIOUS
<1>2. Chain(NULL, 0, s)
  BY <1>1 DEF Chain
<1> HIDE DEF s
<1>3. Listed(NULL) = {s[i] : i \in 1 .. 0}
  BY <1>2, ChainIsListed
<1>4. Listed(NULL) = {}
  BY <1>1, <1>3
<1> QED
  BY <1>2, <1>4 DEF IsList

\* A list holds tasks, the one that it starts at first of all; the rest of it
\* is a list too, without that task.
LEMMA ListFirst ==
  \A z : IsList(z) =>
    /\ Listed(z) \subseteq Task
    /\ z \in Pointer
    /\ z # NULL => /\ IsList(task[z].znext)
                   /\ Listed(z) = {z} \cup Listed(task[z].znext)
                   /\ z \notin Listed(task[z].znext)
<1> SUFFICES ASSUME NEW z, IsList(z)
             PROVE  /\ Listed(z) \subseteq Task
                    /\ z \in Pointer
                    /\ z # NULL => /\ IsList(task[z].znext)
                                   /\ Listed(z) = {z} \cup Listed(task[z].znext)
                                   /\ z \notin Listed(task[z].znext)
  OBVIOUS
<1>1. PICK n, s : Chain(z, n, s)
  BY DEF IsList
<1>2. /\ n \in Nat /\ s \in [1 .. n -> Task]
      /\ \A i, j \in 1 .. n : s[i] = s[j] => i = j
      /\ z = IF n = 0 THEN NULL ELSE s[1]
      /\ \A i \in 1 .. n : task[s[i]].znext = IF i = n THEN NULL ELSE s[i + 1]
  BY <1>1 DEF Chain
<1>3. Listed(z) = {s[i] : i \in 1 .. n}
  BY <1>1, ChainIsListed
<1>4. Listed(z) \subseteq Task /\ z \in Pointer
  BY <1>2, <1>3 DEF Pointer
<1>5. ASSUME z # NULL
      PROVE  /\ IsList(task[z].znext)
             /\ Listed(z) = {z} \cup Listed(task[z].znext)
             /\ z \notin Listed(task[z].znext)
  <2> DEFINE r == [i \in 1 .. n - 1 |-> s[i + 1]]
  <2>1. z = s[1] /\ n - 1 \in Nat /\ 1 \in 1 .. n
    BY <1>2, <1>5
  <2>2. r \in [1 .. n - 1 -> Task] /\ \A i \in 1 .. n - 1 : r[i] = s[i + 1]
    BY <1>2, <2>1
  <2> HIDE DEF r
  <2>3. Chain(task[z].znext, n - 1, r)
    <3>1. \A i, j \in 1 .. n - 1 : r[i] = r[j] => i = j
      BY <1>2, <2>1, <2>2
    <3>2. task[z].znext = IF n - 1 = 0 THEN NULL ELSE r[1]
      BY <1>2, <2>1, <2>2
    <3>3. ASSUME NEW i \in 1 .. n - 1
          PROVE  task[r[i]].znext = IF i = n - 1 THEN NULL ELSE r[i + 1]
      <4>1. i + 1 \in 1 .. n /\ (i + 1 = n <=> i = n - 1) /\ r[i] = s[i + 1]
        BY <1>2, <2>2
      <4>2. i # n - 1 => r[i + 1] = s[i + 1 + 1]
        BY <1>2, <2>2
      <4> QED
        BY <1>2, <4>1, <4>2
    <3> QED
      BY <2>1, <2>2, <3>1, <3>2, <3>3 DEF Chain
  <2>4. Listed(task[z].znext) = {r[i] : i \in 1 .. n - 1}
    BY <2>3, ChainIsListed
  <2>5. Listed(z) = {z} \cup Listed(task[z].znext)
    <3>1. \A i \in 1 .. n : i = 1 \/ (i - 1 \in 1 .. n - 1 /\ s[i] = r[i - 1])
      BY <1>2, <2>1, <2>2
    <3>2. \A i \in 1 .. n - 1 : i + 1 \in 1 .. n /\ r[i] = s[i + 1]
      BY <1>2, <2>1, <2>2
    <3> QED
      BY <1>3, <2>1, <2>4, <3>1, <3>2
  <2>6. z \notin Listed(task[z].znext)
    <3>1. \A i \in 1 .. n - 1 : r[i] # s[1]
      BY <1>2, <2>1, <2>2
    <3> QED
      BY <2>1, <2>4, <3>1
  <2> QED
    BY <2>3, <2>5, <2>6 DEF IsList
<1> QED
  BY <1>4, <1>5

\* A list whose links a step leaves alone stays as it is.
LEMMA ListKept ==
  ASSUME NEW y, IsList(y), \A q \in Listed(y) : task'[q].znext = task[q].znext
  PROVE  IsList(y)' /\ Listed(y)' = Listed(y)
<1>1. PICK n, r : Chain(y, n, r)
  BY DEF IsList
<1>2. Listed(y) = {r[i] : i \in 1 .. n}
  BY <1>1, ChainIsListed
<1>3. \A i \in 1 .. n : task'[r[i]].znext = task[r[i]].znext
  BY <1>2
<1>4. Chain(y, n, r)'
  BY <1>1, <1>3 DEF Chain
<1>5. (\A z, L, s : Chain(z, L, s) => Listed(z) = {s[i] : i \in 1 .. L})'
  BY ChainIsListed, PTL
<1>6. Listed(y)' = {r[i] : i \in 1 .. n}
  BY <1>4, <1>5
<1> QED
  BY <1>2, <1>4, <1>6 DEF IsList

\* add_to_zombie_list: t in front of the list that starts at y.
LEMMA ListPush ==
  ASSUME NEW t \in Task, NEW y, IsList(y), t \notin Listed(y),
         \A q \in Listed(y) : task'[q].znext = task[q].znext,
         task'[t].znext = y
  PROVE  IsList(t)' /\ Listed(t)' = {t} \cup Listed(y)
<1>1. PICK n, c : Chain(y, n, c)
  BY DEF IsList
<1>2. /\ n \in Nat /\ c \in [1 .. n -> Task]
      /\ \A i, j \in 1 .. n : c[i] = c[j] => i = j
      /\ y = IF n = 0 THEN NULL ELSE c[1]
      /\ \A i \in 1 .. n : task[c[i]].znext = IF i = n THEN NULL ELSE c[i + 1]
  BY <1>1 DEF Chain
<1>3. Listed(y) = {c[i] : i \in 1 .. n}
  BY <1>1, ChainIsListed
<1> DEFINE r == [i \in 1 .. n + 1 |-> IF i = 1 THEN t ELSE c[i - 1]]
<1>4. \A i \in 2 .. n + 1 : i - 1 \in 1 .. n /\ i \in 1 .. n + 1 /\ i # 1
  BY <1>2
<1>5. r \in [1 .. n + 1 -> Task] /\ r[1] = t /\ \A i \in 2 .. n + 1 : r[i] = c[i - 1]
  BY <1>2, <1>4
<1> HIDE DEF r
<1>6. Chain(t, n + 1, r)'
  <2>1. \A i \in 1 .. n : c[i] # t
    BY <1>3
  <2>2. ASSUME NEW i \in 1 .. n + 1, NEW j \in 1 .. n + 1, r[i] = r[j]
        PROVE  i = j
    <3>1. \A k \in 1 .. n + 1 : k = 1 \/ (k \in 2 .. n + 1 /\ r[k] = c[k - 1] /\ r[k] # t)
      BY <1>2, <1>4, <1>5, <2>1
    <3>2. CASE i = 1
      BY <1>5, <2>2, <3>1, <3>2
    <3>3. CASE i # 1
      <4>1. j # 1
        BY <1>5, <2>2, <3>1, <3>3
      <4>2. i - 1 \in 1 .. n /\ j - 1 \in 1 .. n /\ c[i - 1] = c[j - 1]
        BY <1>4, <2>2, <3>1, <3>3, <4>1
      <4>3. i - 1 = j - 1
        BY <1>2, <4>2
      <4> QED
        BY <1>2, <4>3
    <3> QED
      BY <3>2, <3>3
  <2>3. ASSUME NEW i \in 1 .. n + 1
        PROVE  task'[r[i]].znext = IF i = n + 1 THEN NULL ELSE r[i + 1]
    <3>1. CASE i = 1
      BY <1>2, <1>5, <3>1
    <3>2. CASE i # 1
      <4>1. i - 1 \in 1 .. n /\ r[i] = c[i - 1] /\ (i = n + 1 <=> i - 1 = n)
        BY <1>2, <1>5, <3>2
      <4>2. task'[r[i]].znext = task[c[i - 1]].znext
        BY <1>3, <4>1
      <4>3. i # n + 1 => r[i + 1] = c[i - 1 + 1]
        BY <1>2, <1>5, <3>2
      <4> QED
        BY <1>2, <4>1, <4>2, <4>3
    <3> QED
      BY <3>1, <3>2
  <2>4. n + 1 \in Nat /\ n + 1 # 0
    BY <1>2
  <2> QED
    BY <1>5, <2>2, <2>3, <2>4 DEF Chain
<1>7. (\A z, L, s : Chain(z, L, s) => Listed(z) = {s[i] : i \in 1 .. L})'
  BY ChainIsListed, PTL
<1>8. Listed(t)' = {r[i] : i \in 1 .. n + 1}
  BY <1>6, <1>7
<1>9. {r[i] : i \in 1 .. n + 1} = {t} \cup Listed(y)
  <2>1. \A i \in 1 .. n + 1 : i = 1 \/ (i - 1 \in 1 .. n /\ r[i] = c[i - 1])
    BY <1>2, <1>5
  <2>2. \A i \in 1 .. n : i + 1 \in 1 .. n + 1 /\ c[i] = r[i + 1]
    BY <1>2, <1>5
  <2>3. 1 \in 1 .. n + 1
    BY <1>2
  <2> QED
    BY <1>3, <1>5, <2>1, <2>2, <2>3
<1> QED
  BY <1>6, <1>8, <1>9 DEF IsList

-----------------------------------------------------------------------------
\* The task before the i-th of r, in the order of the cycle.
Before(r, i) == IF i = 1 THEN r[Len(r)] ELSE r[i - 1]

\* A cycle as a function, and where the links of its tasks lead.
LEMMA CycleFacts ==
  ASSUME NEW r, Cycle(r)
  PROVE  /\ Ring = r
         /\ Len(r) \in 1 .. Slots + 1 /\ Len(r) \in Nat
         /\ r \in [1 .. Len(r) -> Task] /\ DOMAIN r = 1 .. Len(r)
         /\ InRing = {r[i] : i \in 1 .. Len(r)}
         /\ r[Len(r)] = task_ring
         /\ \A i, j \in 1 .. Len(r) : r[i] = r[j] => i = j
         /\ \A i \in 1 .. Len(r) : task[r[i]].next = IF i = Len(r) THEN r[1] ELSE r[i + 1]
<1>1. Ring = r /\ Len(r) \in 1 .. Slots + 1 /\ r \in [1 .. Len(r) -> Task]
  BY CycleIsRing
<1>2. Len(r) \in Nat
  BY <1>1, BoundsAssumption
<1>3. DOMAIN r = 1 .. Len(r)
  BY <1>1
<1>4. InRing = {r[i] : i \in 1 .. Len(r)}
  BY <1>1, <1>3 DEF InRing, Range
<1>5. \A i \in 1 .. Len(r) : task[r[i]].next = IF i = Len(r) THEN r[1] ELSE r[i + 1]
  BY <1>2 DEF Cycle
<1> QED
  BY <1>1, <1>2, <1>3, <1>4, <1>5 DEF Cycle

\* The loop of unlink_from_ring finds the task before the one that goes.
LEMMA FindBefore ==
  ASSUME NEW r, Cycle(r), NEW i \in 1 .. Len(r)
  PROVE  /\ Find(task_ring, {p \in Task : task[p].next = r[i]}) = Before(r, i)
         /\ Before(r, i) \in InRing /\ Before(r, i) \in Task
<1> DEFINE n == Len(r)
           tasks == {p \in Task : task[p].next = r[i]}
           s == [k \in 1 .. i |-> IF k = 1 THEN r[n] ELSE r[k - 1]]
<1>1. /\ n \in 1 .. Slots + 1 /\ n \in Nat
      /\ r \in [1 .. n -> Task] /\ InRing = {r[k] : k \in 1 .. n}
      /\ r[n] = task_ring
      /\ \A k, j \in 1 .. n : r[k] = r[j] => k = j
      /\ \A k \in 1 .. n : task[r[k]].next = IF k = n THEN r[1] ELSE r[k + 1]
  BY CycleFacts
<1>2. /\ i \in 1 .. n /\ n \in 1 .. n /\ 1 \in 1 .. n
      /\ \A k \in 1 .. i : k = 1 \/ (k - 1 \in 1 .. n - 1 /\ k - 1 # n /\ k - 1 + 1 = k
                                       /\ k \in 1 .. n /\ k - 1 \in 1 .. n)
  <2>1. i \in 1 .. n
    OBVIOUS
  <2> HIDE DEF n
  <2> QED
    BY <1>1, <2>1
<1>3. Before(r, i) = s[i] /\ Before(r, i) \in InRing /\ Before(r, i) \in Task
  BY <1>1, <1>2 DEF Before
<1> HIDE DEF n
<1>4. s \in [1 .. i -> Task] /\ s[1] = task_ring
      /\ \A k \in 1 .. i : k # 1 => s[k] = r[k - 1]
  BY <1>1, <1>2
<1>5. \A k \in 1 .. i : s[k] \in Task /\ task[s[k]].next = r[k]
  <2> TAKE k \in 1 .. i
  <2>1. CASE k = 1
    BY <1>1, <1>2, <1>4, <2>1
  <2>2. CASE k # 1
    BY <1>1, <1>2, <1>4, <2>2
  <2> QED
    BY <2>1, <2>2
<1> HIDE DEF s
<1>6. \A k \in 1 .. i - 1 : task[s[k]].next = s[k + 1] /\ s[k] \notin tasks
  <2> TAKE k \in 1 .. i - 1
  <2>1. k \in 1 .. i /\ k + 1 \in 1 .. i /\ k + 1 # 1 /\ k + 1 - 1 = k /\ k \in 1 .. n /\ k # i
    BY <1>1, <1>2
  <2>2. task[s[k]].next = r[k] /\ s[k + 1] = r[k]
    BY <1>4, <1>5, <2>1
  <2>3. r[k] # r[i]
    BY <1>1, <1>2, <2>1
  <2> QED
    BY <2>2, <2>3
<1>7. s[i] \in tasks
  BY <1>2, <1>5
<1>8. i \in 1 .. Slots + 1
  BY <1>1, <1>2, BoundsAssumption
<1> HIDE DEF tasks
<1>9. Find(s[1], tasks) = s[i]
  BY <1>4, <1>6, <1>7, <1>8, FindHit
<1> QED
  BY <1>3, <1>4, <1>9 DEF tasks

\* A cycle whose links a step leaves alone stays as it is.
LEMMA CycleKept ==
  ASSUME NEW r, Cycle(r), task_ring' = task_ring,
         \A q \in InRing : task'[q].next = task[q].next
  PROVE  Cycle(r)'
<1>1. /\ Len(r) \in 1 .. Slots + 1 /\ Len(r) \in Nat
      /\ InRing = {r[i] : i \in 1 .. Len(r)}
  BY CycleFacts
<1>2. \A i \in 1 .. Len(r) : task'[r[i]].next = task[r[i]].next
  BY <1>1
<1> QED
  BY <1>1, <1>2 DEF Cycle

\* utask_create: s at the end of the cycle.
LEMMA CycleAppend ==
  ASSUME NEW r, Cycle(r), NEW s \in Task, s \notin InRing,
         task_ring' = s, task'[s].next = task[task_ring].next,
         task'[task_ring].next = s,
         \A q \in InRing \ {task_ring} : task'[q].next = task[q].next
  PROVE  Cycle(Append(r, s))'
<1> DEFINE n == Len(r)
           c == Append(r, s)
<1>1. /\ n \in 1 .. Slots + 1 /\ n \in Nat
      /\ r \in [1 .. n -> Task] /\ InRing = {r[k] : k \in 1 .. n}
      /\ r[n] = task_ring
      /\ \A k, j \in 1 .. n : r[k] = r[j] => k = j
      /\ \A k \in 1 .. n : task[r[k]].next = IF k = n THEN r[1] ELSE r[k + 1]
  BY CycleFacts
<1>2. /\ c \in Seq(Task) /\ c # <<>> /\ Len(c) = n + 1
      /\ c[n + 1] = s /\ \A k \in 1 .. n : c[k] = r[k]
  BY DEF Cycle
<1> HIDE DEF c, n
<1>3. /\ \A k \in 1 .. n + 1 : k = n + 1 \/ k \in 1 .. n
      /\ n + 1 - 1 = n /\ n \in 1 .. n /\ 1 \in 1 .. n /\ n + 1 \in 1 .. n + 1
      /\ \A k \in 1 .. n : k # n + 1
  BY <1>1
<1>4. \A i, j \in 1 .. n + 1 : c[i] = c[j] => i = j
  <2>1. \A k \in 1 .. n : r[k] # s
    BY <1>1
  <2> QED
    BY <1>1, <1>2, <1>3, <2>1
<1>5. \A i \in 1 .. n : task'[c[i]].next = c[i + 1]
  <2> TAKE i \in 1 .. n
  <2>1. CASE i = n
    BY <1>1, <1>2, <2>1
  <2>2. CASE i # n
    <3>1. i + 1 \in 1 .. n
      BY <1>1, <2>2
    <3>2. r[i] \in InRing \ {task_ring}
      BY <1>1, <1>3, <2>2
    <3> QED
      BY <1>1, <1>2, <2>2, <3>1, <3>2
  <2> QED
    BY <2>1, <2>2
<1>6. task'[c[n + 1]].next = c[1]
  BY <1>1, <1>2, <1>3
<1>7. Len(c) - 1 = n
  BY <1>2, <1>3
<1>8. Cycle(c)'
  BY <1>2, <1>4, <1>5, <1>6, <1>7 DEF Cycle
<1> QED
  BY <1>8 DEF c

\* The sequence r without its i-th element.
Without(r, i) == SubSeq(r, 1, i - 1) \o SubSeq(r, i + 1, Len(r))

\* Its elements: those behind the i-th have moved up by one.
LEMMA WithoutElements ==
  ASSUME NEW S, NEW r \in Seq(S), NEW i \in 1 .. Len(r)
  PROVE  /\ Without(r, i) \in Seq(S) /\ Len(Without(r, i)) = Len(r) - 1
         /\ \A k \in 1 .. Len(r) - 1 : Without(r, i)[k] = IF k < i THEN r[k] ELSE r[k + 1]
<1> DEFINE n == Len(r)
           a == SubSeq(r, 1, i - 1)
           b == SubSeq(r, i + 1, n)
<1>1. n \in Nat /\ \A k \in 1 .. n : r[k] \in S
  OBVIOUS
<1>2. i \in 1 .. n /\ i \in Int /\ 1 \in Int /\ n \in Int
  BY <1>1
<1> HIDE DEF n
<1>3. a \in Seq(S) /\ Len(a) = i - 1 /\ \A k \in 1 .. i - 1 : a[k] = r[k]
  <2>1. \A k \in 1 .. i - 1 : r[k] \in S
    BY <1>1, <1>2
  <2>2. 1 \in Int /\ i - 1 \in Int
    BY <1>2
  <2>3. /\ a \in Seq(S) /\ Len(a) = (IF 1 <= i - 1 THEN i - 1 - 1 + 1 ELSE 0)
        /\ \A k \in 1 .. i - 1 - 1 + 1 : a[k] = r[1 + k - 1]
    BY <2>1, <2>2
  <2> HIDE DEF a
  <2> QED
    BY <1>1, <1>2, <2>3
<1>4. b \in Seq(S) /\ Len(b) = n - i /\ \A k \in 1 .. n - i : b[k] = r[i + k]
  <2>1. \A k \in i + 1 .. n : r[k] \in S
    BY <1>1, <1>2
  <2>2. i + 1 \in Int /\ n \in Int
    BY <1>2
  <2>3. /\ b \in Seq(S) /\ Len(b) = (IF i + 1 <= n THEN n - (i + 1) + 1 ELSE 0)
        /\ \A k \in 1 .. n - (i + 1) + 1 : b[k] = r[i + 1 + k - 1]
    BY <2>1, <2>2
  <2> HIDE DEF b
  <2> QED
    BY <1>1, <1>2, <2>3
<1> HIDE DEF a, b
<1>5. /\ a \o b \in Seq(S) /\ Len(a \o b) = Len(a) + Len(b)
      /\ \A k \in 1 .. Len(a) + Len(b) :
           (a \o b)[k] = IF k <= Len(a) THEN a[k] ELSE b[k - Len(a)]
  <2>1. a \in Seq(S) /\ b \in Seq(S)
    BY <1>3, <1>4
  <2> QED
    BY <2>1
<1>6. Len(a) + Len(b) = n - 1
  BY <1>2, <1>3, <1>4
<1>7. ASSUME NEW k \in 1 .. n - 1
      PROVE  (a \o b)[k] = IF k < i THEN r[k] ELSE r[k + 1]
  <2>1. (a \o b)[k] = IF k <= i - 1 THEN a[k] ELSE b[k - (i - 1)]
    BY <1>3, <1>5, <1>6
  <2>2. CASE k < i
    <3>1. k <= i - 1 /\ k \in 1 .. i - 1
      BY <1>2, <2>2
    <3> QED
      BY <1>3, <2>1, <2>2, <3>1
  <2>3. CASE ~ (k < i)
    <3>1. ~ (k <= i - 1) /\ k - (i - 1) \in 1 .. n - i /\ i + (k - (i - 1)) = k + 1
      BY <1>2, <2>3
    <3> QED
      BY <1>4, <2>1, <2>3, <3>1
  <2> QED
    BY <2>2, <2>3, Zenon
<1>8. Without(r, i) = a \o b
  BY DEF Without, a, b, n
<1> QED
  BY <1>5, <1>6, <1>7, <1>8, Zenon DEF n

\* unlink_from_ring: the cycle without its i-th task.
LEMMA CycleUnlink ==
  ASSUME NEW r, Cycle(r), Len(r) # 1, NEW i \in 1 .. Len(r),
         task'[Before(r, i)].next = task[r[i]].next,
         \A q \in InRing \ {Before(r, i)} : task'[q].next = task[q].next,
         task_ring' = IF task_ring = r[i] THEN Before(r, i) ELSE task_ring
  PROVE  Cycle(Without(r, i))'
<1> DEFINE n == Len(r)
           c == Without(r, i)
           At1(k) == IF k < i THEN k ELSE k + 1
<1>1. /\ n \in 1 .. Slots + 1 /\ n \in Nat
      /\ r \in [1 .. n -> Task] /\ InRing = {r[k] : k \in 1 .. n}
      /\ r[n] = task_ring
      /\ \A k, j \in 1 .. n : r[k] = r[j] => k = j
      /\ \A k \in 1 .. n : task[r[k]].next = IF k = n THEN r[1] ELSE r[k + 1]
  BY CycleFacts
<1>2. /\ c \in Seq(Task) /\ Len(c) = n - 1
      /\ \A k \in 1 .. n - 1 : c[k] = IF k < i THEN r[k] ELSE r[k + 1]
  BY WithoutElements DEF Cycle
<1>3. i \in 1 .. n /\ n # 1 /\ Before(r, i) = r[IF i = 1 THEN n ELSE i - 1]
  BY DEF Before
<1> HIDE DEF c, n
<1> DEFINE b == IF i = 1 THEN n ELSE i - 1
<1>4. b \in 1 .. n /\ Before(r, i) = r[b] /\ n - 1 \in Nat /\ n - 1 # 0 /\ n >= 2
  BY <1>1, <1>3
<1>5. \A k \in 1 .. n - 1 : c[k] = r[At1(k)] /\ At1(k) \in 1 .. n /\ At1(k) # i
  BY <1>1, <1>2, <1>3
<1>6. \A k \in 1 .. n : k # b => task'[r[k]].next = IF k = n THEN r[1] ELSE r[k + 1]
  <2> TAKE k \in 1 .. n
  <2> HAVE k # b
  <2>1. r[k] \in InRing \ {Before(r, i)}
    BY <1>1, <1>4
  <2> QED
    BY <1>1, <2>1
<1>7. task'[r[b]].next = IF i = n THEN r[1] ELSE r[i + 1]
  BY <1>1, <1>3, <1>4
<1>8. \A k, j \in 1 .. n - 1 : c[k] = c[j] => k = j
  <2> TAKE k, j \in 1 .. n - 1
  <2> HAVE c[k] = c[j]
  <2>1. At1(k) = At1(j)
    BY <1>1, <1>5
  <2> QED
    BY <1>3, <2>1
<1>9. \A k \in 1 .. n - 1 - 1 : task'[c[k]].next = c[k + 1]
  <2> TAKE k \in 1 .. n - 1 - 1
  <2>1. k \in 1 .. n - 1 /\ k + 1 \in 1 .. n - 1 /\ k \in 1 .. n /\ k + 1 \in 1 .. n
        /\ k # n /\ k + 1 # n
    BY <1>1, <1>4
  <2>2. CASE k < i - 1
    <3>1. k < i /\ k + 1 < i /\ k # b
      BY <1>1, <1>3, <2>2
    <3> QED
      BY <1>2, <1>6, <2>1, <3>1
  <2>3. CASE k = i - 1
    <3>1. k < i /\ ~ (k + 1 < i) /\ k = b /\ i # n /\ k + 1 = i
      BY <1>1, <1>3, <2>1, <2>3
    <3> QED
      BY <1>2, <1>7, <2>1, <3>1
  <2>4. CASE k > i - 1
    <3>1. ~ (k < i) /\ ~ (k + 1 < i) /\ k + 1 # b
      BY <1>1, <1>3, <2>1, <2>4
    <3> QED
      BY <1>2, <1>6, <2>1, <3>1
  <2> QED
    BY <1>3, <2>2, <2>3, <2>4
<1>10. task'[c[n - 1]].next = c[1]
  <2>1. n - 1 \in 1 .. n - 1 /\ 1 \in 1 .. n - 1
    BY <1>1, <1>4
  <2>2. CASE i = 1
    <3>1. n - 1 + 1 = n /\ ~ (n - 1 < i) /\ ~ (1 < i) /\ n = b /\ i # n
      BY <1>1, <1>4, <2>2
    <3> QED
      BY <1>2, <1>7, <2>1, <2>2, <3>1
  <2>3. CASE i # 1 /\ i = n
    <3>1. n - 1 < i /\ 1 < i /\ n - 1 = b
      BY <1>1, <1>3, <2>3
    <3> QED
      BY <1>2, <1>7, <2>1, <2>3, <3>1
  <2>4. CASE i # 1 /\ i # n
    <3>1. n - 1 + 1 = n /\ ~ (n - 1 < i) /\ 1 < i /\ n # b /\ n \in 1 .. n
      BY <1>1, <1>3, <2>4
    <3>2. c[n - 1] = r[n] /\ c[1] = r[1]
      BY <1>2, <2>1, <3>1
    <3>3. task'[r[n]].next = r[1]
      BY <1>6, <3>1
    <3> QED
      BY <3>2, <3>3
  <2> QED
    BY <2>2, <2>3, <2>4
<1>11. c[n - 1] = task_ring'
  <2>1. n - 1 \in 1 .. n - 1 /\ n \in 1 .. n /\ n - 1 + 1 = n
    BY <1>1, <1>4
  <2>2. CASE i = n
    <3>1. n - 1 < i /\ n - 1 = b
      BY <1>4, <2>2
    <3> QED
      BY <1>1, <1>2, <1>4, <2>1, <2>2, <3>1
  <2>3. CASE i # n
    <3>1. ~ (n - 1 < i)
      BY <1>1, <1>3, <2>3
    <3>2. task_ring # r[i]
      BY <1>1, <1>3, <2>1, <2>3
    <3> QED
      BY <1>1, <1>2, <2>1, <3>1, <3>2
  <2> QED
    BY <2>2, <2>3
<1>12. c # <<>>
  <2>1. Len(<<>>) = 0
    OBVIOUS
  <2> QED
    BY <1>2, <1>4, <2>1, Zenon
<1>13. Cycle(c)'
  BY <1>2, <1>8, <1>9, <1>10, <1>11, <1>12 DEF Cycle
<1> QED
  BY <1>13 DEF c

-----------------------------------------------------------------------------
\* The inductive invariant.

\* t is in the loop of reap_zombies_internal.
Busy(t) == frame[t].pc \in {"unlink", "free"}

\* The zombies that reapers have unlinked and not released yet.
Unlinked == {frame[t].z : t \in {r \in Task : frame[r].pc = "free"}}

\* The list of the zombies that t still has to release.
Taken(t) == IF Busy(t) THEN Listed(frame[t].z) ELSE {}

\* The ring is one cycle of the tasks that are allocated and not unlinked, and
\* the running task is one of them.
RingInv ==
  /\ Cycle(Ring)
  /\ InRing = ({InitTask} \cup alloc) \ Unlinked
  /\ current # NULL => current \in InRing

\* The lists of zombies end, and a reaper knows the rest of its list.
ListsInv ==
  /\ IsList(zombie_list)
  /\ \A t \in Task : Busy(t) => frame[t].z # NULL /\ IsList(frame[t].z)
  /\ \A t \in Task : frame[t].pc = "free" => frame[t].next_z = task[frame[t].z].znext

\* Only one list holds a zombie, which is allocated and waits in its last loop.
OwnedInv ==
  /\ \A t \in Task :
       /\ Taken(t) \cap Listed(zombie_list) = {}
       /\ \A r \in Task \ {t} : Taken(t) \cap Taken(r) = {}
       /\ current \notin Taken(t)
       /\ \A z \in Taken(t) : z \in alloc /\ frame[z].pc = "spin"
  /\ \A z \in Listed(zombie_list) : z \in alloc /\ frame[z].pc = "spin"

\* A task has exited if and only if it is at the end of task_exit; init_task
\* makes no system call, and memory that is not allocated is no reaper's.
ControlInv ==
  /\ \A t \in Task :
       /\ frame[t].pc \in {"run", "unlink", "free", "exit_mark", "exit_link", "spin"}
       /\ frame[t].ret \in {"run", "exit_mark"}
       /\ task[t].state = "ZOMBIE" <=> frame[t].pc \in {"exit_link", "spin"}
       /\ t \notin alloc \cup {InitTask} => frame[t].pc \in {"run", "spin"}
  /\ frame[InitTask].pc = "run"
  /\ task[InitTask].entry = "kmain"

\* No two tasks have the same pid, and the next one is new.
PidsInv ==
  /\ task[InitTask].pid = 0
  /\ \A t \in alloc : task[t].pid \in 1 .. next_pid - 1
  /\ \A t, r \in alloc : task[t].pid = task[r].pid => t = r

IInv == TypeOK /\ RingInv /\ ListsInv /\ OwnedInv /\ ControlInv /\ PidsInv

\* init_task, the slots of the heap and NULL are different pointers.
LEMMA TaskFacts ==
  /\ InitTask \in Task /\ NULL \notin Task /\ 1 .. Slots \subseteq Task
  /\ InitTask \notin 1 .. Slots /\ Task = {InitTask} \cup (1 .. Slots)
  /\ Task \subseteq Pointer /\ Pointer = Task \cup {NULL}
BY BoundsAssumption DEF Task, NULL, Pointer, InitTask

\* What the inductive invariant says of Reaping.
LEMMA ReapingIsTaken ==
  ListsInv /\ ControlInv => \A t \in Task : Reaping(t) = Taken(t)
<1> SUFFICES ASSUME ListsInv, ControlInv, NEW t \in Task
             PROVE  Reaping(t) = Taken(t)
  OBVIOUS
<1>1. CASE frame[t].pc = "free"
  <2>1. /\ frame[t].z # NULL /\ IsList(frame[t].z)
        /\ frame[t].next_z = task[frame[t].z].znext
    BY <1>1 DEF ListsInv, Busy
  <2>2. Listed(frame[t].z) = {frame[t].z} \cup Listed(frame[t].next_z)
    BY <2>1, ListFirst
  <2> QED
    BY <1>1, <2>2 DEF Reaping, Taken, Busy
<1>2. CASE frame[t].pc = "unlink"
  BY <1>2 DEF Reaping, Taken, Busy
<1>3. CASE frame[t].pc \notin {"unlink", "free"}
  BY <1>3 DEF Reaping, Taken, Busy
<1> QED
  BY <1>1, <1>2, <1>3

\* The unlinked zombies are among those taken, so init_task is not.
LEMMA UnlinkedFacts ==
  TypeOK /\ ListsInv /\ OwnedInv =>
    /\ \A t \in Task : Busy(t) => frame[t].z \in Taken(t)
    /\ Unlinked \subseteq alloc
    /\ InitTask \notin Unlinked
<1> SUFFICES ASSUME TypeOK, ListsInv, OwnedInv
             PROVE  /\ \A t \in Task : Busy(t) => frame[t].z \in Taken(t)
                    /\ Unlinked \subseteq alloc
                    /\ InitTask \notin Unlinked
  OBVIOUS
<1>1. ASSUME NEW t \in Task, Busy(t)
      PROVE  frame[t].z \in Taken(t)
  <2>1. frame[t].z # NULL /\ IsList(frame[t].z)
    BY <1>1 DEF ListsInv
  <2>2. frame[t].z \in Listed(frame[t].z)
    BY <2>1, ListFirst
  <2> QED
    BY <1>1, <2>2 DEF Taken
<1>2. \A t \in Task : frame[t].pc = "free" => frame[t].z \in alloc
  BY <1>1 DEF OwnedInv, Busy
<1>3. Unlinked \subseteq alloc
  BY <1>2 DEF Unlinked
<1>4. InitTask \notin Unlinked
  <2>1. alloc \subseteq 1 .. Slots
    BY DEF TypeOK
  <2> QED
    BY <1>3, <2>1, TaskFacts, Zenon
<1> QED
  BY <1>1, <1>3, <1>4

\* The contents of a task_t.
TaskRecord == [pid : 0 .. MaxPid, state : Runnable \cup {"ZOMBIE"},
               next : Pointer, znext : Pointer, entry : Entries]

\* The ring, as the invariant describes it.
LEMMA RingFacts ==
  ASSUME IInv
  PROVE  /\ InitTask \in InRing /\ InRing \subseteq Task
         /\ \A q \in InRing : task[q].next \in InRing
         /\ task_ring \in InRing
<1>1. Cycle(Ring)
  BY DEF IInv, RingInv
<1> DEFINE n == Len(Ring)
<1>2. /\ n \in 1 .. Slots + 1 /\ n \in Nat
      /\ Ring \in [1 .. n -> Task] /\ InRing = {Ring[k] : k \in 1 .. n}
      /\ Ring[n] = task_ring
      /\ \A k \in 1 .. n : task[Ring[k]].next = IF k = n THEN Ring[1] ELSE Ring[k + 1]
  BY <1>1, CycleFacts
<1> HIDE DEF n
<1>3. \A k \in 1 .. n : 1 \in 1 .. n /\ n \in 1 .. n /\ (k = n \/ k + 1 \in 1 .. n)
  BY <1>2
<1>4. n \in 1 .. n
  BY <1>2
<1>5. InitTask \in InRing
  BY UnlinkedFacts DEF IInv, RingInv
<1> QED
  BY <1>2, <1>3, <1>4, <1>5

\* The timer gives the processor to a task of the ring that can run, and
\* changes nothing but states.
LEMMA SwitchEffect ==
  ASSUME IInv, schedule_from_isr
  PROVE  /\ current' \in InRing /\ task[current'].state \in Runnable
         /\ task' \in [Task -> TaskRecord]
         /\ \A q \in Task : /\ task'[q].next = task[q].next
                            /\ task'[q].znext = task[q].znext
                            /\ task'[q].pid = task[q].pid
                            /\ task'[q].entry = task[q].entry
                            /\ task'[q].state = "ZOMBIE" <=> task[q].state = "ZOMBIE"
<1> DEFINE from == IF current = NULL THEN InitTask ELSE current
<1>1. from \in InRing
  BY RingFacts DEF IInv, RingInv
<1>2. task[from].next \in InRing
  BY <1>1, RingFacts
<1> HIDE DEF from
<1>3. Find(task[from].next, CanRun) \in (InRing \cap CanRun) \cup {NULL}
  <2>1. InRing \in SUBSET Task /\ \A q \in InRing : task[q].next \in InRing
    BY RingFacts
  <2> QED
    BY <1>2, <2>1, FindInside
<1>4. pick_next = Find(task[from].next, CanRun)
  BY DEF pick_next, from
<1> DEFINE nxt == pick_next
<1>5. current' = nxt /\ nxt # NULL /\ task' = [Preempted EXCEPT ![nxt].state = "RUNNING"]
  BY DEF schedule_from_isr
<1>6. nxt \in InRing /\ nxt \in CanRun
  BY <1>3, <1>4, <1>5
<1>7. nxt \in Task /\ task[nxt].state \in Runnable
  BY <1>6 DEF CanRun
<1> HIDE DEF nxt
<1>8. task \in [Task -> TaskRecord]
  BY DEF IInv, TypeOK, TaskRecord
<1>9. Preempted \in [Task -> TaskRecord]
      /\ \A q \in Task : /\ Preempted[q].next = task[q].next
                         /\ Preempted[q].znext = task[q].znext
                         /\ Preempted[q].pid = task[q].pid
                         /\ Preempted[q].entry = task[q].entry
                         /\ Preempted[q].state = "ZOMBIE" <=> task[q].state = "ZOMBIE"
  BY <1>8 DEF Preempted, TaskRecord, Runnable
<1>10. task[nxt].state # "ZOMBIE"
  BY <1>7 DEF Runnable
<1> QED
  BY <1>5, <1>6, <1>7, <1>9, <1>10 DEF TaskRecord, Runnable

\* A step that takes z, the i-th task, out of the ring.
Unlinks(z, i) ==
  /\ Ring[i] = z /\ z \in Task /\ z \in alloc
  /\ Len(Ring) # 1
  /\ Before(Ring, i) \in Task /\ Before(Ring, i) \in InRing
  /\ task' = [task EXCEPT ![Before(Ring, i)].next = task[z].next]
  /\ task_ring' = IF task_ring = z THEN Before(Ring, i) ELSE task_ring

\* unlink_from_ring takes out of the ring what it is called for.
LEMMA UnlinkEffect ==
  ASSUME IInv, NEW t \in Task, ReapUnlink(t)
  PROVE  \E i \in 1 .. Len(Ring) : Unlinks(frame[t].z, i)
<1> DEFINE z == frame[t].z
           n == Len(Ring)
<1>1. frame[t].pc = "unlink" /\ Busy(t)
  BY DEF ReapUnlink, At, Busy
<1>2. z \in Taken(t) /\ z \in alloc
  BY <1>1, UnlinkedFacts DEF IInv, OwnedInv
<1>3. z \notin Unlinked
  <2> SUFFICES ASSUME NEW r \in Task, frame[r].pc = "free", frame[r].z = z
               PROVE  FALSE
    BY DEF Unlinked
  <2>1. Busy(r) /\ r # t
    BY <1>1 DEF Busy
  <2>2. z \in Taken(r)
    BY <2>1, UnlinkedFacts DEF IInv
  <2> QED
    BY <1>2, <2>1, <2>2 DEF IInv, OwnedInv
<1>4. z \in InRing /\ z # InitTask /\ z \in Task
  <2>1. alloc \subseteq 1 .. Slots
    BY DEF IInv, TypeOK
  <2>2. z # InitTask /\ z \in Task
    BY <1>2, <2>1, TaskFacts, Zenon
  <2> QED
    BY <1>2, <1>3, <2>2 DEF IInv, RingInv
<1> HIDE DEF z
<1>5. Cycle(Ring)
  BY DEF IInv, RingInv
<1>6. /\ n \in Nat /\ Ring \in [1 .. n -> Task] /\ InRing = {Ring[k] : k \in 1 .. n}
      /\ Ring[n] = task_ring /\ n \in 1 .. Slots + 1
      /\ \A k, j \in 1 .. n : Ring[k] = Ring[j] => k = j
      /\ \A k \in 1 .. n : task[Ring[k]].next = IF k = n THEN Ring[1] ELSE Ring[k + 1]
  BY <1>5, CycleFacts
<1>7. PICK i \in 1 .. n : Ring[i] = z
  BY <1>4, <1>6
<1>8. n # 1
  <2>1. PICK j \in 1 .. n : Ring[j] = InitTask
    BY <1>6, RingFacts
  <2> HIDE DEF n
  <2> QED
    BY <1>4, <1>6, <1>7, <2>1
<1>9. task[task_ring].next # task_ring
  <2> HIDE DEF n
  <2>1. n \in 1 .. n /\ 1 \in 1 .. n
    BY <1>6
  <2> QED
    BY <1>6, <1>8, <2>1
<1>10. /\ Find(task_ring, {p \in Task : task[p].next = z}) = Before(Ring, i)
       /\ Before(Ring, i) \in Task /\ Before(Ring, i) \in InRing
  <2>1. {p \in Task : task[p].next = z} = {p \in Task : task[p].next = Ring[i]}
    BY <1>7
  <2>2. /\ Find(task_ring, {p \in Task : task[p].next = Ring[i]}) = Before(Ring, i)
        /\ Before(Ring, i) \in Task /\ Before(Ring, i) \in InRing
    BY <1>5, FindBefore
  <2> QED
    BY <2>1, <2>2, Zenon
<1>11. Before(Ring, i) # NULL
  BY <1>10, TaskFacts
<1>12. unlink_from_ring(z) = [task |-> [task EXCEPT ![Before(Ring, i)].next = task[z].next],
                              ring |-> IF task_ring = z THEN Before(Ring, i) ELSE task_ring]
  BY <1>9, <1>10, <1>11 DEF unlink_from_ring
<1>13. task' = unlink_from_ring(z).task /\ task_ring' = unlink_from_ring(z).ring
  BY DEF ReapUnlink, z
<1>14. task' = [task EXCEPT ![Before(Ring, i)].next = task[z].next]
       /\ task_ring' = IF task_ring = z THEN Before(Ring, i) ELSE task_ring
  BY <1>12, <1>13
<1>15. Unlinks(z, i)
  BY <1>2, <1>4, <1>7, <1>8, <1>10, <1>14 DEF Unlinks
<1> QED
  BY <1>15 DEF z

\* A step that puts a new task into the slot s and links the tail of the ring
\* to it.
Creates(s) ==
  /\ s \in Task /\ s # InitTask /\ s \notin alloc
  /\ s # task_ring /\ s \notin InRing
  /\ task' \in [Task -> TaskRecord]
  /\ task'[s] = NewTask(next_pid, "program", task[task_ring].next)
  /\ task'[task_ring] = [task[task_ring] EXCEPT !.next = s]
  /\ \A q \in Task \ {s, task_ring} : task'[q] = task[q]
  /\ frame' = [frame EXCEPT ![s] = NewFrame]
  /\ alloc' = alloc \cup {s}
  /\ task_ring' = s
  /\ next_pid' = next_pid + 1 /\ next_pid <= MaxPid
  /\ UNCHANGED <<current, zombie_list>>

\* utask_create does so, with a slot that was free.
LEMMA CreateEffect ==
  ASSUME IInv, NEW t \in Task, utask_create(t)
  PROVE  \E s \in (1 .. Slots) \ alloc : Creates(s)
<1> DEFINE P(s) == /\ \A r \in (1 .. Slots) \ alloc : s <= r
                   /\ task' = Insert(s)
                   /\ frame' = [frame EXCEPT ![s] = NewFrame]
                   /\ alloc' = alloc \cup {s}
                   /\ task_ring' = NewTail(s)
<1>0. \E s \in (1 .. Slots) \ alloc : P(s)
  BY Zenon DEF utask_create
<1>1. PICK s \in (1 .. Slots) \ alloc : P(s)
  <2> HIDE DEF P
  <2> QED
    BY <1>0
<1>2. s \in Task /\ s # InitTask
  BY TaskFacts, Zenon
<1>3. s \notin InRing
  BY <1>2 DEF IInv, RingInv
<1>4. s # task_ring /\ task_ring \in Task
  BY <1>3, RingFacts
<1>5. task \in [Task -> TaskRecord] /\ next_pid \in Nat /\ s \in Pointer
  BY <1>2, TaskFacts, BoundsAssumption DEF IInv, TypeOK, TaskRecord
<1>6. next_pid <= MaxPid /\ next_pid' = next_pid + 1 /\ UNCHANGED <<current, zombie_list>>
  BY DEF utask_create
<1>7. task[task_ring].next \in Pointer
  BY <1>4, <1>5 DEF TaskRecord
<1>8. NewTask(next_pid, "program", task[task_ring].next) \in TaskRecord
  <2>1. NULL \in Pointer
    BY TaskFacts
  <2> QED
    BY <1>5, <1>6, <1>7, <2>1, BoundsAssumption DEF NewTask, TaskRecord, Runnable, Entries
<1>9. [task[task_ring] EXCEPT !.next = s] \in TaskRecord
  BY <1>4, <1>5 DEF TaskRecord
<1>10. task' = [[task EXCEPT ![s] = NewTask(next_pid, "program", task[task_ring].next)]
                  EXCEPT ![task_ring].next = s]
  BY <1>1 DEF Insert
<1> DEFINE new == NewTask(next_pid, "program", task[task_ring].next)
<1> HIDE DEF new
<1>11. /\ task' \in [Task -> TaskRecord]
       /\ task'[s] = new
       /\ task'[task_ring] = [task[task_ring] EXCEPT !.next = s]
       /\ \A q \in Task \ {s, task_ring} : task'[q] = task[q]
  <2>1. new \in TaskRecord
    BY <1>8 DEF new
  <2>2. task' = [[task EXCEPT ![s] = new] EXCEPT ![task_ring].next = s]
    BY <1>10 DEF new
  <2> QED
    BY <1>2, <1>4, <1>5, <1>9, <2>1, <2>2
<1>12. Creates(s)
  BY <1>1, <1>2, <1>3, <1>4, <1>6, <1>11 DEF NewTail, Creates, new
<1> QED
  BY <1>12

\* The statements of the model without task_stop.
LEMMA PCsFacts ==
  {"run", "unlink", "free", "exit_mark", "exit_link", "spin"} \subseteq PCs
BY DEF PCs

\* An assignment to the next pointer of a task_t.
LEMMA SetNext ==
  ASSUME NEW r \in TaskRecord, NEW p \in Pointer
  PROVE  [r EXCEPT !.next = p] \in TaskRecord
BY DEF TaskRecord

\* The assignment to next_z and the step to the next statement.
LEMMA SetNextZ ==
  ASSUME NEW f \in Frame, NEW p \in Pointer, NEW c \in PCs
  PROVE  [f EXCEPT !.pc = c, !.next_z = p] \in Frame
<1>1. \A g \in Frame, d \in PCs : [g EXCEPT !.pc = d] \in Frame
  BY DEF Frame
<1>2. \A g \in Frame : [g EXCEPT !.next_z = p] \in Frame
  BY DEF Frame
<1>3. [f EXCEPT !.pc = c] \in Frame
  BY <1>1
<1> QED
  BY <1>2, <1>3, Zenon

\* What a system call of the running task t leaves alone.
LEMMA CallFacts ==
  ASSUME IInv, NEW t \in Task, current = t
  PROVE  t \in InRing /\ (t \in alloc \/ t = InitTask) /\ t \notin Unlinked
BY TaskFacts, Zenon DEF IInv, RingInv

\* The variables keep their types.
LEMMA TypeStep ==
  ASSUME IInv, [Next]_vars
  PROVE  TypeOK'
<1>1. TypeOK /\ task \in [Task -> TaskRecord]
  BY DEF IInv, TypeOK, TaskRecord
<1>2. CASE schedule_from_isr
  <2>1. current' \in Pointer
    BY <1>2, SwitchEffect, RingFacts, TaskFacts, Zenon
  <2> QED
    BY <1>1, <1>2, <2>1, SwitchEffect DEF schedule_from_isr, TypeOK, TaskRecord
<1>3. ASSUME NEW t \in Task, utask_create(t)
      PROVE  TypeOK'
  <2>0. PICK s \in (1 .. Slots) \ alloc : Creates(s)
    BY <1>3, CreateEffect
  <2>1. /\ s \in Task
        /\ task' \in [Task -> TaskRecord]
        /\ frame' = [frame EXCEPT ![s] = NewFrame]
        /\ alloc' = alloc \cup {s}
        /\ task_ring' = s
        /\ next_pid' = next_pid + 1 /\ next_pid <= MaxPid
        /\ UNCHANGED <<current, zombie_list>>
    BY <2>0 DEF Creates
  <2>2. NewFrame \in Frame
    BY TaskFacts, PCsFacts DEF NewFrame, Frame
  <2>3. next_pid' \in 4 .. MaxPid + 1
    BY <1>1, <2>1, BoundsAssumption DEF TypeOK
  <2>4. frame' \in [Task -> Frame]
    BY <1>1, <2>1, <2>2 DEF TypeOK
  <2> QED
    BY <1>1, <2>1, <2>3, <2>4 DEF TypeOK, TaskRecord
<1>4. ASSUME NEW t \in Task, NEW ret \in PCs, ReapBegin(t, ret)
      PROVE  TypeOK'
  <2>1. [pc |-> IF zombie_list = NULL THEN ret ELSE "unlink",
         z |-> zombie_list, next_z |-> NULL, ret |-> ret] \in Frame
    BY <1>1, TaskFacts, PCsFacts DEF TypeOK, Frame
  <2>2. frame' \in [Task -> Frame]
    BY <1>1, <1>4, <2>1 DEF TypeOK, ReapBegin
  <2> QED
    BY <1>1, <1>4, <2>2, TaskFacts DEF TypeOK, ReapBegin
<1>5. ASSUME NEW t \in Task, ReapUnlink(t)
      PROVE  TypeOK'
  <2> DEFINE z == frame[t].z
  <2>0. PICK i \in 1 .. Len(Ring) : Unlinks(z, i)
    BY <1>5, UnlinkEffect
  <2>1. /\ z \in Task /\ Before(Ring, i) \in Task
        /\ task' = [task EXCEPT ![Before(Ring, i)].next = task[z].next]
        /\ task_ring' = IF task_ring = z THEN Before(Ring, i) ELSE task_ring
    BY <2>0 DEF Unlinks
  <2>2. frame' = [frame EXCEPT ![t].pc = "free", ![t].next_z = task[z].znext]
    BY <1>5 DEF ReapUnlink
  <2> HIDE DEF z
  <2>3. task[z].next \in Pointer /\ task[z].znext \in Pointer
    BY <1>1, <2>1 DEF TaskRecord
  <2>4. task' \in [Task -> TaskRecord]
    <3>1. [task[Before(Ring, i)] EXCEPT !.next = task[z].next] \in TaskRecord
      <4>1. task[Before(Ring, i)] \in TaskRecord
        BY <1>1, <2>1
      <4> QED
        BY <2>3, <4>1, SetNext, Zenon
    <3> QED
      BY <1>1, <2>1, <3>1
  <2>5. frame' \in [Task -> Frame]
    <3>1. frame[t] \in Frame /\ "free" \in PCs
      BY <1>1, PCsFacts DEF TypeOK
    <3>2. [frame[t] EXCEPT !.pc = "free", !.next_z = task[z].znext] \in Frame
      BY <2>3, <3>1, SetNextZ, Zenon
    <3> QED
      BY <1>1, <2>2, <3>2 DEF TypeOK
  <2> QED
    BY <1>1, <1>5, <2>1, <2>4, <2>5 DEF ReapUnlink, TypeOK, TaskRecord
<1>6. ASSUME NEW t \in Task, ReapFree(t)
      PROVE  TypeOK'
  <2>1. frame' \in [Task -> Frame]
    <3> DEFINE z == frame[t].next_z
    <3>1. /\ z \in Pointer /\ frame[t].ret \in PCs /\ "unlink" \in PCs /\ NULL \in Pointer
          /\ frame \in [Task -> Frame]
      BY <1>1, TaskFacts, PCsFacts DEF TypeOK, Frame
    <3>2. [pc |-> IF z = NULL THEN frame[t].ret ELSE "unlink",
           z |-> z, next_z |-> NULL, ret |-> frame[t].ret] \in Frame
      BY <3>1 DEF Frame
    <3> QED
      BY <1>6, <3>1, <3>2 DEF ReapFree
  <2>2. alloc' \subseteq 1 .. Slots
    BY <1>1, <1>6 DEF ReapFree, TypeOK
  <2>3. UNCHANGED <<task_ring, current, next_pid, zombie_list, task>>
    BY <1>6 DEF ReapFree
  <2> QED
    BY <1>1, <2>1, <2>2, <2>3 DEF TypeOK
<1>7. ASSUME NEW t \in Task, ExitMark(t)
      PROVE  TypeOK'
  <2>1. frame' \in [Task -> Frame]
    BY <1>1, <1>7, PCsFacts DEF ExitMark, TypeOK, Frame
  <2>2. task' \in [Task -> TaskRecord]
    BY <1>1, <1>7 DEF ExitMark, TaskRecord
  <2> QED
    BY <1>1, <1>7, <2>1, <2>2 DEF ExitMark, TypeOK, TaskRecord
<1>8. ASSUME NEW t \in Task, ExitLink(t)
      PROVE  TypeOK'
  <2>1. frame' \in [Task -> Frame]
    BY <1>1, <1>8, PCsFacts DEF ExitLink, TypeOK, Frame
  <2>2. task' \in [Task -> TaskRecord]
    BY <1>1, <1>8 DEF ExitLink, TypeOK, TaskRecord
  <2> QED
    BY <1>1, <1>8, <2>1, <2>2, TaskFacts DEF ExitLink, TypeOK, TaskRecord
<1>9. CASE UNCHANGED vars
  BY <1>1, <1>9 DEF TypeOK, vars
<1>10. "run" \in PCs /\ "exit_mark" \in PCs
  BY DEF PCs
<1> QED
  BY <1>2, <1>3, <1>4, <1>5, <1>6, <1>7, <1>8, <1>9, <1>10
  DEF Next, KernelStep, SystemCall, reap_zombies, task_exit

-----------------------------------------------------------------------------
\* The link of a zombie that waits in its last loop is left alone, and so is
\* its frame.
LEMMA SpinStep ==
  ASSUME IInv, [Next]_vars, NEW q \in alloc, frame[q].pc = "spin"
  PROVE  task'[q].znext = task[q].znext /\ frame'[q] = frame[q]
<1>1. /\ task \in [Task -> TaskRecord] /\ frame \in [Task -> Frame]
      /\ alloc \subseteq 1 .. Slots
  BY DEF IInv, TypeOK, TaskRecord
<1>2. q \in Task
  BY <1>1, TaskFacts, Zenon
<1>3. CASE schedule_from_isr
  BY <1>2, <1>3, SwitchEffect DEF schedule_from_isr
<1>4. ASSUME NEW t \in Task, utask_create(t)
      PROVE  task'[q].znext = task[q].znext /\ frame'[q] = frame[q]
  <2>1. PICK s \in (1 .. Slots) \ alloc : Creates(s)
    BY <1>4, CreateEffect
  <2>2. q # s
    OBVIOUS
  <2>3. frame'[q] = frame[q]
    BY <1>1, <1>2, <2>1, <2>2 DEF Creates
  <2>4. CASE q = task_ring
    <3>1. task'[q] = [task[q] EXCEPT !.next = s] /\ task[q] \in TaskRecord
      BY <1>1, <1>2, <2>1, <2>4 DEF Creates
    <3> QED
      BY <2>3, <3>1 DEF TaskRecord
  <2>5. CASE q # task_ring
    BY <1>2, <2>1, <2>2, <2>3, <2>5 DEF Creates
  <2> QED
    BY <2>4, <2>5
<1>5. ASSUME NEW t \in Task, NEW ret, ReapBegin(t, ret), frame[t].pc # "spin"
      PROVE  task'[q].znext = task[q].znext /\ frame'[q] = frame[q]
  BY <1>1, <1>2, <1>5 DEF ReapBegin
<1>6. ASSUME NEW t \in Task, ReapUnlink(t)
      PROVE  task'[q].znext = task[q].znext /\ frame'[q] = frame[q]
  <2>1. PICK i \in 1 .. Len(Ring) : Unlinks(frame[t].z, i)
    BY <1>6, UnlinkEffect
  <2>2. /\ Before(Ring, i) \in Task
        /\ task' = [task EXCEPT ![Before(Ring, i)].next = task[frame[t].z].next]
    BY <2>1 DEF Unlinks
  <2>3. task'[q].znext = task[q].znext
    BY <1>1, <1>2, <2>2 DEF TaskRecord
  <2>4. frame'[q] = frame[q]
    BY <1>1, <1>2, <1>6 DEF ReapUnlink, At
  <2> QED
    BY <2>3, <2>4
<1>7. ASSUME NEW t \in Task, ReapFree(t)
      PROVE  task'[q].znext = task[q].znext /\ frame'[q] = frame[q]
  BY <1>1, <1>2, <1>7 DEF ReapFree, At
<1>8. ASSUME NEW t \in Task, ExitMark(t)
      PROVE  task'[q].znext = task[q].znext /\ frame'[q] = frame[q]
  BY <1>1, <1>2, <1>8 DEF ExitMark, At, TaskRecord
<1>9. ASSUME NEW t \in Task, ExitLink(t)
      PROVE  task'[q].znext = task[q].znext /\ frame'[q] = frame[q]
  BY <1>1, <1>2, <1>9 DEF ExitLink, At, TaskRecord
<1>10. CASE UNCHANGED vars
  BY <1>10 DEF vars
<1>11. ASSUME NEW t \in Task, reap_zombies(t) \/ task_exit(t)
       PROVE  task'[q].znext = task[q].znext /\ frame'[q] = frame[q]
  BY <1>5, <1>11 DEF reap_zombies, task_exit, At
<1> QED
  BY <1>3, <1>4, <1>6, <1>7, <1>8, <1>9, <1>10, <1>11 DEF Next, KernelStep, SystemCall

\* So the lists of such zombies are left alone.
LEMMA WaitingListKept ==
  ASSUME IInv, [Next]_vars
  PROVE  \A v : IsList(v) /\ (\A z \in Listed(v) : z \in alloc /\ frame[z].pc = "spin")
                  => IsList(v)' /\ Listed(v)' = Listed(v)
<1> SUFFICES ASSUME NEW v, IsList(v),
                    \A z \in Listed(v) : z \in alloc /\ frame[z].pc = "spin"
             PROVE  IsList(v)' /\ Listed(v)' = Listed(v)
  OBVIOUS
<1>1. \A z \in Listed(v) : task'[z].znext = task[z].znext
  BY SpinStep
<1> QED
  BY <1>1, ListKept

\* A reaper that goes on with its list, or has none, keeps it.
LEMMA TakenKept ==
  ASSUME IInv, [Next]_vars, NEW r \in Task, Busy(r)' <=> Busy(r),
         Busy(r) => frame'[r].z = frame[r].z
  PROVE  /\ Taken(r)' = Taken(r)
         /\ Busy(r) => frame'[r].z # NULL /\ IsList(frame[r].z)'
<1>1. CASE ~ Busy(r)
  BY <1>1 DEF Taken
<1>2. CASE Busy(r)
  <2> DEFINE v == frame[r].z
  <2>1. IsList(v) /\ v # NULL
    BY <1>2 DEF IInv, ListsInv
  <2>2. \A z \in Listed(v) : z \in alloc /\ frame[z].pc = "spin"
    BY <1>2 DEF IInv, OwnedInv, Taken
  <2>3. \A w : w = v => IsList(w)' /\ Listed(w)' = Listed(w)
    BY <2>1, <2>2, WaitingListKept
  <2>4. IsList(frame[r].z)' /\ Listed(frame[r].z)' = Listed(v)
    BY <1>2, <2>3
  <2> QED
    BY <1>2, <2>1, <2>4 DEF Taken
<1> QED
  BY <1>1, <1>2

\* zombie_list, if no step changes it.
LEMMA ZombieListKept ==
  ASSUME IInv, [Next]_vars, zombie_list' = zombie_list
  PROVE  IsList(zombie_list)' /\ Listed(zombie_list)' = Listed(zombie_list)
<1>1. IsList(zombie_list) /\ \A z \in Listed(zombie_list) : z \in alloc /\ frame[z].pc = "spin"
  BY DEF IInv, ListsInv, OwnedInv
<1>2. \A w : w = zombie_list => IsList(w)' /\ Listed(w)' = Listed(w)
  BY <1>1, WaitingListKept
<1> QED
  BY <1>2

\* q waits to be released.
Held(q) == q \in Listed(zombie_list) \/ \E t \in Task : q \in Taken(t)

\* A zombie that waits to be released still waits, or has been released.
HeldStep == \A q : Held(q) => Held(q)' \/ q \notin alloc'

\* If all lists stay as they are, so does what the invariant says of them.
LEMMA ListsKept ==
  ASSUME IInv, [Next]_vars, zombie_list' = zombie_list, alloc \subseteq alloc',
         \A r \in Task : (Busy(r)' <=> Busy(r)) /\ (Busy(r) => frame'[r].z = frame[r].z),
         \A r \in Task : current' \notin Taken(r),
         \A r \in Task : frame'[r].pc = "free" => frame'[r].next_z = task[frame[r].z].znext
  PROVE  ListsInv' /\ OwnedInv' /\ HeldStep
<1>1. /\ \A r \in Task : Taken(r)' = Taken(r)
      /\ \A r \in Task : Busy(r) => frame'[r].z # NULL /\ IsList(frame[r].z)'
  BY TakenKept
<1>2. IsList(zombie_list)' /\ Listed(zombie_list)' = Listed(zombie_list)
  BY ZombieListKept
<1>3. \A r \in Task : \A z \in Taken(r) : z \in alloc /\ frame[z].pc = "spin"
  BY DEF IInv, OwnedInv
<1>4. \A z \in Listed(zombie_list) : z \in alloc /\ frame[z].pc = "spin"
  BY DEF IInv, OwnedInv
<1>5. \A z \in alloc : frame[z].pc = "spin" =>
        z \in alloc' /\ frame'[z].pc = "spin" /\ task'[z].znext = task[z].znext
  BY SpinStep
<1>6. ASSUME NEW r \in Task, frame'[r].pc = "free"
      PROVE  frame'[r].next_z = task'[frame'[r].z].znext
  <2>1. Busy(r)' /\ Busy(r) /\ frame'[r].z = frame[r].z
    BY <1>6 DEF Busy
  <2>2. frame[r].z \in Taken(r)
    BY <2>1, UnlinkedFacts DEF IInv
  <2> QED
    BY <1>3, <1>5, <1>6, <2>1, <2>2
<1>7. ListsInv'
  BY <1>1, <1>2, <1>6 DEF ListsInv
<1>8. OwnedInv'
  BY <1>1, <1>2, <1>3, <1>4, <1>5 DEF IInv, OwnedInv
<1>9. HeldStep
  BY <1>1, <1>2 DEF Held, HeldStep
<1> QED
  BY <1>7, <1>8, <1>9

\* The lists of zombies are disjoint after every step, and lose no zombie that
\* has not been released.
LEMMA ListsStep ==
  ASSUME IInv, [Next]_vars
  PROVE  ListsInv' /\ OwnedInv' /\ HeldStep
<1>1. /\ task \in [Task -> TaskRecord] /\ frame \in [Task -> Frame]
      /\ alloc \subseteq 1 .. Slots /\ \A q \in alloc : q \in Task
  <2>1. alloc \subseteq 1 .. Slots
    BY DEF IInv, TypeOK
  <2>2. \A q \in alloc : q \in Task
    BY <2>1, TaskFacts, Zenon
  <2> QED
    BY <2>1, <2>2 DEF IInv, TypeOK, TaskRecord
<1>2. /\ \A r \in Task : \A z \in Taken(r) : z \in alloc /\ frame[z].pc = "spin"
      /\ \A r \in Task : current \notin Taken(r)
      /\ \A z \in Listed(zombie_list) : z \in alloc /\ frame[z].pc = "spin"
  BY DEF IInv, OwnedInv
<1>3. \A r \in Task : frame[r].pc = "free" => frame[r].next_z = task[frame[r].z].znext
  BY DEF IInv, ListsInv
<1>4. CASE schedule_from_isr
  <2>1. \A r \in Task : current' \notin Taken(r)
    <3>1. current' \in Task /\ task[current'].state # "ZOMBIE"
      BY <1>4, SwitchEffect, RingFacts DEF Runnable
    <3>2. frame[current'].pc # "spin"
      BY <3>1 DEF IInv, ControlInv
    <3> QED
      BY <1>2, <3>2
  <2>2. UNCHANGED <<zombie_list, alloc, frame>>
    BY <1>4 DEF schedule_from_isr
  <2> QED
    BY <1>3, <2>1, <2>2, ListsKept DEF Busy
<1>5. ASSUME NEW t \in Task, utask_create(t)
      PROVE  ListsInv' /\ OwnedInv' /\ HeldStep
  <2>1. PICK s \in (1 .. Slots) \ alloc : Creates(s)
    BY <1>5, CreateEffect
  <2>2. /\ zombie_list' = zombie_list /\ current' = current /\ alloc \subseteq alloc'
        /\ frame' = [frame EXCEPT ![s] = NewFrame]
        /\ s \in Task /\ s \notin alloc \cup {InitTask}
    BY <2>1 DEF Creates
  <2>3. frame[s].pc \in {"run", "spin"} /\ frame'[s].pc = "run"
        /\ \A r \in Task \ {s} : frame'[r] = frame[r]
    BY <1>1, <2>2 DEF IInv, ControlInv, NewFrame
  <2>4. ~ Busy(s) /\ ~ Busy(s)' /\ frame'[s].pc # "free"
    BY <2>3 DEF Busy
  <2>5. \A r \in Task : (Busy(r)' <=> Busy(r)) /\ (Busy(r) => frame'[r].z = frame[r].z)
    BY <2>3, <2>4 DEF Busy
  <2>6. \A r \in Task : frame'[r].pc = "free" => frame'[r].next_z = task[frame[r].z].znext
    BY <1>3, <2>3
  <2> QED
    BY <1>2, <2>2, <2>5, <2>6, ListsKept
<1>6. ASSUME NEW t \in Task, ReapUnlink(t)
      PROVE  ListsInv' /\ OwnedInv' /\ HeldStep
  <2>1. UNCHANGED <<current, zombie_list, alloc>> /\ frame[t].pc = "unlink"
    BY <1>6 DEF ReapUnlink, At
  <2>2. /\ \A r \in Task \ {t} : frame'[r] = frame[r]
        /\ frame'[t].pc = "free" /\ frame'[t].z = frame[t].z
        /\ frame'[t].next_z = task[frame[t].z].znext
    BY <1>1, <1>6 DEF ReapUnlink, Frame
  <2>3. \A r \in Task : (Busy(r)' <=> Busy(r)) /\ (Busy(r) => frame'[r].z = frame[r].z)
    BY <2>1, <2>2 DEF Busy
  <2>4. \A r \in Task : frame'[r].pc = "free" => frame'[r].next_z = task[frame[r].z].znext
    BY <1>3, <2>2
  <2> QED
    BY <1>2, <2>1, <2>3, <2>4, ListsKept
<1>7. ASSUME NEW t \in Task, ExitMark(t)
      PROVE  ListsInv' /\ OwnedInv' /\ HeldStep
  <2>1. UNCHANGED <<current, zombie_list, alloc>> /\ frame[t].pc = "exit_mark"
    BY <1>7 DEF ExitMark, At
  <2>2. /\ \A r \in Task \ {t} : frame'[r] = frame[r]
        /\ frame'[t].pc = "exit_link"
    BY <1>1, <1>7 DEF ExitMark, Frame
  <2>3. \A r \in Task : (Busy(r)' <=> Busy(r)) /\ (Busy(r) => frame'[r].z = frame[r].z)
    BY <2>1, <2>2 DEF Busy
  <2>4. \A r \in Task : frame'[r].pc = "free" => frame'[r].next_z = task[frame[r].z].znext
    BY <1>3, <2>2
  <2> QED
    BY <1>2, <2>1, <2>3, <2>4, ListsKept
<1>8. CASE UNCHANGED vars
  BY <1>2, <1>3, <1>8, ListsKept DEF vars, Busy
<1>9. /\ \A z \in alloc : frame[z].pc = "spin" =>
           frame'[z].pc = "spin" /\ task'[z].znext = task[z].znext
  BY SpinStep
<1>10. ASSUME NEW t \in Task, NEW ret \in {"run", "exit_mark"}, ReapBegin(t, ret),
              At(t, "run")
       PROVE  ListsInv' /\ OwnedInv' /\ HeldStep
  <2>1. /\ UNCHANGED <<task, current, alloc>> /\ frame[t].pc = "run" /\ zombie_list' = NULL
        /\ \A r \in Task \ {t} : frame'[r] = frame[r]
        /\ frame'[t].pc = IF zombie_list = NULL THEN ret ELSE "unlink"
        /\ frame'[t].z = zombie_list
        /\ current = t
    BY <1>1, <1>10 DEF ReapBegin, At
  <2>2. CASE zombie_list = NULL
    <3>1. \A r \in Task : (Busy(r)' <=> Busy(r)) /\ (Busy(r) => frame'[r].z = frame[r].z)
      BY <2>1, <2>2 DEF Busy
    <3>2. \A r \in Task : frame'[r].pc = "free" => frame'[r].next_z = task[frame[r].z].znext
      BY <1>3, <2>1, <2>2
    <3> QED
      BY <1>2, <2>1, <2>2, <3>1, <3>2, ListsKept
  <2>3. CASE zombie_list # NULL
    <3>1. \A w : w = zombie_list => IsList(w)' /\ Listed(w)' = Listed(w)
      BY <1>2, WaitingListKept DEF IInv, ListsInv
    <3>2. IsList(frame[t].z)' /\ Listed(frame[t].z)' = Listed(zombie_list)
      BY <2>1, <3>1
    <3>3. Busy(t)' /\ Taken(t)' = Listed(zombie_list)
      BY <2>1, <2>3, <3>2 DEF Busy, Taken
    <3>4. (IsList(NULL) /\ Listed(NULL) = {})'
      BY ListEmpty, PTL
    <3>5. IsList(zombie_list)' /\ Listed(zombie_list)' = {}
      BY <2>1, <3>4
    <3>6. /\ \A r \in Task \ {t} : Taken(r)' = Taken(r)
          /\ \A r \in Task \ {t} : Busy(r) => frame'[r].z # NULL /\ IsList(frame[r].z)'
          /\ \A r \in Task \ {t} : Busy(r)' <=> Busy(r)
      BY <2>1, TakenKept DEF Busy
    <3>7. \A r \in Task : frame'[r].pc = "free" => frame'[r].next_z = task[frame'[r].z].znext
      BY <1>3, <2>1, <2>3
    <3>8. ListsInv'
      BY <2>1, <2>3, <3>2, <3>5, <3>6, <3>7 DEF ListsInv
    <3>9. t \notin Listed(zombie_list)
      BY <1>2, <2>1
    <3>10. \A r \in Task \ {t} : Taken(r) \cap Listed(zombie_list) = {}
      BY DEF IInv, OwnedInv
    <3>11. OwnedInv'
      BY <1>2, <1>9, <2>1, <3>3, <3>5, <3>6, <3>9, <3>10 DEF IInv, OwnedInv
    <3>12. Taken(t) = {}
      BY <2>1 DEF Taken, Busy
    <3>13. HeldStep
      BY <3>3, <3>6, <3>12 DEF Held, HeldStep
    <3> QED
      BY <3>8, <3>11, <3>13
  <2> QED
    BY <2>2, <2>3
<1>11. ASSUME NEW t \in Task, ReapFree(t)
       PROVE  ListsInv' /\ OwnedInv' /\ HeldStep
  <2> DEFINE z == frame[t].z
             y == frame[t].next_z
  <2>1. /\ UNCHANGED <<task, current, zombie_list>> /\ frame[t].pc = "free"
        /\ alloc' = alloc \ {z}
        /\ \A r \in Task \ {t} : frame'[r] = frame[r]
        /\ frame'[t].pc = IF y = NULL THEN frame[t].ret ELSE "unlink"
        /\ frame'[t].z = y
    BY <1>1, <1>11 DEF ReapFree, At
  <2>2. z # NULL /\ IsList(z) /\ y = task[z].znext /\ Busy(t) /\ Taken(t) = Listed(z)
    BY <2>1 DEF IInv, ListsInv, Busy, Taken
  <2>3. IsList(y) /\ Listed(z) = {z} \cup Listed(y) /\ z \notin Listed(y)
    BY <2>2, ListFirst
  <2>4. frame[t].ret \in {"run", "exit_mark"}
    BY DEF IInv, ControlInv
  <2> HIDE DEF z, y
  <2>5. \A w : IsList(w) => IsList(w)' /\ Listed(w)' = Listed(w)
    BY <2>1, ListKept
  <2>6. IsList(zombie_list)' /\ Listed(zombie_list)' = Listed(zombie_list)
    BY <2>1, <2>5 DEF IInv, ListsInv
  <2>7. IsList(frame[t].z)' /\ Listed(frame[t].z)' = Listed(y)
    BY <2>1, <2>3, <2>5
  <2>8. /\ Busy(t)' <=> y # NULL
        /\ Taken(t)' = Listed(y)
    BY <2>1, <2>4, <2>7, ListEmpty DEF Busy, Taken
  <2>9. \A r \in Task \ {t} : /\ Busy(r)' <=> Busy(r)
                              /\ Busy(r) => frame'[r].z # NULL /\ IsList(frame[r].z)'
                              /\ Taken(r)' = Taken(r)
    BY <2>1, TakenKept DEF Busy
  <2>10. \A r \in Task : frame'[r].pc = "free" => frame'[r].next_z = task[frame'[r].z].znext
    BY <1>3, <2>1, <2>4
  <2>11. ListsInv'
    BY <2>1, <2>6, <2>7, <2>8, <2>9, <2>10 DEF ListsInv
  <2>12. \A w \in Listed(y) : w \in Taken(t) /\ w # z
    BY <2>2, <2>3
  <2>13. z \in Taken(t)
    BY <2>2, <2>3
  <2>14. /\ z \notin Listed(zombie_list)
         /\ \A r \in Task \ {t} : z \notin Taken(r)
    BY <2>13 DEF IInv, OwnedInv
  <2>15. \A w \in alloc : frame[w].pc = "spin" => frame'[w].pc = "spin"
    BY <1>9
  <2>16. \A r \in Task : Taken(r)' \subseteq Taken(r) /\ z \notin Taken(r)'
    BY <2>8, <2>9, <2>12, <2>14
  <2>17. \A r \in Task : Taken(r) \cap Listed(zombie_list) = {}
                         /\ \A s \in Task \ {r} : Taken(r) \cap Taken(s) = {}
    BY DEF IInv, OwnedInv
  <2>18. OwnedInv'
    BY <1>2, <2>1, <2>6, <2>14, <2>15, <2>16, <2>17 DEF OwnedInv
  <2>19. HeldStep
    BY <2>1, <2>2, <2>3, <2>6, <2>8, <2>9 DEF Held, HeldStep
  <2> QED
    BY <2>11, <2>18, <2>19
<1>12. ASSUME NEW t \in Task, ExitLink(t)
       PROVE  ListsInv' /\ OwnedInv' /\ HeldStep
  <2>1. /\ current = t /\ current' = t /\ alloc' = alloc /\ frame[t].pc = "exit_link"
        /\ zombie_list' = t /\ task'[t].znext = zombie_list
        /\ \A r \in Task \ {t} : frame'[r] = frame[r]
        /\ frame'[t].pc = "spin"
    BY <1>1, <1>12 DEF ExitLink, At, TaskRecord, Frame
  <2>2. t \in alloc /\ t \notin Listed(zombie_list)
    BY <1>2, <2>1, CallFacts DEF IInv, ControlInv
  <2>3. IsList(zombie_list) /\ \A q \in Listed(zombie_list) : task'[q].znext = task[q].znext
    BY <1>2, <1>9 DEF IInv, ListsInv
  <2>4. IsList(t)' /\ Listed(t)' = {t} \cup Listed(zombie_list)
    <3>1. \A y : y = zombie_list => IsList(t)' /\ Listed(t)' = {t} \cup Listed(y)
      BY <2>1, <2>2, <2>3, ListPush
    <3> QED
      BY <3>1
  <2>5. IsList(zombie_list)' /\ Listed(zombie_list)' = {t} \cup Listed(zombie_list)
    BY <2>1, <2>4
  <2>6. \A r \in Task \ {t} : /\ Busy(r)' <=> Busy(r)
                              /\ Busy(r) => frame'[r].z # NULL /\ IsList(frame[r].z)'
                              /\ Taken(r)' = Taken(r)
    BY <2>1, TakenKept DEF Busy
  <2>7. ~ Busy(t)' /\ Taken(t)' = {}
    BY <2>1 DEF Busy, Taken
  <2>8. \A r \in Task : frame'[r].pc = "free" => frame'[r].next_z = task'[frame'[r].z].znext
    <3>1. ASSUME NEW r \in Task, frame'[r].pc = "free"
          PROVE  frame'[r].next_z = task'[frame'[r].z].znext
      <4>1. r # t /\ frame'[r] = frame[r] /\ frame[r].pc = "free" /\ Busy(r)
        BY <2>1, <3>1 DEF Busy
      <4>2. frame[r].z \in Taken(r) /\ frame[r].z \in alloc /\ frame[frame[r].z].pc = "spin"
        BY <1>2, <4>1, UnlinkedFacts DEF IInv
      <4> QED
        BY <1>3, <1>9, <4>1, <4>2
    <3> QED
      BY <3>1
  <2>9. ListsInv'
    BY <2>5, <2>6, <2>7, <2>8 DEF ListsInv
  <2>10. \A r \in Task : t \notin Taken(r) /\ Taken(r) \cap Listed(zombie_list) = {}
                         /\ \A s \in Task \ {r} : Taken(r) \cap Taken(s) = {}
    BY <1>2, <2>1 DEF IInv, OwnedInv
  <2>11. OwnedInv'
    BY <1>2, <1>9, <2>1, <2>2, <2>5, <2>6, <2>7, <2>10 DEF OwnedInv
  <2>12. Taken(t) = {}
    BY <2>1 DEF Taken, Busy
  <2>13. HeldStep
    BY <2>5, <2>6, <2>12 DEF Held, HeldStep
  <2> QED
    BY <2>9, <2>11, <2>13
<1>13. "run" \in {"run", "exit_mark"} /\ "exit_mark" \in {"run", "exit_mark"}
  OBVIOUS
<1> QED
  BY <1>4, <1>5, <1>6, <1>7, <1>8, <1>10, <1>11, <1>12, <1>13
  DEF Next, KernelStep, SystemCall, reap_zombies, task_exit

\* Who has exited and who may be in a system call stays true.
LEMMA ControlStep ==
  ASSUME IInv, [Next]_vars
  PROVE  ControlInv'
<1>1. /\ task \in [Task -> TaskRecord] /\ frame \in [Task -> Frame]
      /\ InitTask \in Task
  BY TaskFacts DEF IInv, TypeOK, TaskRecord
<1>2. ControlInv
  BY DEF IInv
<1>3. CASE schedule_from_isr
  <2>1. UNCHANGED <<alloc, frame>>
    BY <1>3 DEF schedule_from_isr
  <2> QED
    BY <1>1, <1>2, <1>3, <2>1, SwitchEffect DEF ControlInv
<1>4. ASSUME NEW t \in Task, utask_create(t)
      PROVE  ControlInv'
  <2>1. PICK s \in (1 .. Slots) \ alloc : Creates(s)
    BY <1>4, CreateEffect
  <2>2. /\ s \in Task /\ s # InitTask /\ s # task_ring /\ alloc' = alloc \cup {s}
        /\ frame'[s] = NewFrame /\ \A r \in Task \ {s} : frame'[r] = frame[r]
        /\ task'[s].state = "READY"
        /\ \A q \in Task \ {s} : /\ task'[q].state = task[q].state
                                 /\ task'[q].entry = task[q].entry
    BY <1>1, <2>1 DEF Creates, NewTask, TaskRecord
  <2> QED
    BY <1>1, <1>2, <2>2 DEF ControlInv, NewFrame
<1>5. ASSUME NEW t \in Task, NEW ret \in {"run", "exit_mark"}, At(t, "run"),
             ReapBegin(t, ret), task[t].entry # "kmain"
      PROVE  ControlInv'
  <2>1. /\ UNCHANGED <<task, alloc>> /\ frame[t].pc = "run" /\ current = t
        /\ \A r \in Task \ {t} : frame'[r] = frame[r]
        /\ frame'[t].pc = IF zombie_list = NULL THEN ret ELSE "unlink"
        /\ frame'[t].ret = ret
    BY <1>1, <1>5 DEF ReapBegin, At
  <2>2. t # InitTask /\ t \in alloc
    BY <1>2, <1>5, <2>1, CallFacts DEF ControlInv
  <2> QED
    BY <1>1, <1>2, <2>1, <2>2 DEF ControlInv
<1>6. ASSUME NEW t \in Task, ReapUnlink(t)
      PROVE  ControlInv'
  <2>1. PICK i \in 1 .. Len(Ring) : Unlinks(frame[t].z, i)
    BY <1>6, UnlinkEffect
  <2>2. \A q \in Task : task'[q].state = task[q].state /\ task'[q].entry = task[q].entry
    BY <1>1, <2>1 DEF Unlinks, TaskRecord
  <2>3. /\ alloc' = alloc /\ current = t /\ frame[t].pc = "unlink"
        /\ \A r \in Task \ {t} : frame'[r] = frame[r]
        /\ frame'[t].pc = "free" /\ frame'[t].ret = frame[t].ret
    BY <1>1, <1>6 DEF ReapUnlink, At, Frame
  <2>4. t # InitTask /\ t \in alloc
    BY <1>2, <2>3, CallFacts DEF ControlInv
  <2> QED
    BY <1>1, <1>2, <2>2, <2>3, <2>4 DEF ControlInv
<1>7. ASSUME NEW t \in Task, ReapFree(t)
      PROVE  ControlInv'
  <2>1. /\ task' = task /\ alloc' = alloc \ {frame[t].z} /\ current = t
        /\ frame[t].pc = "free"
        /\ \A r \in Task \ {t} : frame'[r] = frame[r]
        /\ frame'[t].pc \in {frame[t].ret, "unlink"} /\ frame'[t].ret = frame[t].ret
    BY <1>1, <1>7 DEF ReapFree, At
  <2>2. t # InitTask /\ t \in alloc
    BY <1>2, <2>1, CallFacts DEF ControlInv
  <2>3. frame[t].z \in Taken(t)
    BY <2>1, UnlinkedFacts DEF IInv, Busy
  <2>4. frame[t].z # t /\ frame[frame[t].z].pc = "spin"
    BY <2>1, <2>3 DEF IInv, OwnedInv
  <2> QED
    BY <1>1, <1>2, <2>1, <2>2, <2>4 DEF ControlInv
<1>8. ASSUME NEW t \in Task, ExitMark(t) \/ ExitLink(t)
      PROVE  ControlInv'
  <2>1. /\ alloc' = alloc /\ current = t
        /\ frame[t].pc \in {"exit_mark", "exit_link"}
        /\ \A r \in Task \ {t} : frame'[r] = frame[r]
        /\ frame'[t].pc \in {"exit_link", "spin"} /\ frame'[t].ret = frame[t].ret
        /\ \A r \in Task \ {t} : task'[r] = task[r]
        /\ ExitMark(t) => task'[t].state = "ZOMBIE"
        /\ ExitLink(t) => frame[t].pc = "exit_link" /\ task'[t].state = task[t].state
    BY <1>1, <1>8 DEF ExitMark, ExitLink, At, Frame, TaskRecord
  <2>2. t # InitTask /\ t \in alloc
    BY <1>2, <2>1, CallFacts DEF ControlInv
  <2>3. task'[t].state = "ZOMBIE"
    BY <1>2, <1>8, <2>1 DEF ControlInv
  <2> QED
    BY <1>1, <1>2, <2>1, <2>2, <2>3 DEF ControlInv
<1>9. CASE UNCHANGED vars
  BY <1>2, <1>9 DEF ControlInv, vars
<1>10. "run" \in {"run", "exit_mark"} /\ "exit_mark" \in {"run", "exit_mark"}
       /\ "kmain" \notin {"program", "zombie_reaper_task"} /\ "program" # "kmain"
  OBVIOUS
<1> QED
  BY <1>3, <1>4, <1>5, <1>6, <1>7, <1>8, <1>9, <1>10
  DEF Next, KernelStep, SystemCall, reap_zombies, task_exit

\* Only utask_create gives a task a pid, and it gives a new one.
LEMMA PidStep ==
  ASSUME IInv, [Next]_vars
  PROVE  \/ /\ \A q \in Task : task'[q].pid = task[q].pid
            /\ alloc' \subseteq alloc /\ next_pid' = next_pid
         \/ \E s \in (1 .. Slots) \ alloc : Creates(s)
<1>1. task \in [Task -> TaskRecord]
  BY DEF IInv, TypeOK, TaskRecord
<1>2. CASE schedule_from_isr
  BY <1>2, SwitchEffect DEF schedule_from_isr
<1>3. ASSUME NEW t \in Task, utask_create(t)
      PROVE  \E s \in (1 .. Slots) \ alloc : Creates(s)
  BY <1>3, CreateEffect
<1>4. ASSUME NEW t \in Task, ReapUnlink(t)
      PROVE  /\ \A q \in Task : task'[q].pid = task[q].pid
             /\ alloc' \subseteq alloc /\ next_pid' = next_pid
  <2>1. PICK i \in 1 .. Len(Ring) : Unlinks(frame[t].z, i)
    BY <1>4, UnlinkEffect
  <2>2. \A q \in Task : task'[q].pid = task[q].pid
    BY <1>1, <2>1 DEF Unlinks, TaskRecord
  <2> QED
    BY <1>4, <2>2 DEF ReapUnlink
<1>5. ASSUME NEW t \in Task, ReapFree(t) \/ ExitMark(t) \/ ExitLink(t)
                             \/ reap_zombies(t) \/ task_exit(t)
      PROVE  /\ \A q \in Task : task'[q].pid = task[q].pid
             /\ alloc' \subseteq alloc /\ next_pid' = next_pid
  BY <1>1, <1>5
  DEF ReapFree, ExitMark, ExitLink, reap_zombies, task_exit, ReapBegin, TaskRecord
<1>6. CASE UNCHANGED vars
  BY <1>6 DEF vars
<1> QED
  BY <1>2, <1>3, <1>4, <1>5, <1>6 DEF Next, KernelStep, SystemCall

\* No two tasks get the same pid.
LEMMA PidsStep ==
  ASSUME IInv, [Next]_vars
  PROVE  PidsInv'
<1>1. /\ task \in [Task -> TaskRecord] /\ InitTask \in Task
      /\ next_pid \in Nat /\ 1 <= next_pid
  BY TaskFacts, BoundsAssumption DEF IInv, TypeOK, TaskRecord
<1>2. \A q \in alloc : q \in Task
  <2>1. alloc \subseteq 1 .. Slots
    BY DEF IInv, TypeOK
  <2> QED
    BY <2>1, TaskFacts, Zenon
<1>3. PidsInv
  BY DEF IInv
<1>4. CASE /\ \A q \in Task : task'[q].pid = task[q].pid
           /\ alloc' \subseteq alloc /\ next_pid' = next_pid
  BY <1>1, <1>2, <1>3, <1>4 DEF PidsInv
<1>5. ASSUME NEW s \in (1 .. Slots) \ alloc, Creates(s)
      PROVE  PidsInv'
  <2>1. /\ s \in Task /\ s # InitTask /\ s \notin alloc /\ s # task_ring
        /\ alloc' = alloc \cup {s} /\ next_pid' = next_pid + 1
        /\ task'[s].pid = next_pid
        /\ \A q \in Task \ {s} : task'[q].pid = task[q].pid
    BY <1>1, <1>5 DEF Creates, NewTask, TaskRecord
  <2>2. \A q \in alloc : /\ task'[q].pid = task[q].pid
                         /\ task[q].pid \in 1 .. next_pid - 1
                         /\ task[q].pid # next_pid
    <3>1. \A p \in 1 .. next_pid - 1 : p # next_pid
      BY <1>1
    <3>2. \A q \in alloc : task[q].pid \in 1 .. next_pid - 1
      BY <1>3 DEF PidsInv
    <3>3. ASSUME NEW q \in alloc PROVE task'[q].pid = task[q].pid
      <4>1. q \in Task \ {s}
        BY <1>2
      <4> QED
        BY <2>1, <4>1
    <3> QED
      BY <3>1, <3>2, <3>3, Zenon
  <2>3. \A p \in 1 .. next_pid - 1 : p \in 1 .. next_pid' - 1
    BY <1>1, <2>1
  <2>4. next_pid \in 1 .. next_pid' - 1
    BY <1>1, <2>1
  <2>5. \A q \in alloc' : task'[q].pid \in 1 .. next_pid' - 1
    BY <2>1, <2>2, <2>3, <2>4
  <2>6. \A q, r \in alloc' : task'[q].pid = task'[r].pid => q = r
    BY <1>3, <2>1, <2>2 DEF PidsInv
  <2> QED
    BY <1>1, <1>3, <2>1, <2>5, <2>6 DEF PidsInv
<1> QED
  BY <1>4, <1>5, PidStep

\* There is only one such sequence.
LEMMA OneCycle == \A r : Cycle(r) => Ring = r
BY CycleIsRing

\* The same sequence is the ring after a step that changes no next pointer.
LEMMA RingKept ==
  ASSUME Cycle(Ring), task_ring' = task_ring,
         \A q \in InRing : task'[q].next = task[q].next
  PROVE  Cycle(Ring)' /\ Ring' = Ring /\ InRing' = InRing
<1>1. \A r : r = Ring => Cycle(r)'
  BY CycleKept
<1>2. (\A r : Cycle(r) => Ring = r)'
  BY OneCycle, PTL
<1>3. \A r : r = Ring => Cycle(r)' /\ Ring' = r
  BY <1>1, <1>2
<1>4. Ring' = Ring
  BY <1>3
<1> QED
  BY <1>3, <1>4 DEF InRing

\* After utask_create the new task is the last of the ring.
LEMMA RingAppended ==
  ASSUME IInv, NEW s, Creates(s)
  PROVE  Cycle(Ring)' /\ Ring' = Append(Ring, s) /\ InRing' = InRing \cup {s}
<1>1. /\ Cycle(Ring) /\ s \in Task /\ s \notin InRing
      /\ task \in [Task -> TaskRecord]
  BY DEF IInv, RingInv, TypeOK, Creates, TaskRecord
<1>2. /\ task_ring' = s /\ task'[s].next = task[task_ring].next
      /\ task'[task_ring].next = s /\ task_ring \in Task
      /\ \A q \in Task \ {s, task_ring} : task'[q] = task[q]
  <2>1. task_ring \in Task
    BY DEF IInv, TypeOK
  <2>2. task[task_ring] \in TaskRecord
    BY <1>1, <2>1
  <2> QED
    BY <2>1, <2>2 DEF Creates, NewTask, TaskRecord
<1>3. \A q \in InRing \ {task_ring} : task'[q].next = task[q].next
  BY <1>1, <1>2, RingFacts
<1>4. \A r, c : r = Ring /\ c = Append(r, s) => Cycle(c)'
  BY <1>1, <1>2, <1>3, CycleAppend
<1>5. (\A r : Cycle(r) => Ring = r)'
  BY OneCycle, PTL
<1>6. \A r, c : r = Ring /\ c = Append(r, s) => Ring' = c
  BY <1>4, <1>5
<1>7. Ring' = Append(Ring, s) /\ Cycle(Ring)'
  <2>1. Ring' = Append(Ring, s)
    BY <1>6, Zenon
  <2>2. \A c : c = Append(Ring, s) => Cycle(c)' /\ Ring' = c
    BY <1>4, <1>6, Zenon
  <2>3. \E c : Cycle(c)' /\ Ring' = c
    BY <2>2, Zenon
  <2>4. Cycle(Ring)'
    BY <2>3
  <2> QED
    BY <2>1, <2>4
<1>8. Ring \in Seq(Task)
  BY <1>1, CycleFacts
<1>9. InRing' = InRing \cup {s}
  <2>1. Range(Append(Ring, s)) = Range(Ring) \cup {s}
    <3>1. \A r \in Seq(Task) : /\ DOMAIN Append(r, s) = DOMAIN r \cup {Len(r) + 1}
                                /\ Append(r, s)[Len(r) + 1] = s
                                /\ \A k \in DOMAIN r : Append(r, s)[k] = r[k]
      BY <1>1
    <3> DEFINE c == Append(Ring, s)
               d == Ring
    <3>2. /\ DOMAIN c = DOMAIN d \cup {Len(d) + 1} /\ c[Len(d) + 1] = s
          /\ \A k \in DOMAIN d : c[k] = d[k]
      BY <1>8, <3>1
    <3> HIDE DEF c, d
    <3>3. Range(c) = Range(d) \cup {s}
      BY <3>2 DEF Range
    <3> QED
      BY <3>3 DEF c, d
  <2> QED
    BY <1>7, <2>1 DEF InRing
<1> QED
  BY <1>7, <1>9

\* The elements of a sequence of different elements without the i-th.
LEMMA WithoutRange ==
  ASSUME NEW S, NEW r \in Seq(S), NEW i \in 1 .. Len(r),
         \A k, j \in 1 .. Len(r) : r[k] = r[j] => k = j
  PROVE  Range(Without(r, i)) = Range(r) \ {r[i]}
<1> DEFINE n == Len(r)
           w == Without(r, i)
<1>1. n \in Nat /\ DOMAIN r = 1 .. n
  OBVIOUS
<1>2. /\ w \in Seq(S) /\ Len(w) = n - 1
      /\ \A k \in 1 .. n - 1 : w[k] = IF k < i THEN r[k] ELSE r[k + 1]
  BY WithoutElements
<1> HIDE DEF w, n
<1>3. DOMAIN w = 1 .. n - 1
  BY <1>2
<1>4. i \in 1 .. n
  BY DEF n
<1>5. ASSUME NEW k \in 1 .. n - 1
      PROVE  w[k] \in Range(r) \ {r[i]}
  <2>1. /\ k < i => w[k] = r[k] /\ k \in 1 .. n /\ k # i
        /\ ~ (k < i) => w[k] = r[k + 1] /\ k + 1 \in 1 .. n /\ k + 1 # i
    BY <1>1, <1>2, <1>4
  <2>2. PICK j \in 1 .. n : w[k] = r[j] /\ j # i
    BY <2>1
  <2> QED
    BY <1>1, <1>4, <2>2 DEF Range, n
<1>6. ASSUME NEW j \in 1 .. n, j # i
      PROVE  r[j] \in Range(w)
  <2>1. CASE j < i
    <3>1. j \in 1 .. n - 1 /\ w[j] = r[j]
      BY <1>1, <1>2, <1>4, <2>1
    <3> QED
      BY <1>3, <3>1 DEF Range
  <2>2. CASE ~ (j < i)
    <3>1. j - 1 \in 1 .. n - 1 /\ ~ (j - 1 < i) /\ (j - 1) + 1 = j
      BY <1>1, <1>4, <1>6, <2>2
    <3>2. w[j - 1] = r[j]
      BY <1>2, <3>1
    <3> QED
      BY <1>3, <3>1, <3>2 DEF Range
  <2> QED
    BY <2>1, <2>2
<1>7. Range(w) = {w[k] : k \in 1 .. n - 1} /\ Range(r) = {r[k] : k \in 1 .. n}
  BY <1>1, <1>3 DEF Range
<1> QED
  BY <1>5, <1>6, <1>7 DEF w

\* After unlink_from_ring the ring is the same without the zombie.
LEMMA RingUnlinked ==
  ASSUME IInv, NEW z, NEW i \in 1 .. Len(Ring), Unlinks(z, i)
  PROVE  Cycle(Ring)' /\ Ring' = Without(Ring, i) /\ InRing' = InRing \ {z}
<1>1. /\ Cycle(Ring) /\ task \in [Task -> TaskRecord] /\ Ring[i] = z /\ Len(Ring) # 1
      /\ Before(Ring, i) \in Task /\ z \in Task
      /\ task_ring' = IF task_ring = z THEN Before(Ring, i) ELSE task_ring
  BY DEF IInv, RingInv, TypeOK, Unlinks, TaskRecord
<1>2. /\ task'[Before(Ring, i)].next = task[z].next
      /\ \A q \in Task \ {Before(Ring, i)} : task'[q].next = task[q].next
  <2>1. task[Before(Ring, i)] \in TaskRecord
    BY <1>1
  <2> DEFINE b == Before(Ring, i)
  <2>2. task' = [task EXCEPT ![b].next = task[z].next]
    BY DEF Unlinks
  <2> HIDE DEF b
  <2> QED
    BY <1>1, <2>1, <2>2 DEF TaskRecord, b
<1>3. \A q \in InRing \ {Before(Ring, i)} : task'[q].next = task[q].next
  BY <1>2, RingFacts
<1>4. \A r : r = Ring => Cycle(Without(r, i))'
  BY <1>1, <1>2, <1>3, CycleUnlink
<1>5. (\A r : Cycle(r) => Ring = r)'
  BY OneCycle, PTL
<1>6. \A r : r = Ring => Ring' = Without(r, i)
  BY <1>4, <1>5
<1>7. Ring' = Without(Ring, i) /\ Cycle(Ring)'
  BY <1>4, <1>6
<1>8. /\ Ring \in Seq(Task)
      /\ \A k, j \in 1 .. Len(Ring) : Ring[k] = Ring[j] => k = j
  BY <1>1, CycleFacts
<1>9. Range(Without(Ring, i)) = Range(Ring) \ {z}
  BY <1>1, <1>8, WithoutRange
<1> QED
  BY <1>7, <1>9 DEF InRing

\* A step at which no reaper unlinks or releases a zombie.
LEMMA UnlinkedKept ==
  ASSUME \A r \in Task : /\ frame'[r].pc = "free" <=> frame[r].pc = "free"
                         /\ frame[r].pc = "free" => frame'[r].z = frame[r].z
  PROVE  Unlinked' = Unlinked
BY DEF Unlinked

\* The ring is one cycle of the right tasks after every step.
LEMMA RingStep ==
  ASSUME IInv, [Next]_vars
  PROVE  RingInv'
<1>1. /\ task \in [Task -> TaskRecord] /\ frame \in [Task -> Frame]
      /\ Cycle(Ring) /\ InRing \subseteq Task
      /\ InRing = ({InitTask} \cup alloc) \ Unlinked
      /\ current # NULL => current \in InRing
  BY RingFacts DEF IInv, TypeOK, RingInv, TaskRecord
<1>2. CASE schedule_from_isr
  <2>1. UNCHANGED <<task_ring, alloc, frame>>
    BY <1>2 DEF schedule_from_isr
  <2>2. Cycle(Ring)' /\ InRing' = InRing
    BY <1>1, <1>2, <2>1, SwitchEffect, RingKept
  <2>3. Unlinked' = Unlinked
    BY <2>1, UnlinkedKept
  <2> QED
    BY <1>1, <1>2, <2>1, <2>2, <2>3, SwitchEffect DEF RingInv
<1>3. ASSUME NEW t \in Task, utask_create(t)
      PROVE  RingInv'
  <2>1. PICK s \in (1 .. Slots) \ alloc : Creates(s)
    BY <1>3, CreateEffect
  <2>2. Cycle(Ring)' /\ InRing' = InRing \cup {s}
    BY <2>1, RingAppended
  <2>3. /\ alloc' = alloc \cup {s} /\ current' = current /\ s \in Task
        /\ frame'[s].pc = "run" /\ s \notin alloc \cup {InitTask}
        /\ \A r \in Task \ {s} : frame'[r] = frame[r]
    BY <1>1, <2>1 DEF Creates, NewFrame
  <2>4. frame[s].pc \in {"run", "spin"}
    BY <2>3 DEF IInv, ControlInv
  <2>5. Unlinked' = Unlinked
    BY <2>3, <2>4, UnlinkedKept
  <2>6. s \notin Unlinked
    BY <2>3, UnlinkedFacts DEF IInv
  <2> QED
    BY <1>1, <2>2, <2>3, <2>5, <2>6 DEF RingInv
<1>4. ASSUME NEW t \in Task, NEW ret \in {"run", "exit_mark"}, At(t, "run"),
             ReapBegin(t, ret)
      PROVE  RingInv'
  <2>1. /\ UNCHANGED <<task_ring, task, current, alloc>> /\ frame[t].pc = "run"
        /\ \A r \in Task \ {t} : frame'[r] = frame[r]
        /\ frame'[t].pc = IF zombie_list = NULL THEN ret ELSE "unlink"
    BY <1>1, <1>4 DEF ReapBegin, At
  <2>2. Cycle(Ring)' /\ InRing' = InRing
    BY <1>1, <2>1, RingKept
  <2>3. Unlinked' = Unlinked
    BY <2>1, UnlinkedKept
  <2> QED
    BY <1>1, <2>1, <2>2, <2>3 DEF RingInv
<1>5. ASSUME NEW t \in Task, ReapUnlink(t)
      PROVE  RingInv'
  <2> DEFINE z == frame[t].z
  <2>1. PICK i \in 1 .. Len(Ring) : Unlinks(z, i)
    BY <1>5, UnlinkEffect
  <2>2. Cycle(Ring)' /\ InRing' = InRing \ {z}
    BY <2>1, RingUnlinked
  <2>3. /\ UNCHANGED <<current, alloc>> /\ current = t /\ frame[t].pc = "unlink"
        /\ \A r \in Task \ {t} : frame'[r] = frame[r]
        /\ frame'[t].pc = "free" /\ frame'[t].z = z
    BY <1>1, <1>5 DEF ReapUnlink, At, Frame
  <2>4. z # t
    <3>1. z \in Taken(t)
      BY <2>3, UnlinkedFacts DEF IInv, Busy
    <3> QED
      BY <2>3, <3>1 DEF IInv, OwnedInv
  <2> HIDE DEF z
  <2>5. Unlinked' = Unlinked \cup {z}
    BY <2>3 DEF Unlinked
  <2> QED
    BY <1>1, <2>2, <2>3, <2>4, <2>5 DEF RingInv
<1>6. ASSUME NEW t \in Task, ReapFree(t)
      PROVE  RingInv'
  <2> DEFINE z == frame[t].z
  <2>1. /\ UNCHANGED <<task_ring, task, current>> /\ alloc' = alloc \ {z}
        /\ current = t /\ frame[t].pc = "free"
        /\ \A r \in Task \ {t} : frame'[r] = frame[r]
        /\ frame'[t].pc \in {frame[t].ret, "unlink"}
    BY <1>1, <1>6 DEF ReapFree, At
  <2>2. Cycle(Ring)' /\ InRing' = InRing
    BY <1>1, <2>1, RingKept
  <2>3. frame'[t].pc # "free"
    BY <2>1 DEF IInv, ControlInv
  <2>4. z \in Taken(t) /\ z \in Unlinked /\ z # InitTask
    BY <2>1, UnlinkedFacts DEF IInv, Busy, Unlinked
  <2>5. \A r \in Task \ {t} : frame[r].pc = "free" => frame[r].z # z
    <3>1. \A r \in Task \ {t} : frame[r].pc = "free" => frame[r].z \in Taken(r)
      BY UnlinkedFacts DEF IInv, Busy
    <3>2. \A r \in Task \ {t} : Taken(t) \cap Taken(r) = {}
      BY DEF IInv, OwnedInv
    <3> QED
      BY <2>4, <3>1, <3>2
  <2> HIDE DEF z
  <2>6. Unlinked' = Unlinked \ {z}
    <3>1. \A r \in Task : frame[r].pc = "free" /\ frame[r].z # z => r # t
      BY DEF z
    <3> QED
      BY <2>1, <2>3, <2>5, <3>1 DEF Unlinked
  <2> QED
    BY <1>1, <2>1, <2>2, <2>4, <2>6 DEF RingInv
<1>7. ASSUME NEW t \in Task, ExitMark(t) \/ ExitLink(t)
      PROVE  RingInv'
  <2>1. /\ UNCHANGED <<task_ring, current, alloc>>
        /\ frame[t].pc \in {"exit_mark", "exit_link"}
        /\ \A r \in Task \ {t} : frame'[r] = frame[r]
        /\ frame'[t].pc \in {"exit_link", "spin"}
        /\ \A r \in Task : task'[r].next = task[r].next
    <3>1. \A r \in Task : task'[r].next = task[r].next
      BY <1>1, <1>7 DEF ExitMark, ExitLink, TaskRecord
    <3>2. frame[t] \in Frame /\ DOMAIN frame = Task
      BY <1>1
    <3> QED
      BY <1>7, <3>1, <3>2 DEF ExitMark, ExitLink, At, Frame
  <2>2. Cycle(Ring)' /\ InRing' = InRing
    BY <1>1, <2>1, RingKept
  <2>3. Unlinked' = Unlinked
    BY <2>1, UnlinkedKept
  <2> QED
    BY <1>1, <2>1, <2>2, <2>3 DEF RingInv
<1>8. CASE UNCHANGED vars
  <2>1. Cycle(Ring)' /\ InRing' = InRing
    BY <1>1, <1>8, RingKept DEF vars
  <2>2. Unlinked' = Unlinked
    BY <1>8, UnlinkedKept DEF vars
  <2> QED
    BY <1>1, <1>8, <2>1, <2>2 DEF RingInv, vars
<1>9. "run" \in {"run", "exit_mark"} /\ "exit_mark" \in {"run", "exit_mark"}
  OBVIOUS
<1> QED
  BY <1>2, <1>3, <1>4, <1>5, <1>6, <1>7, <1>8, <1>9
  DEF Next, KernelStep, SystemCall, reap_zombies, task_exit

\* The invariant holds when scheduler_init and tasks_init have run.
LEMMA InitInv == Init => IInv
<1> SUFFICES ASSUME Init PROVE IInv
  OBVIOUS
<1>1. /\ 0 \in Task /\ 1 \in Task /\ 2 \in Task /\ 3 \in Task
      /\ NULL \in Pointer /\ NULL \notin Task /\ Task \subseteq Pointer /\ 1 .. 3 \subseteq 1 .. Slots
      /\ {0} \cup (1 .. 3) = {0, 1, 2, 3} /\ 1 .. 3 = {1, 2, 3}
  BY BoundsAssumption DEF Task, NULL, Pointer
<1>2. /\ task[0] = [pid |-> 0, state |-> "RUNNING", next |-> 1, znext |-> NULL, entry |-> "kmain"]
      /\ task[1] = [pid |-> 1, state |-> "READY", next |-> 2, znext |-> NULL, entry |-> "user_task1"]
      /\ task[2] = [pid |-> 2, state |-> "READY", next |-> 3, znext |-> NULL, entry |-> "program"]
      /\ task[3] = [pid |-> 3, state |-> "READY", next |-> 0, znext |-> NULL,
                    entry |-> "zombie_reaper_task"]
      /\ \A t \in Task \ {0, 1, 2, 3} :
           task[t] = [pid |-> 0, state |-> "READY", next |-> NULL, znext |-> NULL, entry |-> "program"]
      /\ DOMAIN task = Task /\ task = [t \in Task |-> task[t]]
  BY <1>1 DEF Init, NewTask, InitTask
<1>3. TypeOK
  <2>1. \A t \in Task : task[t] \in TaskRecord
    BY <1>1, <1>2, BoundsAssumption DEF TaskRecord, Runnable, Entries
  <2>2. task \in [Task -> TaskRecord]
    BY <1>2, <2>1
  <2>3. NewFrame \in Frame
    BY <1>1, PCsFacts DEF NewFrame, Frame
  <2>4. frame \in [Task -> Frame]
    BY <2>3 DEF Init
  <2>5. next_pid \in 4 .. MaxPid + 1
    BY BoundsAssumption DEF Init
  <2>6. /\ task_ring \in Task /\ current \in Pointer /\ zombie_list \in Pointer
        /\ alloc \subseteq 1 .. Slots
    BY <1>1 DEF Init
  <2> QED
    BY <2>2, <2>4, <2>5, <2>6 DEF TypeOK, TaskRecord
<1>4. /\ \A t \in Task : frame[t] = NewFrame /\ frame[t].pc = "run" /\ frame[t].ret = "run"
      /\ \A t \in Task : ~ Busy(t) /\ Taken(t) = {}
      /\ Unlinked = {}
  BY DEF Init, NewFrame, Busy, Taken, Unlinked
<1>5. RingInv
  <2> DEFINE r == <<0, 1, 2, 3>>
  <2>1. Cycle(r)
    BY <1>1, <1>2 DEF Cycle, Init
  <2>2. Ring = r
    BY <2>1, OneCycle
  <2>3. Range(r) = {0, 1, 2, 3}
    BY DEF Range
  <2> QED
    BY <1>1, <1>4, <2>1, <2>2, <2>3 DEF RingInv, InRing, Init, InitTask
<1>6. IsList(zombie_list) /\ Listed(zombie_list) = {}
  BY ListEmpty DEF Init
<1>7. ListsInv /\ OwnedInv
  BY <1>4, <1>6 DEF ListsInv, OwnedInv
<1>8. ControlInv
  BY <1>1, <1>2, <1>4 DEF ControlInv, InitTask
<1>9. PidsInv
  BY <1>1, <1>2 DEF PidsInv, InitTask, Init
<1> QED
  BY <1>3, <1>5, <1>7, <1>8, <1>9 DEF IInv

\* Whatever tasks do and whenever the timer comes, the invariant holds.
THEOREM Invariance == Spec => []IInv
<1>1. IInv /\ [Next]_vars => IInv'
  BY TypeStep, RingStep, ListsStep, ControlStep, PidsStep DEF IInv
<1> QED
  BY <1>1, InitInv, PTL DEF Spec

-----------------------------------------------------------------------------
\* What the invariant says of the scheduler.

\* The ring that the timer walks is one cycle of the tasks that exist.
THEOREM RingIsIntact == Spec => []RingIntact
<1>1. IInv => RingIntact
  <2> SUFFICES ASSUME IInv PROVE RingIntact
    OBVIOUS
  <2>1. Cycle(Ring) /\ TypeOK
    BY DEF IInv, RingInv
  <2>2. /\ Ring[Len(Ring)] = task_ring /\ DOMAIN Ring = 1 .. Len(Ring)
        /\ \A i, j \in 1 .. Len(Ring) : Ring[i] = Ring[j] => i = j
    BY <2>1, CycleFacts
  <2>3. IsInjective(Ring)
    BY <2>2 DEF IsInjective
  <2>4. InRing = ({InitTask} \cup alloc) \ Unlinked
    BY DEF IInv, RingInv
  <2> QED
    BY <2>1, <2>2, <2>3, <2>4 DEF RingIntact, Unlinked
<1> QED
  BY <1>1, Invariance, PTL

\* A zombie belongs to one list or one reaper, and is not in use.
THEOREM ZombiesAreOwnedOnce == Spec => []ZombiesOwnedOnce
<1>1. IInv => ZombiesOwnedOnce
  <2> SUFFICES ASSUME IInv PROVE ZombiesOwnedOnce
    OBVIOUS
  <2>1. \A t \in Task : Reaping(t) = Taken(t)
    BY ReapingIsTaken DEF IInv
  <2>2. \A t \in Task : frame[t].pc = "spin" => task[t].state = "ZOMBIE"
    BY DEF IInv, ControlInv
  <2>3. \A t \in alloc : t \in Task
    <3>1. alloc \subseteq 1 .. Slots
      BY DEF IInv, TypeOK
    <3> QED
      BY <3>1, TaskFacts, Zenon
  <2> QED
    BY <2>1, <2>2, <2>3 DEF IInv, OwnedInv, ZombiesOwnedOnce
<1> QED
  BY <1>1, Invariance, PTL

\* The loop of task_is_alive finds the only task of the ring it looks for.
LEMMA FindOnly ==
  ASSUME IInv, NEW tasks, NEW t \in InRing, t \in tasks,
         \A q \in InRing : q \in tasks => q = t
  PROVE  Find(task[task_ring].next, tasks) = t
<1> DEFINE n == Len(Ring)
<1>1. /\ n \in Nat /\ n \in 1 .. Slots + 1
      /\ Ring \in [1 .. n -> Task] /\ InRing = {Ring[k] : k \in 1 .. n}
      /\ Ring[n] = task_ring
      /\ \A k, j \in 1 .. n : Ring[k] = Ring[j] => k = j
      /\ \A k \in 1 .. n : task[Ring[k]].next = IF k = n THEN Ring[1] ELSE Ring[k + 1]
  BY CycleFacts DEF IInv, RingInv
<1> HIDE DEF n
<1>2. PICK L \in 1 .. n : Ring[L] = t
  BY <1>1
<1> DEFINE s == [k \in 1 .. L |-> Ring[k]]
<1>3. L \in 1 .. Slots + 1 /\ s \in [1 .. L -> Task] /\ s[1] = Ring[1] /\ s[L] = t
  BY <1>1, <1>2, BoundsAssumption
<1>4. ASSUME NEW k \in 1 .. L - 1
      PROVE  task[s[k]].next = s[k + 1] /\ s[k] \notin tasks
  <2>1. k \in 1 .. L /\ k + 1 \in 1 .. L /\ k \in 1 .. n /\ k # n /\ k # L
    BY <1>1, <1>2
  <2>2. s[k] = Ring[k] /\ s[k + 1] = Ring[k + 1]
    BY <2>1
  <2> HIDE DEF s
  <2>3. Ring[k] # t /\ Ring[k] \in InRing
    BY <1>1, <1>2, <2>1
  <2> QED
    BY <1>1, <2>1, <2>2, <2>3
<1>5. Find(s[1], tasks) = s[L]
  <2> HIDE DEF s
  <2> QED
    BY <1>3, <1>4, FindHit
<1>6. task[task_ring].next = Ring[1]
  BY <1>1
<1> QED
  BY <1>3, <1>5, <1>6

\* A task of the ring is init_task or has a pid of its own, other than 0.
LEMMA RingPids ==
  ASSUME IInv
  PROVE  /\ \A t, r \in InRing : task[t].pid = task[r].pid => t = r
         /\ \A t \in InRing : t = InitTask \/ t \in alloc
         /\ \A t \in InRing : task[t].pid \in 0 .. next_pid - 1
         /\ \A t \in InRing : t # InitTask => task[t].pid # 0
         /\ task[InitTask].pid = 0
<1>1. \A t \in InRing : t = InitTask \/ t \in alloc
  BY DEF IInv, RingInv
<1>2. task[InitTask].pid = 0 /\ next_pid \in Nat /\ 4 <= next_pid
  BY BoundsAssumption DEF IInv, PidsInv, TypeOK
<1>3. \A t \in alloc : task[t].pid # 0 /\ task[t].pid \in 0 .. next_pid - 1
  <2>1. \A p \in 1 .. next_pid - 1 : p # 0 /\ p \in 0 .. next_pid - 1
    BY <1>2
  <2> QED
    BY <2>1 DEF IInv, PidsInv
<1>4. \A t, r \in alloc : task[t].pid = task[r].pid => t = r
  BY DEF IInv, PidsInv
<1>5. 0 \in 0 .. next_pid - 1
  BY <1>2
<1> QED
  BY <1>1, <1>2, <1>3, <1>4, <1>5

\* A task that has left the ring has exited.
LEMMA OutsideIsZombie ==
  ASSUME IInv, NEW t \in alloc, t \notin InRing
  PROVE  task[t].state = "ZOMBIE"
<1>1. t \in Unlinked
  BY DEF IInv, RingInv
<1>2. PICK r \in Task : frame[r].pc = "free" /\ t = frame[r].z
  BY <1>1 DEF Unlinked
<1>3. t \in Taken(r)
  BY <1>2, UnlinkedFacts DEF IInv, Busy
<1>4. frame[t].pc = "spin"
  BY <1>3 DEF IInv, OwnedInv
<1>5. t \in Task
  <2>1. alloc \subseteq 1 .. Slots
    BY DEF IInv, TypeOK
  <2> QED
    BY <2>1, TaskFacts, Zenon
<1> QED
  BY <1>4, <1>5 DEF IInv, ControlInv

\* task_is_alive tells the truth in every state of the invariant.
LEMMA AliveMeans ==
  IInv => \A p \in 1 .. MaxPid :
            task_is_alive(p) <=> \E t \in alloc : task[t].pid = p /\ task[t].state # "ZOMBIE"
<1> SUFFICES ASSUME IInv, NEW p \in 1 .. MaxPid
             PROVE  task_is_alive(p) <=>
                      \E t \in alloc : task[t].pid = p /\ task[t].state # "ZOMBIE"
  OBVIOUS
<1> DEFINE tasks == {t \in Task : task[t].pid = p}
           found == Find(task[task_ring].next, tasks)
<1>1. task_is_alive(p) <=> found # NULL /\ task[found].state # "ZOMBIE"
  BY DEF task_is_alive
<1>2. p # 0
  BY BoundsAssumption
<1>3. InRing \subseteq Task /\ task[task_ring].next \in InRing
      /\ \A q \in InRing : task[q].next \in InRing
  BY RingFacts
<1> HIDE DEF found
<1>4. CASE \E t \in InRing : task[t].pid = p
  <2>1. PICK t \in InRing : task[t].pid = p
    BY <1>4
  <2>2. t \in tasks /\ t \in Task /\ t # NULL
    BY <1>3, <2>1, TaskFacts
  <2>3. \A q \in InRing : q \in tasks => q = t
    BY <2>1, RingPids
  <2>4. found = t
    <3> HIDE DEF tasks
    <3> QED
      BY <2>2, <2>3, FindOnly DEF found
  <2>5. t \in alloc
    BY <1>2, <2>1, RingPids
  <2>6. \A r \in alloc : task[r].pid = p => r = t
    BY <2>1, <2>5 DEF IInv, PidsInv
  <2> QED
    BY <1>1, <2>1, <2>2, <2>4, <2>5, <2>6
<1>5. CASE ~ \E t \in InRing : task[t].pid = p
  <2>1. found = NULL
    <3>1. found \in (InRing \cap tasks) \cup {NULL}
      <4> HIDE DEF tasks
      <4> QED
        BY <1>3, FindInside DEF found
    <3> QED
      BY <1>5, <3>1
  <2>2. \A t \in alloc : task[t].pid = p => task[t].state = "ZOMBIE"
    BY <1>5, OutsideIsZombie
  <2> QED
    BY <1>1, <2>1, <2>2
<1> QED
  BY <1>4, <1>5

\* The answer of task_is_alive is exact.
THEOREM AliveAnswersAreExact == Spec => []AliveIsExact
<1>1. IInv => AliveIsExact
  BY AliveMeans DEF AliveIsExact
<1> QED
  BY <1>1, Invariance, PTL

\* A task that has exited does not come back, unless its memory is given to a
\* new task: no statement makes a zombie ready.
LEMMA ZombieStep ==
  ASSUME IInv, [Next]_vars, NEW q \in alloc, task[q].state = "ZOMBIE"
  PROVE  task'[q].state = "ZOMBIE"
<1>1. /\ task \in [Task -> TaskRecord] /\ frame \in [Task -> Frame]
      /\ alloc \subseteq 1 .. Slots
  BY DEF IInv, TypeOK, TaskRecord
<1>2. q \in Task
  BY <1>1, TaskFacts, Zenon
<1>3. CASE schedule_from_isr
  BY <1>2, <1>3, SwitchEffect
<1>4. ASSUME NEW t \in Task, utask_create(t)
      PROVE  task'[q].state = "ZOMBIE"
  <2>1. PICK s \in (1 .. Slots) \ alloc : Creates(s)
    BY <1>4, CreateEffect
  <2>2. q # s
    OBVIOUS
  <2> QED
    BY <1>1, <1>2, <2>1, <2>2 DEF Creates, TaskRecord
<1>5. ASSUME NEW t \in Task, ReapUnlink(t)
      PROVE  task'[q].state = "ZOMBIE"
  <2>1. PICK i \in 1 .. Len(Ring) : Unlinks(frame[t].z, i)
    BY <1>5, UnlinkEffect
  <2> QED
    BY <1>1, <1>2, <2>1 DEF Unlinks, TaskRecord
<1>6. ASSUME NEW t \in Task, ReapFree(t) \/ ExitMark(t) \/ ExitLink(t)
                             \/ reap_zombies(t) \/ task_exit(t)
      PROVE  task'[q].state = "ZOMBIE"
  BY <1>1, <1>2, <1>6
  DEF ReapFree, ExitMark, ExitLink, reap_zombies, task_exit, ReapBegin, TaskRecord
<1>7. CASE UNCHANGED vars
  BY <1>7 DEF vars
<1> QED
  BY <1>3, <1>4, <1>5, <1>6, <1>7 DEF Next, KernelStep, SystemCall

\* Once task_is_alive has said that a pid has ended, it stays with it.
THEOREM DeadTasksStayDead == Spec => DeadStaysDead
<1>1. IInv => AliveIsExact
  BY AliveMeans DEF AliveIsExact
<1>2. IInv' => AliveIsExact'
  BY <1>1, PTL
<1>3. ASSUME IInv, IInv', [Next]_vars, NEW p \in 1 .. next_pid - 1, ~ task_is_alive(p)
      PROVE  ~ task_is_alive(p)'
  <2>1. p \in 1 .. MaxPid /\ next_pid \in Nat /\ p # next_pid
    BY <1>3, BoundsAssumption DEF IInv, TypeOK
  <2>2. \A t \in alloc : task[t].pid = p => task[t].state = "ZOMBIE"
    BY <1>1, <1>3, <2>1 DEF AliveIsExact
  <2>3. /\ task_is_alive(p)' => \E t \in alloc' : task'[t].pid = p /\ task'[t].state # "ZOMBIE"
    BY <1>2, <1>3, <2>1 DEF AliveIsExact
  <2>4. \A t \in alloc : t \in Task
    <3>1. alloc \subseteq 1 .. Slots
      BY <1>3 DEF IInv, TypeOK
    <3> QED
      BY <3>1, TaskFacts, Zenon
  <2>5. \A t \in alloc : task[t].state = "ZOMBIE" => task'[t].state = "ZOMBIE"
    BY <1>3, ZombieStep
  <2>6. CASE /\ \A q \in Task : task'[q].pid = task[q].pid
             /\ alloc' \subseteq alloc /\ next_pid' = next_pid
    BY <2>2, <2>3, <2>4, <2>5, <2>6
  <2>7. ASSUME NEW s \in (1 .. Slots) \ alloc, Creates(s)
        PROVE  ~ task_is_alive(p)'
    <3>1. task \in [Task -> TaskRecord]
      BY <1>3 DEF IInv, TypeOK, TaskRecord
    <3>2. /\ s \in Task /\ alloc' = alloc \cup {s} /\ task'[s].pid = next_pid
          /\ \A q \in Task \ {s} : task'[q].pid = task[q].pid
      BY <2>7, <3>1 DEF Creates, NewTask, TaskRecord
    <3>3. \A q \in alloc : task'[q].pid = task[q].pid
      BY <2>4, <3>2, Zenon
    <3> QED
      BY <2>1, <2>2, <2>3, <2>5, <3>2, <3>3
  <2> QED
    BY <1>3, <2>6, <2>7, PidStep
<1>4. IInv /\ IInv' /\ [Next]_vars
        => [\A p \in 1 .. next_pid - 1 : ~ task_is_alive(p) => ~ task_is_alive(p)']_vars
  BY <1>3
<1> QED
  BY <1>4, Invariance, PTL DEF Spec, DeadStaysDead

\* The zombies that wait are those that the lists hold.
LEMMA WaitingIsHeld == IInv => \A t : t \in Waiting <=> Held(t)
<1> SUFFICES ASSUME IInv, NEW t PROVE t \in Waiting <=> Held(t)
  OBVIOUS
<1>1. \A r \in Task : Reaping(r) = Taken(r)
  BY ReapingIsTaken DEF IInv
<1> QED
  BY <1>1 DEF Waiting, Held

\* No zombie is forgotten between task_exit and free_task_resources.
THEOREM NoZombieIsForgotten == Spec => NoneForgotten
<1>1. (IInv => \A t : t \in Waiting <=> Held(t))'
  BY WaitingIsHeld, PTL
<1>2. ASSUME IInv, IInv', [Next]_vars
      PROVE  \A t \in Waiting : t \in Waiting' \/ t \notin alloc'
  <2>1. \A t : Held(t) => Held(t)' \/ t \notin alloc'
    BY <1>2, ListsStep DEF HeldStep
  <2>2. \A t : t \in Waiting' <=> Held(t)'
    BY <1>1, <1>2
  <2> QED
    BY <1>2, <2>1, <2>2, WaitingIsHeld
<1>3. IInv /\ IInv' /\ [Next]_vars
        => [\A t \in Waiting : t \in Waiting' \/ t \notin alloc']_vars
  BY <1>2
<1> QED
  BY <1>3, Invariance, PTL DEF Spec, NoneForgotten

-----------------------------------------------------------------------------
\* The pointers implement the table of tasks.

\* st is what TaskTable calls the status of the pids.
StatusIs(st) ==
  /\ st = [p \in 0 .. MaxPid |-> st[p]]
  /\ \A p \in 0 .. MaxPid : p >= next_pid => st[p] = "unborn"
  /\ \A q \in InRing :
       st[task[q].pid] = IF task[q].state = "ZOMBIE" THEN "zombie" ELSE "live"
  /\ \A p \in 0 .. next_pid - 1 : (\A q \in InRing : task[q].pid # p) => st[p] = "gone"

\* A pid that has been handed out is in the range of the table.
LEMMA PidRange ==
  ASSUME IInv
  PROVE  /\ next_pid \in Nat /\ MaxPid \in Nat /\ 4 <= next_pid /\ next_pid <= MaxPid + 1
         /\ \A q \in InRing : /\ task[q].pid \in 0 .. MaxPid /\ task[q].pid < next_pid
                              /\ task[q].pid \in 0 .. next_pid - 1
<1>1. next_pid \in Nat /\ MaxPid \in Nat /\ 4 <= next_pid /\ next_pid <= MaxPid + 1
  BY BoundsAssumption DEF IInv, TypeOK
<1>2. \A p \in 0 .. next_pid - 1 : p \in 0 .. MaxPid /\ p < next_pid
  BY <1>1
<1> QED
  BY <1>1, <1>2, RingPids

\* PidStatus says of a task of the ring whether it has exited.
LEMMA StatusFacts == IInv => StatusIs(PidStatus)
<1> SUFFICES ASSUME IInv PROVE StatusIs(PidStatus)
  OBVIOUS
<1> DEFINE StateOf(p) == {task[t].state : t \in {r \in InRing : task[r].pid = p}}
           Of(p) == IF p >= next_pid THEN "unborn"
                    ELSE IF StateOf(p) = {} THEN "gone"
                    ELSE IF StateOf(p) = {"ZOMBIE"} THEN "zombie" ELSE "live"
<1>1. PidStatus = [p \in 0 .. MaxPid |-> Of(p)]
  BY DEF PidStatus
<1>2. \A p \in 0 .. MaxPid : p >= next_pid => PidStatus[p] = "unborn"
  <2> HIDE DEF StateOf
  <2> QED
    BY <1>1
<1>3. ASSUME NEW q \in InRing
      PROVE  PidStatus[task[q].pid] = IF task[q].state = "ZOMBIE" THEN "zombie" ELSE "live"
  <2> DEFINE p == task[q].pid
  <2>1. p \in 0 .. MaxPid /\ ~ (p >= next_pid)
    BY PidRange
  <2>2. \A r \in InRing : task[r].pid = p => r = q
    BY RingPids
  <2>3. StateOf(p) = {task[q].state}
    BY <2>2
  <2> HIDE DEF p, StateOf
  <2>4. PidStatus[p] = Of(p)
    BY <1>1, <2>1
  <2> QED
    BY <2>1, <2>3, <2>4 DEF p
<1>4. ASSUME NEW p \in 0 .. next_pid - 1, \A q \in InRing : task[q].pid # p
      PROVE  PidStatus[p] = "gone"
  <2>1. p \in 0 .. MaxPid /\ ~ (p >= next_pid)
    BY PidRange
  <2>2. StateOf(p) = {}
    BY <1>4
  <2> HIDE DEF StateOf
  <2> QED
    BY <1>1, <2>1, <2>2
<1>5. PidStatus = [p \in 0 .. MaxPid |-> PidStatus[p]]
  <2> HIDE DEF Of
  <2> QED
    BY <1>1
<1> QED
  BY <1>2, <1>3, <1>4, <1>5 DEF StatusIs

StatusIsUnique == \A st : StatusIs(st) => PidStatus = st

\* There is only one such function.
LEMMA OneStatus == IInv => StatusIsUnique
<1> SUFFICES ASSUME IInv, NEW st, StatusIs(st) PROVE PidStatus = st
  BY DEF StatusIsUnique
<1>1. StatusIs(PidStatus)
  BY StatusFacts
<1> DEFINE a == PidStatus
<1>2. StatusIs(a)
  BY <1>1
<1> HIDE DEF a
<1>3. ASSUME NEW p \in 0 .. MaxPid
      PROVE  a[p] = st[p]
  <2>1. CASE p >= next_pid
    BY <1>2, <2>1 DEF StatusIs
  <2>2. CASE p < next_pid
    <3>1. p \in 0 .. next_pid - 1
      BY <2>2, PidRange
    <3>2. CASE \E q \in InRing : task[q].pid = p
      BY <1>2, <3>2 DEF StatusIs
    <3>3. CASE \A q \in InRing : task[q].pid # p
      BY <1>2, <3>1, <3>3 DEF StatusIs
    <3> QED
      BY <3>2, <3>3
  <2> QED
    BY <2>1, <2>2, PidRange
<1>4. a = [p \in 0 .. MaxPid |-> a[p]] /\ st = [p \in 0 .. MaxPid |-> st[p]]
  BY <1>2 DEF StatusIs
<1>5. a = st
  BY <1>3, <1>4
<1> QED
  BY <1>5 DEF a

\* The status that TaskTable sees after a step is the one that fits the ring.
LEMMA StatusStep ==
  ASSUME IInv', NEW st, StatusIs(st)'
  PROVE  PidStatus' = st
<1>1. (IInv => StatusIsUnique)'
  BY OneStatus, PTL
<1> QED
  BY <1>1 DEF StatusIsUnique

\* A step that leaves the ring and its zombies as they are.
LEMMA ViewKept ==
  ASSUME IInv, IInv', Ring' = Ring, next_pid' = next_pid,
         \A q \in InRing : /\ task'[q].pid = task[q].pid
                           /\ task'[q].state = "ZOMBIE" <=> task[q].state = "ZOMBIE"
  PROVE  PidRing' = PidRing /\ PidStatus' = PidStatus
<1>1. InRing' = InRing
  BY DEF InRing
<1>2. \A i \in DOMAIN Ring : Ring[i] \in InRing
  BY DEF InRing, Range
<1>3. PidRing' = PidRing
  BY <1>2 DEF PidRing
<1>4. \A st : st = PidStatus => StatusIs(st)'
  <2> SUFFICES ASSUME NEW st, st = PidStatus PROVE StatusIs(st)'
    OBVIOUS
  <2>1. StatusIs(st)
    BY StatusFacts
  <2> QED
    BY <1>1, <2>1 DEF StatusIs
<1>5. \A st : st = PidStatus => PidStatus' = st
  BY <1>4, StatusStep
<1> QED
  BY <1>3, <1>5

\* The place in a ring of n tasks that is j places after i.
Place(n, i, j) == IF i + j <= n THEN i + j ELSE i + j - n

\* Going around a ring of n tasks leads to every place.
LEMMA PlaceFacts ==
  ASSUME NEW n \in Nat, NEW i \in 1 .. n
  PROVE  /\ \A j \in 1 .. n : Place(n, i, j) \in 1 .. n
         /\ \A m \in 1 .. n : \E j \in 1 .. n : Place(n, i, j) = m
         /\ Place(n, i, 1) = IF i = n THEN 1 ELSE i + 1
         /\ \A j \in 1 .. n - 1 :
              Place(n, i, j + 1) = IF Place(n, i, j) = n THEN 1 ELSE Place(n, i, j) + 1
<1>1. ASSUME NEW m \in 1 .. n
      PROVE  \E j \in 1 .. n : Place(n, i, j) = m
  <2>1. CASE m > i
    <3>1. m - i \in 1 .. n /\ Place(n, i, m - i) = m
      BY <2>1 DEF Place
    <3> QED
      BY <3>1
  <2>2. CASE ~ (m > i)
    <3>1. m - i + n \in 1 .. n /\ Place(n, i, m - i + n) = m
      BY <2>2 DEF Place
    <3> QED
      BY <3>1
  <2> QED
    BY <2>1, <2>2
<1>2. \A j \in 1 .. n : Place(n, i, j) \in 1 .. n
  BY DEF Place
<1>3. Place(n, i, 1) = IF i = n THEN 1 ELSE i + 1
  BY DEF Place
<1>4. \A j \in 1 .. n - 1 :
        Place(n, i, j + 1) = IF Place(n, i, j) = n THEN 1 ELSE Place(n, i, j) + 1
  BY DEF Place
<1> QED
  BY <1>1, <1>2, <1>3, <1>4

\* The first place after i whose element is one of tasks.
LEMMA AroundFirst ==
  ASSUME NEW n \in Nat, NEW r, NEW i \in 1 .. n, NEW tasks,
         \E m \in 1 .. n : r[m] \in tasks
  PROVE  \E k \in 1 .. n : /\ r[Place(n, i, k)] \in tasks
                            /\ \A j \in 1 .. k - 1 : r[Place(n, i, j)] \notin tasks
<1>1. PICK m \in 1 .. n : r[m] \in tasks
  OBVIOUS
<1>2. PICK l \in 1 .. n : Place(n, i, l) = m
  BY PlaceFacts
<1> DEFINE S == {j \in 1 .. n : r[Place(n, i, j)] \in tasks}
<1>3. S # {} /\ S \subseteq Nat
  BY <1>1, <1>2
<1> HIDE DEF S
<1>4. PICK k \in S : \A g \in S : k <= g
  BY <1>3, LeastNumber, Zenon
<1>5. k \in 1 .. n /\ r[Place(n, i, k)] \in tasks
  BY DEF S
<1>6. ASSUME NEW j \in 1 .. k - 1
      PROVE  r[Place(n, i, j)] \notin tasks
  <2>1. j \in 1 .. n /\ ~ (k <= j)
    BY <1>5
  <2> QED
    BY <1>4, <2>1 DEF S
<1> QED
  BY <1>5, <1>6

\* pick_next finds the first task after the i-th that can run, if there is one.
LEMMA PickIsFirst ==
  ASSUME IInv, NEW i \in 1 .. Len(Ring), NEW tasks,
         Find(task[Ring[i]].next, tasks) # NULL
  PROVE  \E k \in 1 .. Len(Ring) :
           /\ Find(task[Ring[i]].next, tasks) = Ring[Place(Len(Ring), i, k)]
           /\ Ring[Place(Len(Ring), i, k)] \in tasks
           /\ \A j \in 1 .. k - 1 : Ring[Place(Len(Ring), i, j)] \notin tasks
<1> DEFINE n == Len(Ring)
           r == Ring
           p == task[r[i]].next
<1>1. /\ n \in Nat /\ n \in 1 .. Slots + 1
      /\ r \in [1 .. n -> Task] /\ InRing = {r[k] : k \in 1 .. n}
      /\ \A k \in 1 .. n : task[r[k]].next = IF k = n THEN r[1] ELSE r[k + 1]
  BY CycleFacts DEF IInv, RingInv
<1>2. InRing \in SUBSET Task /\ p \in InRing /\ \A q \in InRing : task[q].next \in InRing
  <2>1. r[i] \in InRing
    BY <1>1
  <2> QED
    BY <2>1, RingFacts
<1>3. Find(p, tasks) \in (InRing \cap tasks) \cup {NULL} /\ Find(p, tasks) # NULL
  <2>1. Find(p, tasks) \in (InRing \cap tasks) \cup {NULL}
    <3> HIDE DEF p
    <3> QED
      BY <1>2, FindInside
  <2> QED
    BY <2>1
<1> HIDE DEF n, r, p
<1>4. i \in 1 .. n
  BY DEF n
<1>5. \E m \in 1 .. n : r[m] \in tasks
  BY <1>1, <1>3
<1>6. n \in Nat
  BY <1>1
<1>7. PICK k \in 1 .. n : r[Place(n, i, k)] \in tasks
                          /\ \A j \in 1 .. k - 1 : r[Place(n, i, j)] \notin tasks
  BY <1>4, <1>5, <1>6, AroundFirst, Zenon
<1>8. /\ k \in 1 .. n /\ r[Place(n, i, k)] \in tasks
      /\ \A j \in 1 .. k - 1 : j \in 1 .. n /\ r[Place(n, i, j)] \notin tasks
  BY <1>6, <1>7
<1> DEFINE s == [j \in 1 .. k |-> r[Place(n, i, j)]]
<1>9. /\ \A j \in 1 .. n : Place(n, i, j) \in 1 .. n
      /\ Place(n, i, 1) = IF i = n THEN 1 ELSE i + 1
      /\ \A j \in 1 .. n - 1 :
           Place(n, i, j + 1) = IF Place(n, i, j) = n THEN 1 ELSE Place(n, i, j) + 1
  BY <1>4, <1>6, PlaceFacts, Zenon
<1>10. k \in 1 .. Slots + 1 /\ s \in [1 .. k -> Task] /\ s[k] \in tasks
       /\ s[k] = r[Place(n, i, k)]
  <2>1. k \in 1 .. Slots + 1 /\ k \in 1 .. k /\ \A j \in 1 .. k : j \in 1 .. n
    BY <1>1, <1>8, BoundsAssumption
  <2>2. \A j \in 1 .. k : r[Place(n, i, j)] \in Task
    BY <1>1, <1>9, <2>1
  <2> QED
    BY <1>8, <2>1, <2>2
<1>11. s[1] = p
  <2>1. 1 \in 1 .. k
    BY <1>1, <1>8
  <2>2. p = task[r[i]].next
    BY DEF p
  <2>3. p = IF i = n THEN r[1] ELSE r[i + 1]
    BY <1>1, <1>4, <2>2
  <2> QED
    BY <1>9, <2>1, <2>3
<1>12. ASSUME NEW j \in 1 .. k - 1
       PROVE  task[s[j]].next = s[j + 1] /\ s[j] \notin tasks
  <2>1. j \in 1 .. k /\ j + 1 \in 1 .. k /\ j \in 1 .. n - 1 /\ j \in 1 .. n
    BY <1>1, <1>8
  <2>2. s[j] = r[Place(n, i, j)] /\ s[j + 1] = r[Place(n, i, j + 1)]
    BY <2>1
  <2> HIDE DEF s
  <2>3. Place(n, i, j + 1) = IF Place(n, i, j) = n THEN 1 ELSE Place(n, i, j) + 1
    BY <1>9, <2>1
  <2>4. Place(n, i, j) \in 1 .. n /\ r[Place(n, i, j)] \notin tasks
    BY <1>8, <1>9, <2>1
  <2>5. task[r[Place(n, i, j)]].next = r[Place(n, i, j + 1)]
    BY <1>1, <2>3, <2>4
  <2> QED
    BY <2>2, <2>4, <2>5
<1>13. Find(s[1], tasks) = s[k]
  <2> HIDE DEF s
  <2>1. /\ k \in 1 .. Slots + 1 /\ s \in [1 .. k -> Task] /\ s[k] \in tasks
        /\ \A j \in 1 .. k - 1 : task[s[j]].next = s[j + 1] /\ s[j] \notin tasks
    BY <1>10, <1>12
  <2> QED
    BY <2>1, FindHit, Zenon
<1>14. Find(p, tasks) = r[Place(n, i, k)]
  BY <1>10, <1>11, <1>13
<1> QED
  BY <1>8, <1>14 DEF n, r, p

\* The pid that has the processor, as TaskTable knows it.
Running == IF current = NULL THEN MaxPid + 1 ELSE task[current].pid

\* The pids of the ring, as a sequence.
LEMMA PidRingFacts ==
  ASSUME IInv
  PROVE  /\ PidRing \in Seq(Nat) /\ Len(PidRing) = Len(Ring)
         /\ DOMAIN PidRing = 1 .. Len(Ring) /\ Len(Ring) \in Nat
         /\ \A i \in 1 .. Len(Ring) : PidRing[i] = task[Ring[i]].pid /\ Ring[i] \in InRing
<1> DEFINE n == Len(Ring)
<1>1. n \in Nat /\ DOMAIN Ring = 1 .. n /\ InRing = {Ring[k] : k \in 1 .. n}
  BY CycleFacts DEF IInv, RingInv
<1> HIDE DEF n
<1>2. \A k \in 1 .. n : task[Ring[k]].pid \in Nat /\ Ring[k] \in InRing
  BY <1>1, PidRange
<1>3. PidRing = [k \in 1 .. n |-> task[Ring[k]].pid]
  BY <1>1 DEF PidRing
<1>4. PidRing \in [1 .. n -> Nat]
  BY <1>2, <1>3
<1>5. PidRing \in Seq(Nat)
  BY <1>1, <1>4
<1>6. Len(PidRing) = n
  BY <1>1, <1>4, <1>5
<1> QED
  BY <1>1, <1>2, <1>3, <1>5, <1>6 DEF n

\* The status of a pid before a step, as the invariant describes it.
LEMMA StatusOf ==
  ASSUME IInv
  PROVE  /\ DOMAIN PidStatus = 0 .. MaxPid
         /\ \A p \in 0 .. MaxPid : p >= next_pid <=> PidStatus[p] = "unborn"
         /\ \A q \in InRing :
              PidStatus[task[q].pid] = IF task[q].state = "ZOMBIE" THEN "zombie" ELSE "live"
         /\ \A p \in 0 .. next_pid - 1 :
              (\A q \in InRing : task[q].pid # p) => PidStatus[p] = "gone"
<1> DEFINE st == PidStatus
<1>1. StatusIs(st)
  BY StatusFacts
<1> HIDE DEF st
<1>2. DOMAIN st = 0 .. MaxPid
  BY <1>1 DEF StatusIs
<1>3. /\ \A p \in 0 .. MaxPid : p >= next_pid => st[p] = "unborn"
      /\ \A q \in InRing :
           st[task[q].pid] = IF task[q].state = "ZOMBIE" THEN "zombie" ELSE "live"
      /\ \A p \in 0 .. next_pid - 1 : (\A q \in InRing : task[q].pid # p) => st[p] = "gone"
  BY <1>1 DEF StatusIs
<1>4. ASSUME NEW p \in 0 .. MaxPid, ~ (p >= next_pid)
      PROVE  st[p] # "unborn"
  <2>1. p \in 0 .. next_pid - 1
    BY <1>4, PidRange
  <2>2. CASE \E q \in InRing : task[q].pid = p
    BY <1>3, <2>2
  <2>3. CASE \A q \in InRing : task[q].pid # p
    BY <1>3, <2>1, <2>3
  <2> QED
    BY <2>2, <2>3
<1> QED
  BY <1>2, <1>3, <1>4 DEF st

\* The timer interrupt is a switch of the table.
LEMMA SwitchRefines ==
  ASSUME IInv, IInv', schedule_from_isr
  PROVE  Table!Switch
<1> DEFINE from == IF current = NULL THEN InitTask ELSE current
           n == Len(Ring)
<1>1. /\ UNCHANGED <<task_ring, next_pid>> /\ current' = pick_next /\ pick_next # NULL
  BY DEF schedule_from_isr
<1>2. pick_next = Find(task[from].next, CanRun)
  BY DEF pick_next
<1>3. from \in InRing
  BY RingFacts DEF IInv, RingInv
<1>4. /\ PidRing \in Seq(Nat) /\ Len(PidRing) = n /\ DOMAIN PidRing = 1 .. n /\ n \in Nat
      /\ \A i \in 1 .. n : PidRing[i] = task[Ring[i]].pid /\ Ring[i] \in InRing
  BY PidRingFacts
<1>5. PICK i \in 1 .. n : Ring[i] = from
  <2>1. InRing = {Ring[k] : k \in 1 .. n}
    BY CycleFacts DEF IInv, RingInv
  <2> QED
    BY <1>3, <2>1
<1> HIDE DEF from
<1>6. PICK k \in 1 .. n :
        /\ Find(task[Ring[i]].next, CanRun) = Ring[Place(n, i, k)]
        /\ Ring[Place(n, i, k)] \in CanRun
        /\ \A j \in 1 .. k - 1 : Ring[Place(n, i, j)] \notin CanRun
  <2>1. Find(task[Ring[i]].next, CanRun) # NULL
    BY <1>1, <1>2, <1>5
  <2> QED
    BY <2>1, PickIsFirst, Zenon
<1>7. current' = Ring[Place(n, i, k)]
  BY <1>1, <1>2, <1>5, <1>6
<1>8. Ring' = Ring
  BY <1>1, SwitchEffect, RingKept, RingFacts DEF IInv, RingInv
<1>9. UNCHANGED <<PidRing, PidStatus>>
  BY <1>1, <1>8, SwitchEffect, RingFacts, ViewKept
<1> HIDE DEF n
<1>10. \A j \in 1 .. n : /\ PidRing[Place(n, i, j)] = task[Ring[Place(n, i, j)]].pid
                          /\ Ring[Place(n, i, j)] \in InRing
  <2>1. n \in Nat /\ i \in 1 .. n
    BY <1>4 DEF n
  <2>2. \A j \in 1 .. n : Place(n, i, j) \in 1 .. n
    BY <2>1, PlaceFacts, Zenon
  <2> QED
    BY <1>4, <2>2, Zenon
<1>11a. k \in 1 .. n /\ i \in 1 .. n
  BY DEF n
<1>11. Running' = PidRing[Place(n, i, k)]
  <2>1. current' \in Task /\ current' # NULL
    BY SwitchEffect, RingFacts, TaskFacts
  <2>2. task'[current'].pid = task[current'].pid
    BY <2>1, SwitchEffect
  <2> QED
    BY <1>7, <1>10, <1>11a, <2>1, <2>2 DEF Running
<1>12. PidRing[i] = IF Running = MaxPid + 1 THEN 0 ELSE Running
  <2>1. PidRing[i] = task[from].pid /\ task[from].pid \in 0 .. MaxPid /\ MaxPid \in Nat
    BY <1>3, <1>4, <1>5, PidRange
  <2>2. task[InitTask].pid = 0
    BY RingPids
  <2>3. CASE current = NULL
    BY <2>1, <2>2, <2>3 DEF Running, from
  <2>4. CASE current # NULL
    <3>1. Running = PidRing[i]
      BY <2>1, <2>4 DEF Running, from
    <3>2. PidRing[i] # MaxPid + 1
      BY <2>1
    <3> QED
      BY <3>1, <3>2
  <2> QED
    BY <2>3, <2>4
<1>13. \A q \in InRing : q \in CanRun <=> PidStatus[task[q].pid] = "live"
  <2>1. \A q \in InRing : q \in Task
    BY RingFacts
  <2>2. \A q \in Task : task[q].state \in Runnable <=> task[q].state # "ZOMBIE"
    BY DEF IInv, TypeOK, Runnable
  <2> QED
    BY <2>1, <2>2, StatusOf DEF CanRun
<1>14. PidStatus[PidRing[Place(n, i, k)]] = "live"
  BY <1>6, <1>10, <1>13, <1>11a
<1>15. \A j \in 1 .. k - 1 : PidStatus[PidRing[Place(n, i, j)]] # "live"
  <2>1. \A j \in 1 .. k - 1 : j \in 1 .. n
    BY <1>4, <1>11a
  <2> QED
    BY <1>6, <1>10, <1>13, <2>1
<1>16. \A j : Table!After(i, j) = PidRing[Place(n, i, j)]
  BY <1>4 DEF Table!After, Place
<1>17. /\ i \in DOMAIN PidRing /\ k \in DOMAIN PidRing
       /\ PidRing[i] = (IF Running = Table!None THEN 0 ELSE Running)
       /\ PidStatus[Table!After(i, k)] = "live"
       /\ \A j \in 1 .. k - 1 : PidStatus[Table!After(i, j)] # "live"
       /\ Running' = Table!After(i, k)
  BY <1>4, <1>11, <1>12, <1>14, <1>15, <1>16, <1>11a DEF Table!None
<1> QED
  BY <1>9, <1>17, Zenon DEF Table!Switch, Running

\* How Append extends a sequence of pids.
LEMMA AppendIs ==
  ASSUME NEW r \in Seq(Nat), NEW e \in Nat
  PROVE  Append(r, e) = [k \in 1 .. Len(r) + 1 |-> IF k = Len(r) + 1 THEN e ELSE r[k]]
<1> DEFINE n == Len(r)
           a == Append(r, e)
<1>1. /\ a \in Seq(Nat) /\ Len(a) = n + 1 /\ a[n + 1] = e /\ n \in Nat
      /\ \A k \in 1 .. n : a[k] = r[k]
  OBVIOUS
<1> HIDE DEF n, a
<1>2. DOMAIN a = 1 .. n + 1 /\ a = [k \in DOMAIN a |-> a[k]]
  BY <1>1
<1>3. \A k \in 1 .. n + 1 : a[k] = IF k = n + 1 THEN e ELSE r[k]
  <2>1. \A k \in 1 .. n + 1 : k = n + 1 \/ k \in 1 .. n
    BY <1>1
  <2> QED
    BY <1>1, <2>1
<1>4. a = [k \in 1 .. n + 1 |-> IF k = n + 1 THEN e ELSE r[k]]
  BY <1>2, <1>3
<1> QED
  BY <1>4 DEF n, a

\* A step that changes the status of one pid.
Changed(f, p, v) ==
  /\ f = [g \in 0 .. MaxPid |-> f[g]]
  /\ f[p] = v
  /\ \A g \in 0 .. MaxPid : g # p => f[g] = PidStatus[g]

\* If the changed status fits the ring after a step, it is the status.
LEMMA StatusChange ==
  ASSUME IInv, IInv', NEW p \in 0 .. MaxPid, NEW v,
         \A f : Changed(f, p, v) => StatusIs(f)'
  PROVE  PidStatus' = [PidStatus EXCEPT ![p] = v]
<1>1. DOMAIN PidStatus = 0 .. MaxPid
  BY StatusOf
<1>2. PICK b : b = PidStatus
  OBVIOUS
<1>3. PICK f : f = [g \in 0 .. MaxPid |-> IF g = p THEN v ELSE b[g]]
  BY Zenon
<1>4. DOMAIN b = 0 .. MaxPid /\ b = [g \in DOMAIN b |-> b[g]]
  <2>1. StatusIs(b)
    BY <1>2, StatusFacts
  <2> QED
    BY <2>1 DEF StatusIs
<1>5. f = [b EXCEPT ![p] = v]
  <2>1. [b EXCEPT ![p] = v] = [g \in DOMAIN b |-> IF g = p THEN v ELSE b[g]]
    BY Zenon
  <2> QED
    BY <1>3, <1>4, <2>1, Zenon
<1>6. Changed(f, p, v)
  BY <1>2, <1>3 DEF Changed
<1>7. PidStatus' = f
  BY <1>6, StatusStep
<1> QED
  BY <1>2, <1>5, <1>7

\* The order of the pids when a task has been created.
LEMMA CreatePids ==
  ASSUME IInv, NEW s, Creates(s)
  PROVE  PidRing' = Append(PidRing, next_pid)
<1>1. PICK n : n = Len(Ring)
  BY Zenon
<1>2. PICK r : r = Ring
  OBVIOUS
<1>3. PICK b : b = PidRing
  OBVIOUS
<1>4. PICK p : p = next_pid
  OBVIOUS
<1>5. /\ b \in Seq(Nat) /\ Len(b) = n /\ DOMAIN b = 1 .. n /\ n \in Nat
      /\ \A i \in 1 .. n : b[i] = task[r[i]].pid /\ r[i] \in InRing
  BY <1>1, <1>2, <1>3, PidRingFacts
<1>6. r \in Seq(Task) /\ n = Len(r)
  BY <1>1, <1>2, CycleFacts DEF IInv, RingInv
<1>7. Ring' = Append(r, s)
  BY <1>2, RingAppended
<1>8. /\ s \in Task /\ s \notin InRing /\ task'[s].pid = p /\ p \in Nat
      /\ \A q \in InRing : task'[q].pid = task[q].pid
  <2>1. task \in [Task -> TaskRecord]
    BY DEF IInv, TypeOK, TaskRecord
  <2>2. /\ s \in Task /\ s \notin InRing /\ task'[s].pid = next_pid
        /\ \A q \in Task \ {s} : task'[q].pid = task[q].pid
    BY <2>1 DEF Creates, NewTask, TaskRecord
  <2>3. \A q \in InRing : q \in Task \ {s}
    BY <2>2, RingFacts
  <2> QED
    BY <1>4, <2>2, <2>3, PidRange
<1>9. PICK c : c = Append(r, s)
  BY Zenon
<1>10. DOMAIN c = 1 .. n + 1 /\ c[n + 1] = s /\ \A i \in 1 .. n : c[i] = r[i]
  BY <1>6, <1>8, <1>9
<1>11. PidRing' = [i \in 1 .. n + 1 |-> task'[c[i]].pid]
  BY <1>7, <1>9, <1>10 DEF PidRing
<1>12. ASSUME NEW i \in 1 .. n + 1
       PROVE  task'[c[i]].pid = IF i = n + 1 THEN p ELSE b[i]
  <2>1. CASE i = n + 1
    BY <1>8, <1>10, <2>1
  <2>2. CASE i # n + 1
    <3>1. i \in 1 .. n
      BY <1>5, <2>2
    <3>2. c[i] = r[i] /\ r[i] \in InRing /\ b[i] = task[r[i]].pid
      BY <1>5, <1>10, <3>1
    <3> QED
      BY <1>8, <2>2, <3>2
  <2> QED
    BY <2>1, <2>2
<1>13. Append(b, p) = [i \in 1 .. n + 1 |-> IF i = n + 1 THEN p ELSE b[i]]
  <2>1. \A m : m = Len(b) =>
          Append(b, p) = [i \in 1 .. m + 1 |-> IF i = m + 1 THEN p ELSE b[i]]
    BY <1>5, <1>8, AppendIs
  <2> QED
    BY <1>5, <2>1
<1>14. PidRing' = Append(b, p)
  BY <1>11, <1>12, <1>13
<1> QED
  BY <1>3, <1>4, <1>14

\* The order of the pids when a zombie has been unlinked.
LEMMA UnlinkPids ==
  ASSUME IInv, NEW z, NEW i \in 1 .. Len(Ring), Unlinks(z, i)
  PROVE  PidRing' = Without(PidRing, i)
<1>1. PICK n : n = Len(Ring)
  BY Zenon
<1>2. PICK r : r = Ring
  OBVIOUS
<1>3. PICK b : b = PidRing
  OBVIOUS
<1>4. /\ b \in Seq(Nat) /\ Len(b) = n /\ DOMAIN b = 1 .. n /\ n \in Nat
      /\ \A k \in 1 .. n : b[k] = task[r[k]].pid /\ r[k] \in InRing
  BY <1>1, <1>2, <1>3, PidRingFacts
<1>5. r \in Seq(Task) /\ n = Len(r)
  BY <1>1, <1>2, CycleFacts DEF IInv, RingInv
<1>6. i \in 1 .. Len(r) /\ i \in 1 .. Len(b)
  BY <1>1, <1>2, <1>4
<1>7. PICK c : c = Without(r, i)
  OBVIOUS
<1>8. PICK w : w = Without(b, i)
  OBVIOUS
<1>9. /\ c \in Seq(Task) /\ Len(c) = n - 1
      /\ \A k \in 1 .. n - 1 : c[k] = IF k < i THEN r[k] ELSE r[k + 1]
  <2>1. /\ Without(r, i) \in Seq(Task) /\ Len(Without(r, i)) = Len(r) - 1
        /\ \A k \in 1 .. Len(r) - 1 : Without(r, i)[k] = IF k < i THEN r[k] ELSE r[k + 1]
    BY <1>5, <1>6, WithoutElements, Zenon
  <2> QED
    BY <1>5, <1>7, <2>1, Zenon
<1>10. /\ w \in Seq(Nat) /\ Len(w) = n - 1
       /\ \A k \in 1 .. n - 1 : w[k] = IF k < i THEN b[k] ELSE b[k + 1]
  <2>1. /\ Without(b, i) \in Seq(Nat) /\ Len(Without(b, i)) = Len(b) - 1
        /\ \A k \in 1 .. Len(b) - 1 : Without(b, i)[k] = IF k < i THEN b[k] ELSE b[k + 1]
    BY <1>4, <1>6, WithoutElements, Zenon
  <2> QED
    BY <1>4, <1>8, <2>1, Zenon
<1>11. /\ DOMAIN c = 1 .. n - 1 /\ DOMAIN w = 1 .. n - 1
       /\ w = [k \in DOMAIN w |-> w[k]]
  BY <1>9, <1>10
<1>12. Ring' = c
  BY <1>2, <1>7, RingUnlinked
<1>13. PidRing' = [k \in 1 .. n - 1 |-> task'[c[k]].pid]
  BY <1>11, <1>12 DEF PidRing
<1>14. \A k \in 1 .. n : task'[r[k]].pid = b[k]
  <2>1. task \in [Task -> TaskRecord]
    BY DEF IInv, TypeOK, TaskRecord
  <2>2. \A q \in Task : task'[q].pid = task[q].pid
    BY <2>1 DEF Unlinks, TaskRecord
  <2> QED
    BY <1>4, <2>2, RingFacts
<1>15. ASSUME NEW k \in 1 .. n - 1
       PROVE  task'[c[k]].pid = w[k]
  <2>1. k \in 1 .. n /\ k + 1 \in 1 .. n
    BY <1>4
  <2>2. CASE k < i
    <3>1. c[k] = r[k] /\ w[k] = b[k]
      BY <1>9, <1>10, <2>2
    <3> QED
      BY <1>14, <2>1, <3>1
  <2>3. CASE ~ (k < i)
    <3>1. c[k] = r[k + 1] /\ w[k] = b[k + 1]
      BY <1>9, <1>10, <2>3
    <3> QED
      BY <1>14, <2>1, <3>1
  <2> QED
    BY <2>2, <2>3
<1>16. PidRing' = w
  BY <1>11, <1>13, <1>15
<1> QED
  BY <1>3, <1>8, <1>16

\* utask_create is a creation of the next pid.
LEMMA CreateRefines ==
  ASSUME IInv, IInv', NEW t \in Task, utask_create(t)
  PROVE  \E p \in 0 .. MaxPid : Table!Create(p)
<1>1. PICK s \in (1 .. Slots) \ alloc : Creates(s)
  BY CreateEffect
<1>2. PICK p : p = next_pid
  OBVIOUS
<1>3. InRing' = InRing \cup {s}
  BY <1>1, RingAppended
<1>4. /\ s \in Task /\ s \notin InRing /\ next_pid' = p + 1 /\ p <= MaxPid
      /\ current' = current /\ task'[s].pid = p /\ task'[s].state = "READY"
      /\ \A q \in Task \ {s} : task'[q].pid = task[q].pid /\ task'[q].state = task[q].state
  <2>1. task \in [Task -> TaskRecord]
    BY DEF IInv, TypeOK, TaskRecord
  <2> QED
    BY <1>1, <1>2, <2>1 DEF Creates, NewTask, TaskRecord
<1>5. \A q \in InRing : /\ task'[q].pid = task[q].pid /\ task'[q].state = task[q].state
                        /\ q \in InRing'
  <2>1. \A q \in InRing : q \in Task \ {s}
    BY <1>4, RingFacts
  <2> QED
    BY <1>3, <1>4, <2>1, Zenon
<1>6. p \in 0 .. MaxPid /\ p \in Nat /\ MaxPid \in Nat
  BY <1>2, <1>4, PidRange
<1>7. current = t /\ t # NULL /\ t \in InRing
  <2>1. current = t
    BY DEF utask_create, At
  <2> QED
    BY <2>1, CallFacts, TaskFacts
<1>8. Running # Table!None /\ Running' = Running
  <2>1. Running = task[t].pid /\ Running' = task'[t].pid
    BY <1>4, <1>7 DEF Running
  <2>2. task[t].pid \in 0 .. MaxPid
    BY <1>7, PidRange
  <2> QED
    BY <1>5, <1>6, <1>7, <2>1, <2>2 DEF Table!None
<1>9. PidStatus[p] = "unborn" /\ \A q \in 0 .. MaxPid : q < p => PidStatus[q] # "unborn"
  BY <1>2, <1>6, StatusOf
<1>10. PidRing' = Append(PidRing, p)
  BY <1>1, <1>2, CreatePids
<1>11. ASSUME NEW f, Changed(f, p, "live")
       PROVE  StatusIs(f)'
  <2>1. /\ f = [g \in 0 .. MaxPid |-> f[g]] /\ f[p] = "live"
        /\ \A g \in 0 .. MaxPid : g # p => f[g] = PidStatus[g]
    BY <1>11 DEF Changed
  <2>2. \A g \in 0 .. MaxPid : g >= next_pid' => f[g] = "unborn"
    BY <1>2, <1>4, <1>6, <2>1, StatusOf
  <2>3. ASSUME NEW q \in InRing'
        PROVE  f[task'[q].pid] = IF task'[q].state = "ZOMBIE" THEN "zombie" ELSE "live"
    <3>1. CASE q = s
      BY <1>4, <2>1, <3>1
    <3>2. CASE q # s
      <4>1. q \in InRing
        BY <1>3, <3>2
      <4>2. task'[q].pid = task[q].pid /\ task'[q].state = task[q].state
        BY <1>5, <4>1
      <4>3. task[q].pid \in 0 .. MaxPid /\ task[q].pid # p
        BY <1>2, <1>6, <4>1, PidRange
      <4> QED
        BY <2>1, <4>1, <4>2, <4>3, StatusOf
    <3> QED
      BY <3>1, <3>2
  <2>4. ASSUME NEW g \in 0 .. next_pid' - 1, \A q \in InRing' : task'[q].pid # g
        PROVE  f[g] = "gone"
    <3>1. g # p
      BY <1>3, <1>4, <2>4
    <3>2. g \in 0 .. next_pid - 1 /\ g \in 0 .. MaxPid
      BY <1>2, <1>4, <1>6, <3>1
    <3>3. ASSUME NEW q \in InRing PROVE task[q].pid # g
      BY <1>5, <2>4
    <3> QED
      BY <2>1, <3>1, <3>2, <3>3, StatusOf
  <2> QED
    BY <2>1, <2>2, <2>3, <2>4 DEF StatusIs
<1>12. PidStatus' = [PidStatus EXCEPT ![p] = "live"]
  BY <1>6, <1>11, StatusChange
<1>13. Table!Create(p)
  BY <1>8, <1>9, <1>10, <1>12 DEF Table!Create, Table!Pids, Running
<1> QED
  BY <1>6, <1>13

\* The unlinking of a zombie by its reaper is its removal.
LEMMA RemoveRefines ==
  ASSUME IInv, IInv', NEW t \in Task, ReapUnlink(t)
  PROVE  \E p \in 0 .. MaxPid : Table!Remove(p)
<1>1. PICK z : z = frame[t].z
  BY Zenon
<1>2. PICK i \in 1 .. Len(Ring) : Unlinks(z, i)
  BY <1>1, UnlinkEffect
<1>3. PICK p : p = task[z].pid
  BY Zenon
<1>4. InRing' = InRing \ {z}
  BY <1>2, RingUnlinked
<1>5. /\ Ring[i] = z /\ z \in Task
      /\ \A q \in Task : task'[q].pid = task[q].pid /\ task'[q].state = task[q].state
  <2>1. task \in [Task -> TaskRecord]
    BY DEF IInv, TypeOK, TaskRecord
  <2> QED
    BY <1>2, <2>1 DEF Unlinks, TaskRecord
<1>6. current = t /\ current' = t /\ next_pid' = next_pid /\ frame[t].pc = "unlink"
  BY DEF ReapUnlink, At
<1>7. i \in DOMAIN PidRing /\ PidRing[i] = p /\ z \in InRing
  BY <1>3, <1>5, PidRingFacts
<1>8. p \in 0 .. MaxPid /\ p \in 0 .. next_pid - 1
  BY <1>3, <1>7, PidRange
<1>9. z # t /\ task[z].state = "ZOMBIE"
  <2>1. z \in Taken(t)
    BY <1>1, <1>6, UnlinkedFacts DEF IInv, Busy
  <2>2. z # t /\ frame[z].pc = "spin"
    BY <1>6, <2>1 DEF IInv, OwnedInv
  <2> QED
    BY <1>5, <2>2 DEF IInv, ControlInv
<1>10. \A q \in InRing \ {z} : q \in Task /\ task[q].pid # p
  BY <1>3, <1>7, RingFacts, RingPids
<1>11. Running # p /\ Running' = Running
  <2>1. t \in InRing /\ t # NULL
    BY <1>6, CallFacts, TaskFacts
  <2>2. Running = task[t].pid /\ Running' = task'[t].pid
    BY <1>6, <2>1 DEF Running
  <2> QED
    BY <1>5, <1>9, <1>10, <2>1, <2>2
<1>12. PidStatus[p] = "zombie"
  BY <1>3, <1>7, <1>9, StatusOf
<1>13. PidRing' = Without(PidRing, i)
  BY <1>2, UnlinkPids
<1>14. ASSUME NEW f, Changed(f, p, "gone")
       PROVE  StatusIs(f)'
  <2>1. /\ f = [g \in 0 .. MaxPid |-> f[g]] /\ f[p] = "gone"
        /\ \A g \in 0 .. MaxPid : g # p => f[g] = PidStatus[g]
    BY <1>14 DEF Changed
  <2>2. \A g \in 0 .. MaxPid : g >= next_pid' => f[g] = "unborn"
    BY <1>6, <1>8, <2>1, StatusOf, PidRange
  <2>3. ASSUME NEW q \in InRing'
        PROVE  f[task'[q].pid] = IF task'[q].state = "ZOMBIE" THEN "zombie" ELSE "live"
    <3>1. q \in InRing /\ q \in Task /\ task[q].pid # p
      BY <1>4, <1>10
    <3>2. task[q].pid \in 0 .. MaxPid
      BY <3>1, PidRange
    <3> QED
      BY <1>5, <2>1, <3>1, <3>2, StatusOf
  <2>4. ASSUME NEW g \in 0 .. next_pid' - 1, \A q \in InRing' : task'[q].pid # g
        PROVE  f[g] = "gone"
    <3>1. CASE g = p
      BY <2>1, <3>1
    <3>2. CASE g # p
      <4>1. g \in 0 .. next_pid - 1 /\ g \in 0 .. MaxPid
        BY <1>6, PidRange
      <4>2. ASSUME NEW q \in InRing PROVE task[q].pid # g
        <5>1. CASE q = z
          BY <1>3, <3>2, <5>1
        <5>2. CASE q # z
          BY <1>4, <1>5, <1>10, <2>4, <5>2
        <5> QED
          BY <5>1, <5>2
      <4> QED
        BY <2>1, <3>2, <4>1, <4>2, StatusOf
    <3> QED
      BY <3>1, <3>2
  <2> QED
    BY <2>1, <2>2, <2>3, <2>4 DEF StatusIs
<1>15. PidStatus' = [PidStatus EXCEPT ![p] = "gone"]
  BY <1>8, <1>14, StatusChange
<1>16. Table!Remove(p)
  BY <1>7, <1>11, <1>12, <1>13, <1>15, Zenon DEF Table!Remove, Running, Without
<1> QED
  BY <1>8, <1>16

\* The statement of task_exit that sets TASK_ZOMBIE is the exit.
LEMMA ExitRefines ==
  ASSUME IInv, IInv', NEW t \in Task, ExitMark(t)
  PROVE  Table!Exit
<1>1. PICK p : p = task[t].pid
  BY Zenon
<1>2. /\ current = t /\ current' = t /\ next_pid' = next_pid /\ task_ring' = task_ring
      /\ frame[t].pc = "exit_mark"
  BY DEF ExitMark, At
<1>3. /\ task'[t].state = "ZOMBIE"
      /\ \A q \in Task : task'[q].pid = task[q].pid /\ task'[q].next = task[q].next
      /\ \A q \in Task \ {t} : task'[q].state = task[q].state
  <2>1. task \in [Task -> TaskRecord]
    BY DEF IInv, TypeOK, TaskRecord
  <2> QED
    BY <2>1 DEF ExitMark, TaskRecord
<1>4. t \in InRing /\ t # NULL /\ t # InitTask /\ task[t].state # "ZOMBIE"
  <2>1. t # InitTask /\ task[t].state # "ZOMBIE"
    BY <1>2 DEF IInv, ControlInv
  <2> QED
    BY <1>2, <2>1, CallFacts, TaskFacts
<1>5. Running = p /\ Running' = p
  BY <1>1, <1>2, <1>3, <1>4 DEF Running
<1>6. p \in 0 .. MaxPid /\ p # 0 /\ PidStatus[p] = "live"
  BY <1>1, <1>4, PidRange, RingPids, StatusOf
<1>7. Ring' = Ring /\ InRing' = InRing
  BY <1>2, <1>3, RingKept, RingFacts DEF IInv, RingInv
<1>8. PidRing' = PidRing
  <2>1. \A i \in DOMAIN Ring : Ring[i] \in Task
    BY RingFacts DEF InRing, Range
  <2> QED
    BY <1>3, <1>7, <2>1 DEF PidRing
<1>9. ASSUME NEW f, Changed(f, p, "zombie")
      PROVE  StatusIs(f)'
  <2>1. /\ f = [g \in 0 .. MaxPid |-> f[g]] /\ f[p] = "zombie"
        /\ \A g \in 0 .. MaxPid : g # p => f[g] = PidStatus[g]
    BY <1>9 DEF Changed
  <2>2. \A g \in 0 .. MaxPid : g >= next_pid' => f[g] = "unborn"
    BY <1>1, <1>2, <1>4, <2>1, StatusOf, PidRange
  <2>3. ASSUME NEW q \in InRing'
        PROVE  f[task'[q].pid] = IF task'[q].state = "ZOMBIE" THEN "zombie" ELSE "live"
    <3>1. q \in InRing /\ q \in Task /\ task'[q].pid = task[q].pid
      BY <1>3, <1>7, RingFacts
    <3>2. CASE q = t
      BY <1>1, <1>3, <2>1, <3>1, <3>2
    <3>3. CASE q # t
      <4>1. task[q].pid # p /\ task[q].pid \in 0 .. MaxPid
        BY <1>1, <1>4, <3>1, <3>3, RingPids, PidRange
      <4> QED
        BY <1>3, <2>1, <3>1, <3>3, <4>1, StatusOf
    <3> QED
      BY <3>2, <3>3
  <2>4. ASSUME NEW g \in 0 .. next_pid' - 1, \A q \in InRing' : task'[q].pid # g
        PROVE  f[g] = "gone"
    <3>1. g \in 0 .. next_pid - 1 /\ g \in 0 .. MaxPid
      BY <1>2, PidRange
    <3>2. \A q \in InRing : task[q].pid # g
      BY <1>3, <1>7, <2>4, RingFacts
    <3>3. g # p
      BY <1>1, <1>4, <3>2
    <3> QED
      BY <2>1, <3>1, <3>2, <3>3, StatusOf
  <2> QED
    BY <2>1, <2>2, <2>3, <2>4 DEF StatusIs
<1>10. PidStatus' = [PidStatus EXCEPT ![p] = "zombie"]
  BY <1>6, <1>9, StatusChange
<1>11. /\ Running \in Table!Pids \ {0} /\ PidStatus[Running] = "live"
       /\ PidStatus' = [PidStatus EXCEPT ![Running] = "zombie"]
       /\ UNCHANGED <<PidRing, Running>>
  BY <1>5, <1>6, <1>8, <1>10 DEF Table!Pids
<1> QED
  BY <1>11 DEF Table!Exit, Running

\* What the table does not see: the begin of a reaper, the release of a zombie
\* and its way to zombie_list.
LEMMA HiddenSteps ==
  ASSUME IInv, IInv', NEW t \in Task,
         ReapFree(t) \/ ExitLink(t) \/ reap_zombies(t) \/ task_exit(t)
  PROVE  UNCHANGED <<PidRing, PidStatus, Running>>
<1>1. /\ UNCHANGED <<task_ring, next_pid, current>>
      /\ \A q \in Task : /\ task'[q].next = task[q].next /\ task'[q].pid = task[q].pid
                         /\ task'[q].state = task[q].state
  <2>1. task \in [Task -> TaskRecord]
    BY DEF IInv, TypeOK, TaskRecord
  <2> QED
    BY <2>1 DEF ReapFree, ExitLink, reap_zombies, task_exit, ReapBegin, TaskRecord
<1>2. Ring' = Ring
  BY <1>1, RingKept, RingFacts DEF IInv, RingInv
<1>3. UNCHANGED <<PidRing, PidStatus>>
  BY <1>1, <1>2, ViewKept, RingFacts
<1>4. Running' = Running
  <2>1. current # NULL => current \in Task
    BY RingFacts DEF IInv, RingInv
  <2> QED
    BY <1>1, <2>1 DEF Running
<1> QED
  BY <1>3, <1>4

\* The table of tasks after scheduler_init and tasks_init.
LEMMA InitRefines == Init => Table!Init
<1> SUFFICES ASSUME Init PROVE Table!Init
  OBVIOUS
<1>1. IInv
  BY InitInv
<1>2. /\ 0 \in Task /\ 1 \in Task /\ 2 \in Task /\ 3 \in Task
  BY BoundsAssumption DEF Task
<1>3. /\ task[0].pid = 0 /\ task[1].pid = 1 /\ task[2].pid = 2 /\ task[3].pid = 3
      /\ task[0].next = 1 /\ task[1].next = 2 /\ task[2].next = 3 /\ task[3].next = 0
      /\ \A q \in {0, 1, 2, 3} : task[q].state # "ZOMBIE"
  BY <1>2 DEF Init, NewTask, InitTask
<1>4. Ring = <<0, 1, 2, 3>>
  <2>1. Cycle(<<0, 1, 2, 3>>)
    BY <1>2, <1>3 DEF Cycle, Init
  <2> QED
    BY <2>1, OneCycle
<1>5. InRing = {0, 1, 2, 3}
  BY <1>4 DEF InRing, Range
<1>6. PidRing = [i \in 1 .. 4 |-> i - 1]
  BY <1>3, <1>4 DEF PidRing
<1>7. next_pid = 4 /\ current = NULL
  BY DEF Init
<1>8. ASSUME NEW st, st = [p \in 0 .. MaxPid |-> IF p <= 3 THEN "live" ELSE "unborn"]
      PROVE  StatusIs(st)
  <2>1. \A p \in {0, 1, 2, 3} : p \in 0 .. MaxPid /\ p <= 3
    BY BoundsAssumption
  <2>2. \A q \in InRing : st[task[q].pid] = "live"
    BY <1>3, <1>5, <1>8, <2>1
  <2>3. \A p \in 0 .. 3 : \E q \in InRing : task[q].pid = p
    BY <1>3, <1>5
  <2>4. \A p \in 0 .. MaxPid : p >= next_pid => st[p] = "unborn"
    BY <1>7, <1>8, BoundsAssumption
  <2>5. next_pid - 1 = 3
    BY <1>7
  <2> QED
    BY <1>3, <1>5, <1>8, <2>2, <2>3, <2>4, <2>5 DEF StatusIs
<1>9. PidStatus = [p \in 0 .. MaxPid |-> IF p <= 3 THEN "live" ELSE "unborn"]
  <2>1. \A st : st = [p \in 0 .. MaxPid |-> IF p <= 3 THEN "live" ELSE "unborn"]
          => PidStatus = st
    BY <1>1, <1>8, OneStatus DEF StatusIsUnique
  <2> QED
    BY <2>1, Zenon
<1> QED
  BY <1>6, <1>7, <1>9 DEF Table!Init, Table!Boot, Table!Pids, Table!None

\* The pointers of multitask.c implement the table of tasks.
THEOREM TaskTableIsImplemented == Spec => ImplementsTaskTable
<1>1. ASSUME IInv, IInv', [Next]_vars
      PROVE  [Table!Next]_(Table!vars)
  <2>1. CASE schedule_from_isr
    BY <1>1, <2>1, SwitchRefines DEF Table!Next
  <2>2. ASSUME NEW t \in Task, utask_create(t)
        PROVE  Table!Next
    BY <1>1, <2>2, CreateRefines DEF Table!Next, Table!Pids
  <2>3. ASSUME NEW t \in Task, ReapUnlink(t)
        PROVE  Table!Next
    BY <1>1, <2>3, RemoveRefines DEF Table!Next, Table!Pids
  <2>4. ASSUME NEW t \in Task, ExitMark(t)
        PROVE  Table!Next
    BY <1>1, <2>4, ExitRefines DEF Table!Next
  <2>5. ASSUME NEW t \in Task,
               ReapFree(t) \/ ExitLink(t) \/ reap_zombies(t) \/ task_exit(t)
        PROVE  UNCHANGED Table!vars
    BY <1>1, <2>5, HiddenSteps DEF Table!vars, Running
  <2>6. CASE UNCHANGED vars
    <3>1. Ring' = Ring
      BY <1>1, <2>6, RingKept DEF IInv, RingInv, vars
    <3>2. UNCHANGED <<PidRing, PidStatus>>
      BY <1>1, <2>6, <3>1, ViewKept DEF vars
    <3> QED
      BY <2>6, <3>2 DEF Table!vars, vars
  <2> QED
    BY <1>1, <2>1, <2>2, <2>3, <2>4, <2>5, <2>6 DEF Next, KernelStep, SystemCall
<1>2. IInv /\ IInv' /\ [Next]_vars => [Table!Next]_(Table!vars)
  BY <1>1
<1> QED
  BY <1>2, InitRefines, Invariance, PTL DEF Spec, ImplementsTaskTable, Table!Spec
=============================================================================
