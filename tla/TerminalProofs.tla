--------------------------- MODULE TerminalProofs ---------------------------
(***************************************************************************)
(* The memory of the programs, for every .user area, all files and any     *)
(* number of tasks: it is owned by the tasks that have not been released,  *)
(* no program that runs is overwritten, and the terminal stops none that   *)
(* runs.                                                                   *)
(***************************************************************************)
EXTENDS Terminal, BlockListProofs

Tasks == {Terminal} \cup Programs

Task == [state : {"unborn", "live", "exiting", "zombie", "gone"}, mem : Nat,
         size : Nat, code : {"none", "own", "spoilt"}]

\* The pids in a list of zombies, and that it has none twice.
In(s) == {s[i] : i \in 1 .. Len(s)}

NoRepeat(s) == \A i, j \in 1 .. Len(s) : s[i] = s[j] => i = j

\* What OwnedByTasks says of an area s and tasks tk.
Owns(s, tk) ==
  /\ \A p \in Tasks :
       tk[p].mem # NULL =>
         /\ payload_to_header(tk[p].mem) \in Used(s.blk)
         /\ tk[p].size + Slack <= s.blk[payload_to_header(tk[p].mem)].size
         /\ \A q \in Tasks \ {p} : tk[p].mem # tk[q].mem
  /\ \A a \in Used(s.blk) :
       \E p \in Tasks : tk[p].mem # NULL /\ payload_to_header(tk[p].mem) = a

Types ==
  /\ task \in [Tasks -> Task]
  /\ next_pid \in Reaper + 1 .. MaxPid + 1
  /\ ring \subseteq Reapers
  /\ zombie_list \in Seq(Programs)
  /\ pass \in [Reapers -> Seq(Programs)]

\* What becomes of a task, from its creation to its release.
LifeCycle ==
  \A p \in Tasks :
    /\ task[p].mem = NULL <=> task[p].state \in {"unborn", "gone"}
    /\ Live(p) => p \in ring /\ task[p].code = "own"
    /\ p \in ring => task[p].mem # NULL
    /\ p >= next_pid => task[p].state = "unborn"

\* A task on zombie_list, or taken off it and not yet released, is a zombie, and
\* is on one list only and there once.
Lists ==
  /\ NoRepeat(zombie_list)
  /\ \A z \in In(zombie_list) : task[z].state = "zombie"
  /\ \A t \in Reapers :
       /\ NoRepeat(pass[t])
       /\ \A z \in In(pass[t]) : task[z].state = "zombie" /\ z \notin In(zombie_list)
       /\ \A u \in Reapers \ {t} : In(pass[t]) \cap In(pass[u]) = {}

\* The invariant of the tasks and of their memory.
LoadInv ==
  /\ GoodArea(area)
  /\ Owns(area, task)
  /\ Types
  /\ LifeCycle
  /\ Lists

\* No task comes to life.
NoneRevived == \A p \in Tasks : Live(p)' => Live(p)

-----------------------------------------------------------------------------
\* The list that is left when reap_zombies_internal has dealt with its head.
LEMMA TailOfList ==
  ASSUME NEW S, NEW s \in Seq(S), s # <<>>
  PROVE  /\ Tail(s) \in Seq(S) /\ Head(s) \in S /\ Head(s) \in In(s)
         /\ In(Tail(s)) \subseteq In(s)
         /\ NoRepeat(s) => NoRepeat(Tail(s)) /\ Head(s) \notin In(Tail(s))
<1>1. /\ Len(s) \in Nat \ {0} /\ Tail(s) \in Seq(S) /\ Head(s) = s[1]
      /\ Len(Tail(s)) = Len(s) - 1
      /\ \A i \in 1 .. Len(s) - 1 : Tail(s)[i] = s[i + 1] /\ i + 1 \in 1 .. Len(s)
      /\ 1 \in 1 .. Len(s) /\ s[1] \in S
  OBVIOUS
<1>2. In(Tail(s)) \subseteq In(s) /\ Head(s) \in In(s)
  BY <1>1 DEF In
<1>3. ASSUME NoRepeat(s) PROVE NoRepeat(Tail(s))
  BY <1>1, <1>3 DEF NoRepeat
<1>4. ASSUME NoRepeat(s), Head(s) \in In(Tail(s)) PROVE FALSE
  <2>1. PICK i \in 1 .. Len(s) - 1 : s[1] = Tail(s)[i]
    BY <1>1, <1>4 DEF In
  <2> QED
    BY <1>1, <1>4, <2>1 DEF NoRepeat
<1> QED
  BY <1>1, <1>2, <1>3, <1>4

\* The list when task_exit has put a task in front.
LEMMA FrontOfList ==
  ASSUME NEW S, NEW s \in Seq(S), NEW p \in S, p \notin In(s), NoRepeat(s)
  PROVE  /\ <<p>> \o s \in Seq(S) /\ NoRepeat(<<p>> \o s)
         /\ In(<<p>> \o s) = {p} \cup In(s)
<1> DEFINE t == <<p>> \o s
<1>1. /\ t \in Seq(S) /\ Len(s) \in Nat /\ Len(t) = Len(s) + 1 /\ t[1] = p
      /\ \A i \in 2 .. Len(s) + 1 : t[i] = s[i - 1] /\ i - 1 \in 1 .. Len(s)
  OBVIOUS
<1> HIDE DEF t
<1>2. NoRepeat(t)
  <2> SUFFICES ASSUME NEW i \in 1 .. Len(t), NEW j \in 1 .. Len(t), t[i] = t[j]
               PROVE  i = j
    BY DEF NoRepeat
  <2>1. CASE i = 1 \/ j = 1
    BY <1>1, <2>1 DEF In
  <2>2. CASE i # 1 /\ j # 1
    BY <1>1, <2>2 DEF NoRepeat
  <2> QED
    BY <2>1, <2>2
<1>3. In(t) \subseteq {p} \cup In(s)
  BY <1>1 DEF In
<1>4. In(s) \subseteq In(t)
  <2> SUFFICES ASSUME NEW i \in 1 .. Len(s) PROVE s[i] \in In(t)
    BY DEF In
  <2>1. i + 1 \in 2 .. Len(s) + 1 /\ i + 1 \in 1 .. Len(t) /\ (i + 1) - 1 = i
    BY <1>1
  <2>2. t[i + 1] = s[i]
    BY <1>1, <2>1
  <2> QED
    BY <2>1, <2>2 DEF In
<1>5. p \in In(t)
  BY <1>1 DEF In
<1> QED
  BY <1>1, <1>2, <1>3, <1>4, <1>5 DEF t

\* No task is on an empty list.
LEMMA EmptyList ==
  ASSUME NEW S
  PROVE  <<>> \in Seq(S) /\ In(<<>>) = {} /\ NoRepeat(<<>>)
BY DEF In, NoRepeat

-----------------------------------------------------------------------------
\* Addresses and sizes of the blocks of a list are numbers.
LEMMA BlocksAreNumbers ==
  ASSUME NEW s, GoodArea(s), NEW a \in DOMAIN s.blk
  PROVE  /\ a \in Nat /\ s.blk[a].size \in Nat
         /\ \A c \in DOMAIN s.blk : a < c => a + 40 + s.blk[a].size <= c
BY DEF GoodArea, WellFormed, IsList, Header, InArea, Disjoint, BlockEnd, SizeofHeader

\* load_and_run_program has taken the block at h for a task that had none.
LEMMA TaskTakesBlock ==
  ASSUME NEW s, NEW t, GoodArea(s), GoodArea(t),
         NEW tk \in [Tasks -> Task], Owns(s, tk),
         NEW h \in DOMAIN s.blk, s.blk[h].free, SameUsed(s.blk, t.blk, h),
         h \in Used(t.blk),
         NEW p \in Tasks, tk[p].mem = NULL,
         NEW r \in Task, r.mem = header_to_payload(h), r.mem # NULL,
         r.size + Slack <= t.blk[h].size
  PROVE  Owns(t, [tk EXCEPT ![p] = r])
<1> DEFINE u == [tk EXCEPT ![p] = r]
<1>1. u[p] = r /\ \A q \in Tasks \ {p} : u[q] = tk[q]
  OBVIOUS
<1>2. h \in Nat /\ payload_to_header(r.mem) = h
  BY BlocksAreNumbers DEF payload_to_header, header_to_payload, SizeofHeader
<1>3. h \notin Used(s.blk)
  BY DEF Used
<1>4. ASSUME NEW q \in Tasks \ {p}, tk[q].mem # NULL
      PROVE  /\ payload_to_header(tk[q].mem) \in Used(t.blk)
             /\ tk[q].size + Slack <= t.blk[payload_to_header(tk[q].mem)].size
             /\ tk[q].mem # r.mem
  BY <1>2, <1>3, <1>4 DEF Owns, SameUsed
<1> HIDE DEF u
<1>5. ASSUME NEW q \in Tasks, u[q].mem # NULL
      PROVE  /\ payload_to_header(u[q].mem) \in Used(t.blk)
             /\ u[q].size + Slack <= t.blk[payload_to_header(u[q].mem)].size
             /\ \A o \in Tasks \ {q} : u[q].mem # u[o].mem
  <2>1. CASE q = p
    BY <1>1, <1>2, <1>4, <2>1
  <2>2. CASE q # p
    BY <1>1, <1>4, <1>5, <2>2 DEF Owns
  <2> QED
    BY <2>1, <2>2
<1>6. ASSUME NEW a \in Used(t.blk)
      PROVE  \E q \in Tasks : u[q].mem # NULL /\ payload_to_header(u[q].mem) = a
  <2>1. CASE a = h
    BY <1>1, <1>2, <2>1
  <2>2. CASE a # h
    <3>1. a \in Used(s.blk)
      BY <2>2 DEF SameUsed
    <3>2. PICK q \in Tasks : tk[q].mem # NULL /\ payload_to_header(tk[q].mem) = a
      BY <3>1 DEF Owns
    <3>3. q # p
      BY <3>2
    <3> QED
      BY <1>1, <3>2, <3>3
  <2> QED
    BY <2>1, <2>2
<1> QED
  BY <1>5, <1>6 DEF Owns, u

\* free_task_resources has released the block of task p.
LEMMA TaskGivesBlock ==
  ASSUME NEW s, GoodArea(s), NEW tk \in [Tasks -> Task], Owns(s, tk),
         NEW p \in Tasks, tk[p].mem # NULL,
         NEW r \in Task, r.mem = NULL
  PROVE  GoodArea(release(s, tk[p].mem)) /\ Owns(release(s, tk[p].mem), [tk EXCEPT ![p] = r])
<1> DEFINE u == [tk EXCEPT ![p] = r]
           h == payload_to_header(tk[p].mem)
           t == release(s, tk[p].mem)
<1>1. u[p] = r /\ \A q \in Tasks \ {p} : u[q] = tk[q]
  OBVIOUS
<1>2. \A q \in Tasks : tk[q].mem \in Nat
  BY DEF Task
<1>3. h \in Used(s.blk) /\ h \in DOMAIN s.blk
  BY DEF Owns, Used
<1>4. GoodArea(t) /\ SameUsed(s.blk, t.blk, h) /\ h \notin Used(t.blk)
  BY <1>2, <1>3, Release
<1>5. ASSUME NEW q \in Tasks \ {p}, tk[q].mem # NULL
      PROVE  payload_to_header(tk[q].mem) # h
  <2>1. tk[q].mem # tk[p].mem
    BY <1>5 DEF Owns
  <2> QED
    BY <1>2, <2>1 DEF payload_to_header, SizeofHeader
<1> HIDE DEF u, h, t
<1>6. ASSUME NEW q \in Tasks, u[q].mem # NULL
      PROVE  /\ payload_to_header(u[q].mem) \in Used(t.blk)
             /\ u[q].size + Slack <= t.blk[payload_to_header(u[q].mem)].size
             /\ \A o \in Tasks \ {q} : u[q].mem # u[o].mem
  <2>1. q # p /\ u[q] = tk[q]
    BY <1>1, <1>6
  <2>2. payload_to_header(u[q].mem) \in Used(s.blk) \ {h}
    BY <1>5, <1>6, <2>1 DEF Owns
  <2>3. \A o \in Tasks \ {q} : u[q].mem # u[o].mem
    BY <1>1, <1>6, <2>1 DEF Owns
  <2> QED
    BY <1>4, <1>6, <2>1, <2>2, <2>3 DEF Owns, SameUsed
<1>7. ASSUME NEW a \in Used(t.blk)
      PROVE  \E q \in Tasks : u[q].mem # NULL /\ payload_to_header(u[q].mem) = a
  <2>1. a # h /\ a \in Used(s.blk)
    BY <1>4 DEF SameUsed
  <2>2. PICK q \in Tasks : tk[q].mem # NULL /\ payload_to_header(tk[q].mem) = a
    BY <2>1 DEF Owns
  <2>3. q # p
    BY <2>1, <2>2 DEF h
  <2> QED
    BY <1>1, <2>2, <2>3
<1> QED
  BY <1>4, <1>6, <1>7 DEF Owns, u, t

\* The memory that load_and_run_program gets for a file of n bytes: no file of
\* another task lies there.
LEMMA LoadTakesFreeBlock ==
  ASSUME GoodArea(area), Owns(area, task), task \in [Tasks -> Task],
         NEW n \in Nat, n + Slack + ALIGN <= WORD,
         NEW r, r = allocate(area, n + Slack), r.ptr # NULL
  PROVE  /\ GoodArea(r.area)
         /\ Overwritten(r.ptr, n) = task
         /\ \E h \in DOMAIN area.blk :
              /\ r.ptr = header_to_payload(h) /\ area.blk[h].free
              /\ SameUsed(area.blk, r.area.blk, h)
              /\ h \in Used(r.area.blk) /\ n + Slack <= r.area.blk[h].size
<1>1. n + Slack \in SizeT /\ Granted(n + Slack) = n + Slack /\ Slack \in Nat
  BY LoadAssumption, AreaAssumption DEF SizeT, Granted, ALIGN
<1>2. GoodArea(r.area)
  BY <1>1, Allocate
<1>3. PICK h \in DOMAIN area.blk :
        /\ r.ptr = header_to_payload(h) /\ area.blk[h].free
        /\ h \in DOMAIN r.area.blk /\ ~ r.area.blk[h].free
        /\ Granted(n + Slack) <= r.area.blk[h].size
        /\ SameUsed(area.blk, r.area.blk, h)
  BY <1>1, Allocate
<1>4. h \in Used(r.area.blk) /\ h \notin Used(area.blk) /\ n + Slack <= r.area.blk[h].size
  BY <1>1, <1>3 DEF Used
<1>5. ASSUME NEW t \in Tasks, task[t].mem # NULL
      PROVE  Apart(r.ptr, n, task[t].mem, task[t].size)
  <2> DEFINE a == payload_to_header(task[t].mem)
             b == r.area.blk
  <2>1. /\ a \in Used(area.blk) /\ task[t].size + Slack <= area.blk[a].size
        /\ task[t].mem \in Nat /\ task[t].size \in Nat
    BY <1>5 DEF Owns, Task
  <2>2. a # h /\ a \in Used(b) /\ b[a].size = area.blk[a].size
    BY <1>3, <1>4, <2>1 DEF SameUsed
  <2>3. a \in DOMAIN b /\ h \in DOMAIN b
    BY <1>3, <2>2 DEF Used
  <2>4. /\ a \in Nat /\ b[a].size \in Nat /\ h \in Nat /\ b[h].size \in Nat
        /\ a < h => a + 40 + b[a].size <= h
        /\ h < a => h + 40 + b[h].size <= a
    BY <1>2, <2>3, BlocksAreNumbers
  <2>5. task[t].mem = a + 40 /\ r.ptr = h + 40
    BY <1>3, <2>1, <2>4 DEF payload_to_header, header_to_payload, SizeofHeader
  <2> HIDE DEF a, b
  <2>6. n + Slack <= b[h].size /\ task[t].size + Slack <= b[a].size
    BY <1>4, <2>1, <2>2 DEF b
  <2> QED
    BY <1>1, <2>1, <2>2, <2>4, <2>5, <2>6 DEF Apart
<1>6. Overwritten(r.ptr, n) = task
  BY <1>5 DEF Overwritten
<1> QED
  BY <1>2, <1>3, <1>4, <1>6

\* When there is no task for the memory, it is given back and the tasks own the
\* same blocks as before.
LEMMA FailGivesBack ==
  ASSUME NEW s, NEW t, GoodArea(s), GoodArea(t), NEW tk \in [Tasks -> Task], Owns(s, tk),
         NEW h \in DOMAIN s.blk, s.blk[h].free, SameUsed(s.blk, t.blk, h),
         h \in Used(t.blk)
  PROVE  LET u == release(t, header_to_payload(h))
         IN  GoodArea(u) /\ Owns(u, tk)
<1> DEFINE u == release(t, header_to_payload(h))
<1>1. /\ h \in DOMAIN t.blk /\ h \in Nat /\ header_to_payload(h) \in Nat
      /\ payload_to_header(header_to_payload(h)) = h
  BY BlocksAreNumbers DEF Used, payload_to_header, header_to_payload, SizeofHeader
<1>2. GoodArea(u) /\ SameUsed(t.blk, u.blk, h) /\ h \notin Used(u.blk)
  BY <1>1, Release
<1> HIDE DEF u
<1>3. h \notin Used(s.blk)
  BY DEF Used
<1>4. Used(u.blk) = Used(s.blk)
  BY <1>2, <1>3 DEF SameUsed
<1>5. \A a \in Used(s.blk) : u.blk[a].size = s.blk[a].size
  BY <1>2, <1>3 DEF SameUsed
<1>6. Owns(u, tk)
  BY <1>4, <1>5 DEF Owns
<1> QED
  BY <1>2, <1>6 DEF u

-----------------------------------------------------------------------------
\* A pass of reap_zombies_internal begins: t has the list now.
LEMMA BeginKeepsLists ==
  ASSUME Types, Lists, NEW t \in Reapers, ReapBegin(t),
         \A z \in Programs : task[z].state = "zombie" => task'[z].state = "zombie"
  PROVE  /\ Lists' /\ In(zombie_list') = {}
         /\ zombie_list' \in Seq(Programs) /\ pass' \in [Reapers -> Seq(Programs)]
<1>1. /\ zombie_list' \in Seq(Programs) /\ In(zombie_list') = {} /\ NoRepeat(zombie_list')
  BY EmptyList DEF ReapBegin
<1>2. /\ pass' \in [Reapers -> Seq(Programs)]
      /\ pass'[t] = zombie_list
      /\ \A u \in Reapers \ {t} : pass'[u] = pass[u]
  BY DEF ReapBegin, Types
<1>3. /\ \A z \in In(zombie_list) : z \in Programs
      /\ \A u \in Reapers : \A z \in In(pass[u]) : z \in Programs
  BY DEF In, Types
<1>4. ASSUME NEW u \in Reapers
      PROVE  NoRepeat(pass'[u]) /\ \A z \in In(pass'[u]) : task'[z].state = "zombie"
  BY <1>2, <1>3 DEF Lists
<1>5. ASSUME NEW u \in Reapers, NEW v \in Reapers \ {u}
      PROVE  In(pass'[u]) \cap In(pass'[v]) = {}
  BY <1>2 DEF Lists
<1>6. Lists'
  BY <1>1, <1>4, <1>5 DEF Lists
<1> QED
  BY <1>1, <1>2, <1>6

\* load_and_run_terminal has given the first block to the terminal.
LEMMA LoadInitInv == LoadInit => LoadInv
<1> SUFFICES ASSUME LoadInit PROVE LoadInv
  OBVIOUS
<1> USE DEF Terminal, Reaper
<1> DEFINE s == [blk |-> OneBlock, tail |-> Start]
           r == allocate(s, TerminalSize + Slack)
           none == [p \in Tasks |-> Unborn]
           first == [state |-> "live", mem |-> r.ptr, size |-> TerminalSize, code |-> "own"]
<1>1. /\ r.ptr # NULL /\ area = r.area
      /\ task = [p \in Tasks |-> IF p # Terminal THEN Unborn ELSE first]
      /\ next_pid = 4 /\ ring = {2, 3}
      /\ zombie_list = <<>> /\ pass = [t \in Reapers |-> <<>>]
  BY DEF LoadInit, Tasks
<1>2. GoodArea(s) /\ Used(s.blk) = {}
  BY OneBlockWF, AreaAssumption DEF GoodArea, Used, OneBlock
<1>3. /\ TerminalSize + Slack \in SizeT /\ TerminalSize \in Nat /\ Slack \in Nat
      /\ Granted(TerminalSize + Slack) = TerminalSize + Slack
  BY LoadAssumption, AreaAssumption DEF SizeT, Granted, ALIGN
<1>4. GoodArea(area)
  BY <1>1, <1>2, <1>3, Allocate
<1>5. PICK h \in DOMAIN s.blk :
        /\ r.ptr = header_to_payload(h) /\ s.blk[h].free
        /\ h \in DOMAIN r.area.blk /\ ~ r.area.blk[h].free
        /\ TerminalSize + Slack <= r.area.blk[h].size
        /\ SameUsed(s.blk, r.area.blk, h)
  BY <1>1, <1>2, <1>3, Allocate
<1>6. h \in Nat /\ h \in Used(area.blk) /\ r.ptr \in Nat
  BY <1>1, <1>2, <1>5, BlocksAreNumbers DEF Used, header_to_payload, SizeofHeader
<1> HIDE DEF r
<1>7. /\ Unborn \in Task /\ Unborn.mem = NULL /\ Unborn.state = "unborn"
      /\ first \in Task /\ first.mem = r.ptr /\ first.size = TerminalSize
      /\ first.state = "live" /\ first.code = "own"
  BY <1>3, <1>6 DEF Unborn, Task, NULL
<1> HIDE DEF first, s
<1>8. none \in [Tasks -> Task] /\ \A p \in Tasks : none[p].mem = NULL
  BY <1>7
<1>9. Terminal \in Tasks /\ task = [none EXCEPT ![Terminal] = first] /\ task \in [Tasks -> Task]
  BY <1>1, <1>7 DEF Tasks
<1> HIDE DEF none
<1>10. Owns(s, none)
  BY <1>2, <1>8 DEF Owns
<1>11. Owns(area, task)
  <2>1. SameUsed(s.blk, area.blk, h) /\ first.size + Slack <= area.blk[h].size
    BY <1>1, <1>5, <1>7
  <2>2. first.mem = header_to_payload(h) /\ first.mem # NULL /\ none[Terminal].mem = NULL
    BY <1>1, <1>5, <1>7, <1>8, <1>9
  <2>3. Owns(area, [none EXCEPT ![Terminal] = first])
    BY <1>2, <1>4, <1>5, <1>6, <1>7, <1>8, <1>9, <1>10, <2>1, <2>2, TaskTakesBlock
  <2> QED
    BY <1>9, <2>3
<1>12. Types
  BY <1>1, <1>9, EmptyList, LoadAssumption DEF Types, Reapers
<1>13. LifeCycle
  BY <1>1, <1>7 DEF LifeCycle, Live, Tasks, Programs
<1>14. Lists
  BY <1>1, EmptyList DEF Lists
<1> QED
  BY <1>4, <1>11, <1>12, <1>13, <1>14 DEF LoadInv

\* A task calls reap_zombies_internal, perhaps on its way to its end.
LEMMA BeginKeepsInv ==
  ASSUME LoadInv, NEW t \in Reapers, ReapBegin(t),
         task' \in [Tasks -> Task],
         \A p \in Tasks :
           /\ task'[p].mem = task[p].mem /\ task'[p].size = task[p].size
           /\ task'[p].code = task[p].code
           /\ \/ task'[p].state = task[p].state
              \/ task[p].state = "live" /\ task'[p].state = "exiting"
  PROVE  LoadInv' /\ NoneRevived /\ In(zombie_list') = {}
<1>1. GoodArea(area) /\ Owns(area, task) /\ Types /\ LifeCycle /\ Lists
  BY DEF LoadInv
<1>2. area' = area /\ next_pid' = next_pid /\ ring' = ring
  BY DEF ReapBegin
<1>3. \A z \in Programs : task[z].state = "zombie" => task'[z].state = "zombie"
  BY DEF Tasks
<1>4. /\ Lists' /\ In(zombie_list') = {}
      /\ zombie_list' \in Seq(Programs) /\ pass' \in [Reapers -> Seq(Programs)]
  BY <1>1, <1>3, BeginKeepsLists
<1>5. GoodArea(area') /\ Owns(area', task')
  BY <1>1, <1>2 DEF Owns
<1>6. Types'
  BY <1>1, <1>2, <1>4 DEF Types
<1>7. \A p \in Tasks : Live(p)' <=> Live(p)
  BY DEF Live
<1>8. LifeCycle'
  <2> SUFFICES ASSUME NEW p \in Tasks
               PROVE  /\ task'[p].mem = NULL <=> task'[p].state \in {"unborn", "gone"}
                      /\ Live(p)' => p \in ring' /\ task'[p].code = "own"
                      /\ p \in ring' => task'[p].mem # NULL
                      /\ p >= next_pid' => task'[p].state = "unborn"
    BY DEF LifeCycle
  <2> QED
    BY <1>1, <1>2, <1>7 DEF LifeCycle
<1> QED
  BY <1>4, <1>5, <1>6, <1>7, <1>8 DEF LoadInv, NoneRevived

\* reap_zombies_internal takes a zombie out of the ring.
LEMMA UnlinkKeepsInv ==
  ASSUME LoadInv, NEW t \in Reapers, ReapUnlink(t)
  PROVE  LoadInv' /\ NoneRevived
<1>1. GoodArea(area) /\ Owns(area, task) /\ Types /\ LifeCycle /\ Lists
  BY DEF LoadInv
<1>2. /\ area' = area /\ task' = task /\ next_pid' = next_pid /\ zombie_list' = zombie_list
      /\ pass' = pass /\ ring' = ring \ {Head(pass[t])}
  BY DEF ReapUnlink
<1>3. task[Head(pass[t])].state = "zombie"
  <2>1. pass[t] \in Seq(Programs) /\ pass[t] # <<>>
    BY <1>1 DEF Types, ReapUnlink
  <2> QED
    BY <1>1, <2>1, TailOfList DEF Lists
<1>4. Types'
  BY <1>1, <1>2 DEF Types
<1>5. LifeCycle'
  BY <1>1, <1>2, <1>3 DEF LifeCycle, Live
<1>6. Lists' /\ NoneRevived
  BY <1>1, <1>2 DEF Lists, NoneRevived, Live
<1> QED
  BY <1>1, <1>2, <1>4, <1>5, <1>6 DEF LoadInv

\* free_task_resources releases the memory of one task and forgets it.
LEMMA FreeTask ==
  ASSUME GoodArea(area), Owns(area, task), task \in [Tasks -> Task],
         NEW z \in Tasks, task[z].mem # NULL, free_task_resources(z)
  PROVE  /\ GoodArea(area') /\ Owns(area', task') /\ task' \in [Tasks -> Task]
         /\ task'[z].state = "gone" /\ task'[z].mem = NULL
         /\ \A p \in Tasks \ {z} : task'[p] = task[p]
<1> DEFINE r == [state |-> "gone", mem |-> NULL, size |-> task[z].size, code |-> task[z].code]
<1>1. task[z] \in Task
  OBVIOUS
<1>2. r \in Task /\ r.mem = NULL /\ r.state = "gone"
  BY <1>1 DEF Task, NULL
<1>3. task' = [task EXCEPT ![z] = r]
  BY <1>1 DEF free_task_resources, Task
<1>4. area' = release(area, task[z].mem)
  BY DEF free_task_resources
<1> HIDE DEF r
<1>5. GoodArea(area') /\ Owns(area', task')
  BY <1>2, <1>3, <1>4, TaskGivesBlock
<1> QED
  BY <1>2, <1>3, <1>5

\* reap_zombies_internal releases the zombie.
LEMMA FreeKeepsInv ==
  ASSUME LoadInv, NEW t \in Reapers, ReapFree(t)
  PROVE  LoadInv' /\ NoneRevived
<1> DEFINE z == Head(pass[t])
<1>1. GoodArea(area) /\ Owns(area, task) /\ Types /\ LifeCycle /\ Lists
  BY DEF LoadInv
<1>2. /\ next_pid' = next_pid /\ zombie_list' = zombie_list /\ ring' = ring
      /\ pass' = [pass EXCEPT ![t] = Tail(@)] /\ z \notin ring
      /\ free_task_resources(z) /\ pass[t] # <<>>
  BY DEF ReapFree
<1>3. /\ z \in Programs /\ z \in In(pass[t]) /\ Tail(pass[t]) \in Seq(Programs)
      /\ In(Tail(pass[t])) \subseteq In(pass[t])
      /\ NoRepeat(Tail(pass[t])) /\ z \notin In(Tail(pass[t]))
  <2>1. pass[t] \in Seq(Programs) /\ NoRepeat(pass[t])
    BY <1>1 DEF Types, Lists
  <2> QED
    BY <1>2, <2>1, TailOfList
<1> HIDE DEF z
<1>4. z \in Tasks /\ task[z].state = "zombie" /\ task[z].mem # NULL
  BY <1>1, <1>3 DEF Lists, LifeCycle, Tasks
<1>5. /\ GoodArea(area') /\ Owns(area', task') /\ task' \in [Tasks -> Task]
      /\ task'[z].state = "gone" /\ task'[z].mem = NULL
      /\ \A p \in Tasks \ {z} : task'[p] = task[p]
  BY <1>1, <1>2, <1>4, FreeTask DEF Types
<1>6. /\ pass' \in [Reapers -> Seq(Programs)] /\ pass'[t] = Tail(pass[t])
      /\ \A u \in Reapers \ {t} : pass'[u] = pass[u]
  BY <1>1, <1>2, <1>3 DEF Types
<1>7. Types'
  BY <1>1, <1>2, <1>5, <1>6 DEF Types
<1>8. LifeCycle'
  <2> SUFFICES ASSUME NEW p \in Tasks
               PROVE  /\ task'[p].mem = NULL <=> task'[p].state \in {"unborn", "gone"}
                      /\ Live(p)' => p \in ring' /\ task'[p].code = "own"
                      /\ p \in ring' => task'[p].mem # NULL
                      /\ p >= next_pid' => task'[p].state = "unborn"
    BY DEF LifeCycle
  <2>1. CASE p = z
    BY <1>1, <1>2, <1>4, <1>5, <2>1 DEF LifeCycle, Live
  <2>2. CASE p # z
    BY <1>1, <1>2, <1>5, <2>2 DEF LifeCycle, Live
  <2> QED
    BY <2>1, <2>2
<1>9. Lists'
  <2>1. /\ \A o \in In(zombie_list) : o \in Tasks
        /\ \A u \in Reapers : \A o \in In(pass[u]) : o \in Tasks
    BY <1>1 DEF Types, In, Tasks
  <2>2. ASSUME NEW o \in In(zombie_list) PROVE task'[o].state = "zombie"
    <3>1. o # z
      BY <1>1, <1>3 DEF Lists
    <3> QED
      BY <1>1, <1>5, <2>1, <3>1 DEF Lists
  <2>3. ASSUME NEW u \in Reapers
        PROVE  In(pass'[u]) \subseteq In(pass[u]) /\ z \notin In(pass'[u]) /\ NoRepeat(pass'[u])
    <3>1. CASE u = t
      BY <1>3, <1>6, <3>1
    <3>2. CASE u # t
      BY <1>1, <1>3, <1>6, <3>2 DEF Lists
    <3> QED
      BY <3>1, <3>2
  <2>4. ASSUME NEW u \in Reapers, NEW o \in In(pass'[u])
        PROVE  task'[o].state = "zombie" /\ o \notin In(zombie_list)
    <3>1. o \in In(pass[u]) /\ o # z
      BY <2>3
    <3> QED
      BY <1>1, <1>5, <2>1, <3>1 DEF Lists
  <2>5. ASSUME NEW u \in Reapers, NEW v \in Reapers \ {u}
        PROVE  In(pass'[u]) \cap In(pass'[v]) = {}
    BY <1>1, <2>3 DEF Lists
  <2>6. NoRepeat(zombie_list)
    BY <1>1 DEF Lists
  <2> QED
    BY <1>2, <2>2, <2>3, <2>4, <2>5, <2>6 DEF Lists
<1>10. NoneRevived
  BY <1>5 DEF NoneRevived, Live
<1> QED
  BY <1>5, <1>7, <1>8, <1>9, <1>10 DEF LoadInv

\* task_exit marks the task, which then is on zombie_list or on no list.
LEMMA MarkKeepsInv ==
  ASSUME LoadInv, NEW p \in Programs, ExitMark(p)
  PROVE  /\ LoadInv' /\ NoneRevived
         /\ Live(p) /\ In(zombie_list') \subseteq {p} \cup In(zombie_list)
<1>1. /\ GoodArea(area) /\ Owns(area, task) /\ Types /\ LifeCycle /\ Lists
  BY DEF LoadInv
<1>2. /\ area' = area /\ next_pid' = next_pid /\ ring' = ring /\ pass' = pass
      /\ task' = [task EXCEPT ![p].state = "zombie"] /\ task[p].state = "exiting"
      /\ zombie_list' = <<p>> \o zombie_list \/ zombie_list' = zombie_list
  BY DEF ExitMark
<1>3. p \in Tasks /\ task[p] \in Task
  BY <1>1 DEF Tasks, Types
<1>4. /\ task' \in [Tasks -> Task] /\ task'[p].state = "zombie"
      /\ task'[p].mem = task[p].mem /\ task'[p].size = task[p].size
      /\ task'[p].code = task[p].code
      /\ \A q \in Tasks \ {p} : task'[q] = task[q]
  BY <1>1, <1>2, <1>3 DEF Types, Task
<1>5. \A q \in Tasks : task'[q].mem = task[q].mem /\ task'[q].size = task[q].size
  BY <1>4
<1>6. GoodArea(area') /\ Owns(area', task')
  BY <1>1, <1>2, <1>5 DEF Owns
<1>7. p \notin In(zombie_list) /\ \A t \in Reapers : p \notin In(pass[t])
  BY <1>1, <1>2 DEF Lists
<1>8. /\ zombie_list' \in Seq(Programs) /\ NoRepeat(zombie_list')
      /\ In(zombie_list') \subseteq {p} \cup In(zombie_list)
  <2>1. zombie_list \in Seq(Programs) /\ NoRepeat(zombie_list)
    BY <1>1 DEF Types, Lists
  <2>2. /\ <<p>> \o zombie_list \in Seq(Programs) /\ NoRepeat(<<p>> \o zombie_list)
        /\ In(<<p>> \o zombie_list) = {p} \cup In(zombie_list)
    BY <1>7, <2>1, FrontOfList
  <2>3. CASE zombie_list' = <<p>> \o zombie_list
    BY <2>2, <2>3
  <2>4. CASE zombie_list' = zombie_list
    BY <2>1, <2>4
  <2> QED
    BY <1>2, <2>3, <2>4
<1>9. Types'
  BY <1>1, <1>2, <1>4, <1>8 DEF Types
<1>10. LifeCycle'
  <2> SUFFICES ASSUME NEW q \in Tasks
               PROVE  /\ task'[q].mem = NULL <=> task'[q].state \in {"unborn", "gone"}
                      /\ Live(q)' => q \in ring' /\ task'[q].code = "own"
                      /\ q \in ring' => task'[q].mem # NULL
                      /\ q >= next_pid' => task'[q].state = "unborn"
    BY DEF LifeCycle
  <2>1. CASE q = p
    BY <1>1, <1>2, <1>3, <1>4, <2>1 DEF LifeCycle, Live
  <2>2. CASE q # p
    BY <1>1, <1>2, <1>4, <2>2 DEF LifeCycle, Live
  <2> QED
    BY <2>1, <2>2
<1>11. Lists'
  <2>1. /\ \A z \in In(zombie_list) : z \in Tasks
        /\ \A u \in Reapers : \A z \in In(pass[u]) : z \in Tasks
    BY <1>1 DEF Types, In, Tasks
  <2>2. ASSUME NEW z \in In(zombie_list') PROVE task'[z].state = "zombie"
    BY <1>1, <1>4, <1>8, <2>1 DEF Lists
  <2>3. ASSUME NEW u \in Reapers, NEW z \in In(pass[u])
        PROVE  task'[z].state = "zombie" /\ z \notin In(zombie_list')
    BY <1>1, <1>4, <1>7, <1>8, <2>1 DEF Lists
  <2>4. \A u \in Reapers : /\ NoRepeat(pass[u])
                           /\ \A v \in Reapers \ {u} : In(pass[u]) \cap In(pass[v]) = {}
    BY <1>1 DEF Lists
  <2> QED
    BY <1>2, <1>8, <2>2, <2>3, <2>4 DEF Lists
<1>12. Live(p) /\ NoneRevived
  BY <1>2, <1>4 DEF NoneRevived, Live
<1> QED
  BY <1>6, <1>8, <1>9, <1>10, <1>11, <1>12 DEF LoadInv

\* TASK_STOP releases a task that it finds in the ring and that is on no list,
\* and takes the list.
LEMMA StopKeepsInv ==
  ASSUME LoadInv, \A t \in Reapers : pass[t] = <<>>,
         NEW s \in Programs, s \in ring, s \notin In(zombie_list), s < next_pid,
         free_task_resources(s), ring' = ring \ {s}, next_pid' = next_pid,
         pass' = [pass EXCEPT ![Terminal] = zombie_list], zombie_list' = <<>>
  PROVE  LoadInv'
<1>1. GoodArea(area) /\ Owns(area, task) /\ Types /\ LifeCycle /\ Lists
  BY DEF LoadInv
<1>2. s \in Tasks /\ s \in Nat /\ Terminal \in Reapers /\ next_pid \in Nat
  BY <1>1 DEF Tasks, Programs, Reapers, Types, Reaper
<1>3. task[s].mem # NULL
  BY <1>1, <1>2 DEF LifeCycle
<1>4. /\ GoodArea(area') /\ Owns(area', task') /\ task' \in [Tasks -> Task]
      /\ task'[s].state = "gone" /\ task'[s].mem = NULL
      /\ \A p \in Tasks \ {s} : task'[p] = task[p]
  BY <1>1, <1>2, <1>3, FreeTask DEF Types
<1>5. zombie_list' \in Seq(Programs) /\ In(zombie_list') = {} /\ NoRepeat(zombie_list')
  BY EmptyList
<1>6. /\ pass' \in [Reapers -> Seq(Programs)] /\ pass'[Terminal] = zombie_list
      /\ \A u \in Reapers \ {Terminal} : pass'[u] = <<>>
  BY <1>1, <1>2 DEF Types
<1>7. Types'
  BY <1>1, <1>4, <1>5, <1>6 DEF Types
<1>8. LifeCycle'
  <2> SUFFICES ASSUME NEW p \in Tasks
               PROVE  /\ task'[p].mem = NULL <=> task'[p].state \in {"unborn", "gone"}
                      /\ Live(p)' => p \in ring' /\ task'[p].code = "own"
                      /\ p \in ring' => task'[p].mem # NULL
                      /\ p >= next_pid' => task'[p].state = "unborn"
    BY DEF LifeCycle
  <2>1. CASE p = s
    BY <1>2, <1>4, <2>1 DEF Live
  <2>2. CASE p # s
    BY <1>1, <1>4, <2>2 DEF LifeCycle, Live
  <2> QED
    BY <2>1, <2>2
<1>9. Lists'
  <2>1. ASSUME NEW z \in In(zombie_list) PROVE task'[z].state = "zombie"
    <3>1. z \in Tasks /\ z # s
      BY <1>1 DEF Types, In, Tasks
    <3> QED
      BY <1>1, <1>4, <3>1 DEF Lists
  <2>2. NoRepeat(zombie_list) /\ In(<<>>) = {} /\ NoRepeat(<<>>)
    BY <1>1, EmptyList DEF Lists
  <2>3. ASSUME NEW u \in Reapers
        PROVE  NoRepeat(pass'[u]) /\ \A z \in In(pass'[u]) : task'[z].state = "zombie"
    BY <1>6, <2>1, <2>2
  <2>4. ASSUME NEW u \in Reapers, NEW v \in Reapers \ {u}
        PROVE  In(pass'[u]) \cap In(pass'[v]) = {}
    BY <1>6, <2>2
  <2> QED
    BY <1>5, <2>3, <2>4 DEF Lists
<1> QED
  BY <1>4, <1>7, <1>8, <1>9 DEF LoadInv

\* load_and_run_program with a new task.
LEMMA NewTaskLoaded ==
  ASSUME LoadInv, NEW n \in Nat, n + Slack + ALIGN <= WORD,
         NEW r, r = allocate(area, n + Slack), r.ptr # NULL,
         Loaded(r, n), UNCHANGED <<zombie_list, pass>>
  PROVE  LoadInv' /\ next_pid \in Programs /\ next_pid' = next_pid + 1
<1> DEFINE new == [state |-> "live", mem |-> r.ptr, size |-> n, code |-> "own"]
<1>1. /\ GoodArea(area) /\ Owns(area, task) /\ Types /\ LifeCycle /\ Lists
      /\ task \in [Tasks -> Task] /\ next_pid \in Reaper + 1 .. MaxPid + 1
  BY DEF LoadInv, Types
<1>2. GoodArea(r.area) /\ Overwritten(r.ptr, n) = task
  BY <1>1, LoadTakesFreeBlock
<1>3. PICK h \in DOMAIN area.blk :
        /\ r.ptr = header_to_payload(h) /\ area.blk[h].free
        /\ SameUsed(area.blk, r.area.blk, h)
        /\ h \in Used(r.area.blk) /\ n + Slack <= r.area.blk[h].size
  BY <1>1, LoadTakesFreeBlock
<1>4. /\ area' = r.area /\ task' = [task EXCEPT ![next_pid] = new]
      /\ next_pid' = next_pid + 1 /\ ring' = ring \cup {next_pid} /\ next_pid <= MaxPid
      /\ zombie_list' = zombie_list /\ pass' = pass
  BY <1>2 DEF Loaded
<1>5. /\ next_pid \in Nat /\ next_pid \in Programs /\ next_pid \in Tasks
      /\ next_pid' \in Reaper + 1 .. MaxPid + 1
  BY <1>1, <1>4, LoadAssumption DEF Programs, Tasks, Reaper
<1>6. task[next_pid].state = "unborn" /\ task[next_pid].mem = NULL
  BY <1>1, <1>5 DEF LifeCycle
<1>7. /\ new \in Task /\ new.mem = header_to_payload(h) /\ new.mem # NULL
      /\ new.size + Slack <= r.area.blk[h].size
      /\ new.state = "live" /\ new.code = "own"
  <2>1. h \in Nat
    BY <1>1, BlocksAreNumbers
  <2>2. r.ptr \in Nat
    BY <1>3, <2>1 DEF header_to_payload, SizeofHeader
  <2> QED
    BY <1>3, <2>2 DEF Task
<1> HIDE DEF new
<1>8. GoodArea(area') /\ Owns(area', task')
  <2>1. Owns(r.area, [task EXCEPT ![next_pid] = new])
    BY <1>1, <1>2, <1>3, <1>5, <1>6, <1>7, TaskTakesBlock
  <2> QED
    BY <1>2, <1>4, <2>1
<1>9. /\ task' \in [Tasks -> Task] /\ task'[next_pid] = new
      /\ \A p \in Tasks \ {next_pid} : task'[p] = task[p]
  BY <1>1, <1>4, <1>5, <1>7
<1>10. Types'
  BY <1>1, <1>4, <1>5, <1>9 DEF Types, Reapers
<1>11. LifeCycle'
  <2> SUFFICES ASSUME NEW p \in Tasks
               PROVE  /\ task'[p].mem = NULL <=> task'[p].state \in {"unborn", "gone"}
                      /\ Live(p)' => p \in ring' /\ task'[p].code = "own"
                      /\ p \in ring' => task'[p].mem # NULL
                      /\ p >= next_pid' => task'[p].state = "unborn"
    BY DEF LifeCycle
  <2>1. CASE p = next_pid
    BY <1>4, <1>5, <1>7, <1>9, <2>1 DEF Live
  <2>2. CASE p # next_pid
    <3>1. p \in Nat
      BY DEF Tasks, Terminal, Programs
    <3>2. p >= next_pid' => p >= next_pid
      BY <1>4, <1>5, <3>1
    <3> QED
      BY <1>1, <1>4, <1>9, <2>2, <3>2 DEF LifeCycle, Live
  <2> QED
    BY <2>1, <2>2
<1>12. Lists'
  <2>1. /\ \A z \in In(zombie_list) : z \in Tasks
        /\ \A u \in Reapers : \A z \in In(pass[u]) : z \in Tasks
    BY <1>1 DEF Types, In, Tasks
  <2>2. ASSUME NEW z \in Tasks, task[z].state = "zombie" PROVE task'[z].state = "zombie"
    BY <1>6, <1>9, <2>2
  <2> QED
    BY <1>1, <1>4, <2>1, <2>2 DEF Lists
<1> QED
  BY <1>4, <1>5, <1>8, <1>10, <1>11, <1>12 DEF LoadInv

\* load_and_run_program: either nothing is loaded and what was taken has been
\* given back, or there is one more task.
LEMMA LoadKeepsInv ==
  ASSUME LoadInv, NEW name, NEW pid, load_and_run_program(name, pid)
  PROVE  /\ LoadInv' /\ zombie_list' = zombie_list
         /\ \/ pid \in {-1, 0} /\ task' = task /\ next_pid' = next_pid
            \/ pid = next_pid /\ pid \in Programs /\ next_pid' = next_pid + 1
<1>1. GoodArea(area) /\ Owns(area, task) /\ task \in [Tasks -> Task]
  BY DEF LoadInv, Types
<1>2. ASSUME GoodArea(area'), Owns(area', task),
             UNCHANGED <<task, next_pid, ring, zombie_list, pass>>
      PROVE  LoadInv'
  <2>1. /\ task' = task /\ next_pid' = next_pid /\ ring' = ring
        /\ zombie_list' = zombie_list /\ pass' = pass
    BY <1>2
  <2>2. Types' /\ LifeCycle' /\ Lists'
    BY <2>1 DEF LoadInv, Types, LifeCycle, Live, Lists
  <2> QED
    BY <1>2, <2>1, <2>2 DEF LoadInv
<1>3. CASE NoTask(name, pid)
  BY <1>1, <1>2, <1>3 DEF NoTask, loadVars
<1>4. ASSUME name \in DOMAIN Files, Files[name] > 0,
             NEW r, r = allocate(area, Files[name] + Slack),
             \/ r.ptr = NULL /\ pid = 0 /\ UNCHANGED <<area, task, next_pid, ring>>
             \/ r.ptr # NULL /\ pid = 0 /\ Fail(r, Files[name])
             \/ r.ptr # NULL /\ pid = next_pid /\ Loaded(r, Files[name]),
             UNCHANGED <<zombie_list, pass>>
      PROVE  /\ LoadInv'
             /\ \/ pid \in {-1, 0} /\ task' = task /\ next_pid' = next_pid
                \/ pid = next_pid /\ pid \in Programs /\ next_pid' = next_pid + 1
  <2>1. Files[name] \in Nat /\ Files[name] + Slack + ALIGN <= WORD
    BY <1>4, LoadAssumption
  <2>2. CASE r.ptr = NULL /\ pid = 0 /\ UNCHANGED <<area, task, next_pid, ring>>
    BY <1>1, <1>2, <1>4, <2>2
  <2>3. CASE r.ptr # NULL /\ pid = 0 /\ Fail(r, Files[name])
    <3>1. GoodArea(r.area) /\ Overwritten(r.ptr, Files[name]) = task
      BY <1>1, <1>4, <2>1, <2>3, LoadTakesFreeBlock
    <3>2. PICK h \in DOMAIN area.blk :
            /\ r.ptr = header_to_payload(h) /\ area.blk[h].free
            /\ SameUsed(area.blk, r.area.blk, h) /\ h \in Used(r.area.blk)
      BY <1>1, <1>4, <2>1, <2>3, LoadTakesFreeBlock
    <3>3. /\ area' = release(r.area, header_to_payload(h)) /\ task' = task
          /\ next_pid' = next_pid /\ ring' = ring
      BY <2>3, <3>1, <3>2 DEF Fail
    <3>4. GoodArea(area') /\ Owns(area', task)
      BY <1>1, <3>1, <3>2, <3>3, FailGivesBack
    <3> QED
      BY <1>2, <1>4, <2>3, <3>3, <3>4
  <2>4. CASE r.ptr # NULL /\ pid = next_pid /\ Loaded(r, Files[name])
    BY <1>4, <2>1, <2>4, NewTaskLoaded
  <2> QED
    BY <1>4, <2>2, <2>3, <2>4
<1>5. zombie_list' = zombie_list
  BY DEF load_and_run_program, NoTask, loadVars
<1>6. CASE ~ NoTask(name, pid)
  BY <1>4, <1>5, <1>6 DEF load_and_run_program
<1>7. NoTask(name, pid) => pid \in {-1, 0} /\ task' = task /\ next_pid' = next_pid
  BY DEF NoTask, loadVars
<1> QED
  BY <1>3, <1>5, <1>6, <1>7

\* What the invariant is for.
LEMMA LoadInvSuffices == LoadInv => OwnedByTasks /\ LoadedIntact
<1> SUFFICES ASSUME LoadInv PROVE OwnedByTasks /\ LoadedIntact
  OBVIOUS
<1>1. /\ GoodArea(area) /\ Owns(area, task) /\ LifeCycle /\ DOMAIN task = Tasks
      /\ task \in [Tasks -> Task]
  BY DEF LoadInv, Types
<1>2. LoadedIntact
  BY <1>1 DEF LoadedIntact, LifeCycle, Live
<1>3. Used(area.blk) = {payload_to_header(task[p].mem) : p \in Holders}
  BY <1>1 DEF Owns, Holders
<1>4. ASSUME NEW p \in Holders
      PROVE  /\ area.blk[payload_to_header(task[p].mem)].size >= task[p].size + Slack
             /\ \A q \in Holders \ {p} : task[p].mem # task[q].mem
  <2>1. p \in Tasks /\ task[p].mem # NULL /\ task[p].size \in Nat /\ Slack \in Nat
    BY <1>1, LoadAssumption DEF Holders, Task
  <2>2. /\ payload_to_header(task[p].mem) \in Used(area.blk)
        /\ task[p].size + Slack <= area.blk[payload_to_header(task[p].mem)].size
        /\ \A q \in Tasks \ {p} : task[p].mem # task[q].mem
    BY <1>1, <2>1 DEF Owns
  <2>3. area.blk[payload_to_header(task[p].mem)].size \in Nat
    BY <1>1, <2>2, BlocksAreNumbers DEF Used
  <2> QED
    BY <1>1, <2>1, <2>2, <2>3 DEF Holders
<1> QED
  BY <1>1, <1>2, <1>3, <1>4 DEF OwnedByTasks, Used, GoodArea

-----------------------------------------------------------------------------
\* What the terminal does while it waits for no program.
AtPrompt == {"getchar", "create", "stop", "look", "stopped"}

\* r15 is the pid of a task that has been created, if it is a pid.
Started == r15 \in {-1, 0} \cup Programs /\ r15 < next_pid

\* The task that TASK_STOP looks for has left zombie_list in its first pass.
LookedFor == pc = "look" => r15 \notin In(zombie_list)

IInv ==
  /\ LoadInv
  /\ Started
  /\ LookedFor
  /\ StopsNoLiveTask

\* A step of another task, which may bring a live task onto zombie_list.
LEMMA OthersKeepIInv ==
  ASSUME IInv, LoadInv', NoneRevived, next_pid' = next_pid, r15' = r15,
         pc' \in AtPrompt => pc \in AtPrompt,
         \A z \in In(zombie_list') : (z \in In(zombie_list) /\ pc' = pc) \/ Live(z)
  PROVE  IInv'
<1>1. Started /\ LookedFor /\ StopsNoLiveTask
  BY DEF IInv
<1>2. pc' \in AtPrompt /\ r15 > 0 => ~ Live(r15) /\ ~ Live(r15)'
  <2> SUFFICES ASSUME pc' \in AtPrompt, r15 > 0 PROVE ~ Live(r15) /\ ~ Live(r15)'
    OBVIOUS
  <2>1. r15 \in Tasks
    BY <1>1 DEF Started, Tasks
  <2>2. ~ Live(r15)
    BY <1>1 DEF StopsNoLiveTask, AtPrompt
  <2>3. Live(r15)' = (task'[r15].state \in {"live", "exiting"})
    BY DEF Live
  <2>4. \A p \in Tasks : task'[p].state \in {"live", "exiting"} => Live(p)
    BY DEF NoneRevived, Live
  <2> QED
    BY <2>1, <2>2, <2>3, <2>4
<1>3. Started'
  BY <1>1 DEF Started
<1>4. LookedFor'
  <2> SUFFICES ASSUME pc' = "look", r15 \in In(zombie_list') PROVE FALSE
    BY DEF LookedFor
  <2>1. r15 > 0
    <3>1. r15 \in Programs
      BY DEF LoadInv, Types, In
    <3> QED
      BY <3>1 DEF Programs
  <2> QED
    BY <1>1, <1>2, <2>1 DEF LookedFor, AtPrompt
<1>5. StopsNoLiveTask'
  BY <1>2 DEF StopsNoLiveTask, AtPrompt
<1> QED
  BY <1>3, <1>4, <1>5 DEF IInv

\* A step of the terminal that leaves the tasks alone.
LEMMA TerminalMoves ==
  ASSUME IInv, UNCHANGED <<loadVars, r15>>, pc' = "look" => pc = "look",
         StopsNoLiveTask'
  PROVE  IInv'
<1>1. /\ area' = area /\ task' = task /\ next_pid' = next_pid /\ ring' = ring
      /\ zombie_list' = zombie_list /\ pass' = pass /\ r15' = r15
  BY DEF loadVars
<1>2. GoodArea(area') /\ Owns(area', task')
  BY <1>1 DEF IInv, LoadInv
<1>3. Types' /\ LifeCycle' /\ Lists'
  BY <1>1 DEF IInv, LoadInv, Types, LifeCycle, Live, Lists
<1>4. Started' /\ LookedFor'
  BY <1>1 DEF IInv, Started, LookedFor
<1> QED
  BY <1>2, <1>3, <1>4 DEF IInv, LoadInv

\* TASK_CREATE.
LEMMA CreateKeepsIInv ==
  ASSUME IInv, TaskCreate
  PROVE  IInv'
<1>1. PICK pid \in {-1, 0} \cup Programs :
        /\ load_and_run_program(ran[Len(ran)], pid)
        /\ r15' = IF pid = 0 THEN r15 ELSE pid
        /\ pc' = IF pid = 0 THEN "getchar" ELSE "poll"
  BY DEF TaskCreate
<1>2. /\ LoadInv' /\ zombie_list' = zombie_list
      /\ \/ pid \in {-1, 0} /\ task' = task /\ next_pid' = next_pid
         \/ pid = next_pid /\ pid \in Programs /\ next_pid' = next_pid + 1
  BY <1>1, LoadKeepsInv DEF IInv
<1>3. LookedFor' /\ pc = "create" /\ Started /\ StopsNoLiveTask /\ next_pid \in Nat /\ next_pid > 0
  BY <1>1, LoadAssumption DEF LookedFor, IInv, TaskCreate, LoadInv, Types, Reaper
<1>4. CASE pid \in {-1, 0} /\ task' = task /\ next_pid' = next_pid
  BY <1>1, <1>2, <1>3, <1>4 DEF IInv, Started, StopsNoLiveTask, Live
<1>5. CASE pid = next_pid /\ pid \in Programs /\ next_pid' = next_pid + 1
  <2>1. r15' = next_pid /\ pc' = "poll"
    BY <1>1, <1>3, <1>5
  <2> QED
    BY <1>2, <1>3, <1>5, <2>1 DEF IInv, Started, StopsNoLiveTask
<1> QED
  BY <1>2, <1>4, <1>5

\* TASK_STOP looks for the task.
LEMMA LookKeepsIInv ==
  ASSUME IInv, StopLook
  PROVE  IInv'
<1>1. /\ LoadInv /\ Started /\ LookedFor /\ pc = "look" /\ r15' = 0
      /\ ring \subseteq Reapers /\ next_pid \in Reaper + 1 .. MaxPid + 1
      /\ \A t \in Reapers : pass[t] = <<>>
  BY DEF StopLook, IInv, LoadInv, Types
<1>2. StopsNoLiveTask'
  BY <1>1 DEF StopsNoLiveTask
<1>3. pc' # "look" /\ next_pid' = next_pid
  BY DEF StopLook, Store, loadVars
<1>4. Started' /\ LookedFor'
  BY <1>1, <1>3 DEF Started, LookedFor, Reaper
<1>5. CASE r15 \notin ring
  <2>1. /\ area' = area /\ task' = task /\ ring' = ring
        /\ zombie_list' = zombie_list /\ pass' = pass
    BY <1>5 DEF StopLook, loadVars
  <2>2. Types' /\ LifeCycle' /\ Lists'
    BY <1>1, <1>3, <2>1 DEF LoadInv, Types, LifeCycle, Live, Lists
  <2> QED
    BY <1>1, <1>2, <1>4, <2>1, <2>2 DEF IInv, LoadInv
<1>6. CASE r15 \in ring
  <2>1. r15 \in Programs /\ r15 < next_pid /\ r15 \notin In(zombie_list)
    BY <1>1, <1>6 DEF Started, LookedFor, Reapers, Terminal, Reaper
  <2>2. /\ free_task_resources(r15) /\ ring' = ring \ {r15}
        /\ pass' = [pass EXCEPT ![Terminal] = zombie_list] /\ zombie_list' = <<>>
    BY <1>6 DEF StopLook
  <2>3. LoadInv'
    BY <1>1, <1>3, <1>6, <2>1, <2>2, StopKeepsInv
  <2> QED
    BY <1>2, <1>4, <2>3 DEF IInv
<1> QED
  BY <1>5, <1>6

\* The invariant holds when the terminal has printed its first prompt.
LEMMA InitIInv == Init => IInv
<1> SUFFICES ASSUME Init PROVE IInv
  OBVIOUS
<1>1. LoadInv
  BY LoadInitInv DEF Init
<1>2. pc = "getchar" /\ r15 = 0 /\ next_pid = 4
  BY DEF Init, LoadInit, Reaper
<1> QED
  BY <1>1, <1>2 DEF IInv, Started, LookedFor, StopsNoLiveTask

\* Every step keeps the invariant.
LEMMA NextIInv == IInv /\ [Next]_vars => IInv'
<1> SUFFICES ASSUME IInv, [Next]_vars PROVE IInv'
  OBVIOUS
<1>1. /\ LoadInv /\ Started /\ LifeCycle /\ StopsNoLiveTask /\ task \in [Tasks -> Task]
  BY DEF IInv, LoadInv, Types
<1>2. /\ Terminal \in Reapers /\ Reaper \in Reapers
      /\ \A p \in Programs : p \in Reapers /\ p \in Tasks
  BY DEF Reapers, Tasks
<1>3. ASSUME UNCHANGED task, pc' \in AtPrompt => pc \in AtPrompt, UNCHANGED r15,
             NEW t \in Reapers, ReapBegin(t)
      PROVE  IInv'
  <2>1. LoadInv' /\ NoneRevived /\ In(zombie_list') = {} /\ next_pid' = next_pid
    BY <1>1, <1>3, BeginKeepsInv DEF ReapBegin
  <2> QED
    BY <1>3, <2>1, OthersKeepIInv
<1>4. ASSUME UNCHANGED <<loadVars, r15>>, pc' # "look" \/ pc = "look",
             pc' \in AtPrompt => pc \in AtPrompt
      PROVE  IInv'
  <2>1. StopsNoLiveTask'
    BY <1>1, <1>4 DEF StopsNoLiveTask, AtPrompt, Live, loadVars
  <2> QED
    BY <1>4, <2>1, TerminalMoves
<1>5. CASE UNCHANGED vars
  BY <1>4, <1>5 DEF vars
<1>6. ASSUME NEW k \in Keys, KeyHit(k) PROVE IInv'
  BY <1>4, <1>6 DEF KeyHit
<1>7. CASE GetChar
  <2>1. UNCHANGED <<loadVars, r15>> /\ pc = "getchar" /\ pc' \in {"getchar", "stop", "create"}
    BY <1>7 DEF GetChar, NewLine, Backspace, Store
  <2> QED
    BY <1>4, <2>1 DEF AtPrompt
<1>8. CASE TaskCreate
  BY <1>8, CreateKeepsIInv
<1>9. CASE TaskIsAlive
  <2>1. CASE r15 < 0
    <3>1. UNCHANGED <<loadVars, r15>> /\ pc' = "getchar"
      BY <1>9, <2>1 DEF TaskIsAlive, loadVars
    <3>2. StopsNoLiveTask'
      BY <1>1, <2>1, <3>1 DEF StopsNoLiveTask, Started, Programs
    <3> QED
      BY <3>1, <3>2, TerminalMoves
  <2>2. CASE ~ (r15 < 0)
    <3>1. ReapBegin(Terminal) /\ pc' = "check" /\ UNCHANGED <<task, r15>>
      BY <1>9, <2>2 DEF TaskIsAlive
    <3> QED
      BY <1>2, <1>3, <3>1 DEF AtPrompt
  <2> QED
    BY <2>1, <2>2
<1>10. CASE Check
  <2>1. /\ UNCHANGED <<loadVars, r15>> /\ task' = task
        /\ pc' = IF task_is_alive(r15) THEN "poll" ELSE "getchar"
    BY <1>10 DEF Check, loadVars
  <2>2. StopsNoLiveTask'
    <3> SUFFICES ASSUME ~ task_is_alive(r15), r15 > 0 PROVE ~ Live(r15)'
      BY <2>1 DEF StopsNoLiveTask
    <3>1. r15 \in Tasks
      BY <1>1 DEF Started, Tasks
    <3> QED
      BY <1>1, <2>1, <3>1 DEF task_is_alive, LifeCycle, Live
  <2> QED
    BY <2>1, <2>2, TerminalMoves
<1>11. CASE TaskStop
  BY <1>2, <1>3, <1>11 DEF TaskStop, AtPrompt
<1>12. CASE StopLook
  BY <1>12, LookKeepsIInv
<1>13. CASE StopDone
  BY <1>4, <1>13 DEF StopDone, Store, AtPrompt
<1>14. CASE ReaperLoop
  BY <1>2, <1>3, <1>14 DEF ReaperLoop, zombie_reaper_task, terminalVars
<1>15. ASSUME NEW t \in Reapers, KernelStep(t) PROVE IInv'
  <2>1. UNCHANGED <<pc, r15>>
    BY <1>15 DEF KernelStep, terminalVars
  <2>2. CASE ReapUnlink(t)
    <3>1. LoadInv' /\ NoneRevived /\ next_pid' = next_pid /\ zombie_list' = zombie_list
      BY <1>1, <2>2, UnlinkKeepsInv DEF ReapUnlink
    <3> QED
      BY <2>1, <3>1, OthersKeepIInv
  <2>3. CASE ReapFree(t)
    <3>1. LoadInv' /\ NoneRevived /\ next_pid' = next_pid /\ zombie_list' = zombie_list
      BY <1>1, <2>3, FreeKeepsInv DEF ReapFree
    <3> QED
      BY <2>1, <3>1, OthersKeepIInv
  <2>4. CASE t \in Programs /\ ExitMark(t)
    <3>1. /\ LoadInv' /\ NoneRevived /\ next_pid' = next_pid
          /\ Live(t) /\ In(zombie_list') \subseteq {t} \cup In(zombie_list)
      BY <1>1, <2>4, MarkKeepsInv DEF ExitMark
    <3> QED
      BY <2>1, <3>1, OthersKeepIInv
  <2> QED
    BY <1>15, <2>2, <2>3, <2>4 DEF KernelStep, ReapStep
<1>16. ASSUME NEW p \in Programs, Exit(p) PROVE IInv'
  <2>1. /\ ReapBegin(p) /\ UNCHANGED <<pc, r15>> /\ task[p].state = "live"
        /\ task' = [task EXCEPT ![p].state = "exiting"]
    BY <1>16 DEF Exit, task_exit, terminalVars
  <2>2. p \in Tasks /\ task[p] \in Task
    BY <1>1, <1>2
  <2>3. /\ task' \in [Tasks -> Task] /\ task'[p].state = "exiting"
        /\ task'[p].mem = task[p].mem /\ task'[p].size = task[p].size
        /\ task'[p].code = task[p].code
        /\ \A q \in Tasks \ {p} : task'[q] = task[q]
    BY <1>1, <2>1, <2>2 DEF Task
  <2>4. LoadInv' /\ NoneRevived /\ In(zombie_list') = {} /\ next_pid' = next_pid
    BY <1>1, <1>2, <2>1, <2>3, BeginKeepsInv DEF ReapBegin
  <2> QED
    BY <2>1, <2>4, OthersKeepIInv
<1> QED
  BY <1>5, <1>6, <1>7, <1>8, <1>9, <1>10, <1>11, <1>12, <1>13, <1>14, <1>15, <1>16
     DEF Next, TerminalStep

\* The invariant implies what the theorems below state.
LEMMA IInvSuffices == IInv => OwnedByTasks /\ LoadedIntact /\ StopsNoLiveTask
BY LoadInvSuffices DEF IInv

\* Every used block of the .user area belongs to one task that has not been
\* released and has room for its program, for every area, all files and any
\* number of tasks, in whatever order exits, loads and the steps of
\* reap_zombies_internal come; a call of user_free is one step.
THEOREM TerminalOwns == Spec => []OwnedByTasks
BY InitIInv, NextIInv, IInvSuffices, PTL DEF Spec

\* load_and_run_program never copies a file over a program that runs, a call of
\* user_free being one step.
THEOREM TerminalKeepsPrograms == Spec => []LoadedIntact
BY InitIInv, NextIInv, IInvSuffices, PTL DEF Spec

\* The Ctrl+C that the terminal reads stops no program that runs.
THEOREM TerminalStopsNone == Spec => []StopsNoLiveTask
BY InitIInv, NextIInv, IInvSuffices, PTL DEF Spec

-----------------------------------------------------------------------------
\* The next system call, and the queue of the keyboard, which never holds more
\* than its capacity.
Registers ==
  /\ pc \in {"getchar", "create", "poll", "check", "stop", "look", "stopped"}
  /\ waiting \in Seq(Keys) /\ Len(waiting) <= Capacity

\* At the first prompt no key waits.
LEMMA InitRegisters == Init => Registers
BY TerminalAssumption DEF Init, Queue!Init, Registers

\* Every step keeps them: a key is dropped when the queue is full.
LEMMA NextRegisters == Registers /\ [Next]_vars => Registers'
<1> SUFFICES ASSUME Registers, [Next]_vars
             PROVE  Registers'
  OBVIOUS
<1>1. Capacity \in Nat /\ Len(waiting) \in Nat
  BY TerminalAssumption DEF Registers
<1>2. CASE UNCHANGED vars
  BY <1>2 DEF vars, Registers
<1>3. ASSUME NEW k \in Keys, KeyHit(k)
      PROVE  Registers'
  <2>1. pc' = pc /\ waiting' = IF Len(waiting) < Capacity THEN Append(waiting, k) ELSE waiting
    BY <1>3 DEF KeyHit, Queue!Put
  <2> QED
    BY <1>1, <2>1 DEF Registers
<1>4. CASE GetChar
  <2>1. pc' \in {"getchar", "stop", "create"}
    BY <1>4 DEF GetChar, NewLine, Backspace, Store
  <2>2. waiting' = IF waiting = <<>> THEN waiting ELSE Tail(waiting)
    BY <1>4 DEF GetChar, Queue!Get
  <2>3. waiting' \in Seq(Keys) /\ Len(waiting') <= Capacity
    BY <1>1, <2>2 DEF Registers
  <2> QED
    BY <2>1, <2>3 DEF Registers
<1>5. CASE TaskCreate \/ TaskIsAlive \/ Check \/ TaskStop \/ StopLook \/ StopDone
  <2>1. /\ waiting' = waiting
        /\ pc' \in {"getchar", "poll", "check", "look", "stopped"}
    BY <1>5 DEF TaskCreate, TaskIsAlive, Check, TaskStop, StopLook, StopDone, Store
  <2> QED
    BY <2>1 DEF Registers
<1>6. CASE ReaperLoop \/ (\E t \in Reapers : KernelStep(t)) \/ (\E p \in Programs : Exit(p))
  BY <1>6 DEF ReaperLoop, KernelStep, Exit, terminalVars, Registers
<1> QED
  BY <1>2, <1>3, <1>4, <1>5, <1>6 DEF Next, TerminalStep

\* The registers of the terminal, the keyboard's queue and the tasks keep their
\* types, and a task has memory exactly from its creation to its release.
THEOREM TerminalTypeOK == Spec => []TypeOK
<1>1. IInv /\ Registers => TypeOK
  <2> SUFFICES ASSUME IInv, Registers
               PROVE  TypeOK
    OBVIOUS
  <2>1. DOMAIN task = Tasks /\ next_pid \in Reaper + 1 .. MaxPid + 1
    BY DEF IInv, LoadInv, Types
  <2>2. \A p \in Tasks :
          /\ task[p].mem = NULL <=> task[p].state \in {"unborn", "gone"}
          /\ Live(p) => p \in ring
          /\ p \in ring => task[p].mem # NULL
    BY DEF IInv, LoadInv, LifeCycle
  <2>3. r15 \in {-1, 0} \cup Programs
    BY DEF IInv, Started
  <2> QED
    BY <2>1, <2>2, <2>3 DEF TypeOK, Registers
<1> QED
  BY <1>1, InitRegisters, NextRegisters, InitIInv, NextIInv, PTL DEF Spec
=============================================================================
