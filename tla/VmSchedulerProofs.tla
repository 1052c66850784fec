------------------------- MODULE VmSchedulerProofs -------------------------
(* Proofs about VmScheduler for every program, every host and every order of *)
(* answers: a live task stands in exactly one place, the line is a FIFO, an  *)
(* evaluation runs alone, every pending promise has one producer, the        *)
(* temporary files of an execution reach their registry, and an execution    *)
(* that is stuck is stuck in a cycle.                                        *)
EXTENDS VmScheduler, CollectionTheorems

-----------------------------------------------------------------------------
(* The inductive invariant.                                                  *)

Instruction == Op \cup {Handle}
TaskRec == [live : BOOLEAN, code : Seq(Instruction),
            ends : {"root", "promise", "detached", "notification"}, promise : Nat]
PromiseRec == [state : {"pending", "ok", "err"}, waiters : Seq(Nat), op : Nat]
Event == [is : {"task", "error"}, of : Nat]
Operation == [op : Nat, promise : Nat, kind : Kind, at : {"thread", "inside"},
              canceled : BOOLEAN]
Completion == [op : Nat, promise : Nat, kind : Kind, ok : BOOLEAN]

Shape ==
    /\ tasks \in Seq(TaskRec)
    /\ current \in 0..Len(tasks)
    /\ ready \in Seq(Event)
    /\ promises \in Seq(PromiseRec)
    /\ hosts \in [DOMAIN hosts -> Kind] /\ DOMAIN hosts \subseteq 1..Len(promises)
    /\ syncWait \in [task : Nat, promise : Nat]
    /\ slots \in [Slot -> 0..Len(promises)]
    /\ paused \in [task : Nat, floor : Nat, ready : Seq(Event)]
    /\ running \subseteq Operation
    /\ channel \in Seq(Completion)
    /\ nextOp \in Nat
    /\ canceled \in BOOLEAN
    /\ phase \in {"live", "dropping", "gone"}

(* Only a notification awaits its own promise.                               *)
Programs ==
    \A t \in 1..Len(tasks) :
        IF tasks[t].ends = "notification" THEN tasks[t].promise \in 1..Len(promises)
                                          ELSE tasks[t].code \in Seq(Op)

(* Who runs, who is paused, and who may be frozen.  A frozen call that       *)
(* outlives the evaluation in which it was made is one of a canceled         *)
(* execution.                                                                *)
Turns ==
    /\ current # 0 => tasks[current].live /\ verdict = "none"
    /\ verdict = "canceled" => canceled
    /\ verdict = "terminated" => ~Evaluating
    /\ Evaluating =>
          /\ phase = "live"
          /\ paused.task \in 1..Len(tasks) /\ paused.floor \in 1..Len(tasks)
          /\ paused.task < paused.floor
          /\ tasks[paused.task].live
          /\ tasks[paused.floor].ends = "root"
          /\ current # 0 => current >= paused.floor

(* The task of a frozen call waits for its answer or has it in the line.     *)
FrozenWaits ==
    Frozen /\ ~canceled =>
        /\ current = 0
        /\ verdict \in {"none", "broken"}
        /\ syncWait.task \in 1..Len(tasks)
        /\ tasks[syncWait.task].code # <<>>
        /\ Evaluating => syncWait.task >= paused.floor
        /\ \/ /\ syncWait.promise \in DOMAIN hosts
              /\ promises[syncWait.promise].waiters = <<syncWait.task>>
           \/ /\ syncWait.promise \in 1..Len(promises)
              /\ Contains(ready, Task(syncWait.task))

(* Who resolves a promise.                                                   *)
Fn(t) == tasks[t].ends = "promise"
Produced ==
    /\ \A p \in DOMAIN hosts : Pending(p)
    /\ \A t \in 1..Len(tasks) : Fn(t) =>
          /\ tasks[t].promise \in 1..Len(promises) /\ tasks[t].promise \notin DOMAIN hosts
          /\ tasks[t].live <=> Pending(tasks[t].promise)
    /\ \A t, u \in 1..Len(tasks) :
          Fn(t) /\ Fn(u) /\ tasks[t].promise = tasks[u].promise => t = u
    /\ \A p \in 1..Len(promises) : Pending(p) =>
          p \in DOMAIN hosts \/ \E t \in 1..Len(tasks) : Fn(t) /\ tasks[t].promise = p

(* Operations on their way and completions not yet taken.                    *)
Expected(o) ==
    o.promise \in DOMAIN hosts /\ hosts[o.promise] = o.kind
        /\ promises[o.promise].op = o.op
Flights ==
    /\ \A o \in running : Expected(o)
    /\ \A i \in 1..Len(channel) : Expected(channel[i])
    /\ \A o, x \in running : o.promise = x.promise => o = x
    /\ \A i, k \in 1..Len(channel) : channel[i].promise = channel[k].promise => i = k
    /\ \A o \in running, i \in 1..Len(channel) : o.promise # channel[i].promise
    /\ phase = "live" => \A p \in DOMAIN hosts :
          \/ \E o \in running : o.promise = p
          \/ \E i \in 1..Len(channel) : channel[i].promise = p

(* A file that has been made is kept or on its way, and the drop waits for   *)
(* those on their way.                                                       *)
FilesOnTheirWay ==
    /\ files \in [made : SUBSET Nat, kept : SUBSET Nat]
    /\ \A f \in files.made \ files.kept : \E i \in 1..Len(channel) :
          channel[i].op = f /\ channel[i].kind = "temp" /\ channel[i].ok
    /\ phase # "live" =>
          /\ \A o \in running : o.kind = "temp" => o.promise \in dropWaits
          /\ \A i \in 1..Len(channel) :
                channel[i].kind = "temp" => channel[i].promise \in dropWaits
    /\ phase = "gone" => dropWaits = {}

(* A live task stands somewhere, unless the execution is breaking off.       *)
Somewhere(t) ==
    \/ Contains(ready, Task(t)) \/ Contains(paused.ready, Task(t))
    \/ \E p \in 1..Len(promises) : Contains(promises[p].waiters, t)
NobodyLost ==
    /\ \A p \in 1..Len(promises) : ~Pending(p) => promises[p].waiters = <<>>
    /\ verdict \notin {"canceled", "terminated", "broken"} /\ ~canceled =>
          \A t \in 1..Len(tasks) :
             tasks[t].live /\ t \notin {current, paused.task} => Somewhere(t)
    /\ verdict = "stuck" /\ ~Evaluating /\ ~canceled =>
          ready = <<>> /\ DOMAIN hosts = {} /\ current = 0

(* No element stands in q twice.                                             *)
Single(q) == \A i, k \in 1..Len(q) : q[i] = q[k] => i = k

(* A live task that may be woken, an event that may be in the line: such a   *)
(* task, or the error of a task that is over.                                *)
Free(t) == t \in 1..Len(tasks) /\ tasks[t].live /\ t \notin {current, paused.task}
Legit(e) == IF e.is = "task" THEN Free(e.of)
            ELSE e.of \in 1..Len(tasks) /\ ~tasks[e.of].live
WaitsFor(t, p) == Contains(promises[p].waiters, t)

(* Nobody stands in two places, and only those stand that may be woken.      *)
Once ==
    /\ Single(Line)
    /\ \A e : Contains(Line, e) => Legit(e)
    /\ \A p \in 1..Len(promises) : Single(promises[p].waiters)
    /\ \A p \in 1..Len(promises) : \A t :
          WaitsFor(t, p) => Free(t) /\ ~Contains(Line, Task(t))
    /\ \A p, r \in 1..Len(promises) : \A t : WaitsFor(t, p) /\ WaitsFor(t, r) => p = r

(* While the answer of a frozen call is pending, its task waits for it.      *)
Awaited ==
    Frozen /\ ~canceled /\ Pending(syncWait.promise)
        => WaitsFor(syncWait.task, syncWait.promise)

(* Operations have numbers of their own, numbers of promises are in range,   *)
(* and what an evaluation has set aside is older than it.                    *)
Numbered ==
    /\ \A p \in 1..Len(promises) : promises[p].op < nextOp
    /\ \A p, r \in 1..Len(promises) : promises[p].op = promises[r].op => p = r
    /\ \A t \in 1..Len(tasks) : tasks[t].promise <= Len(promises)
    /\ syncWait.promise <= Len(promises)
    /\ Evaluating => \A e : Contains(paused.ready, e) => e.of < paused.floor

(* No verdict is "broken".                                                   *)
Verdict == {"none", "complete", "failed", "canceled", "stuck", "terminated"}
Ranges == verdict \in Verdict /\ draining \in {"no", "blocked", "more", "nested"}

IInv == Shape /\ Programs /\ Turns /\ FrozenWaits /\ Produced /\ Flights
            /\ FilesOnTheirWay /\ NobodyLost /\ Once /\ Awaited /\ Numbered /\ Ranges

-----------------------------------------------------------------------------
(* Sequences.                                                                *)

(* The order of the parts of a sequence.                                     *)
LEMMA ConcatOrder ==
    ASSUME NEW S, NEW a \in Seq(S), NEW b \in Seq(S)
    PROVE  /\ a \o b \in Seq(S)
           /\ \A e : Contains(a \o b, e) <=> Contains(a, e) \/ Contains(b, e)
           /\ \A e, f : Before(a, e, f) \/ Before(b, e, f)
                          \/ (Contains(a, e) /\ Contains(b, f)) => Before(a \o b, e, f)
           /\ \A e, f : Before(a \o b, e, f) =>
                 \/ Before(a, e, f) \/ Before(b, e, f)
                 \/ Contains(a, e) /\ Contains(b, f)
           /\ Single(a \o b) <=> /\ Single(a) /\ Single(b)
                                 /\ \A e : ~(Contains(a, e) /\ Contains(b, e))
<1>1. PICK m : m = Len(a)
  OBVIOUS
<1>2. PICK n : n = Len(b)
  OBVIOUS
<1>3. m \in Nat /\ n \in Nat /\ DOMAIN a = 1..m /\ DOMAIN b = 1..n
  BY <1>1, <1>2, LenProperties
<1>4. PICK s : s = a \o b
  OBVIOUS
<1>5. /\ s \in Seq(S) /\ Len(s) = m + n
      /\ \A k \in 1..m + n : s[k] = IF k <= m THEN a[k] ELSE b[k - m]
  BY <1>1, <1>2, <1>4, ConcatProperties
<1>6. DOMAIN s = 1..m + n
  BY <1>3, <1>5, LenProperties
<1>7. \A k \in 1..m : s[k] = a[k] /\ k \in 1..m + n
  BY <1>3, <1>5
<1>8. \A k \in 1..n : s[m + k] = b[k] /\ m + k \in 1..m + n
  <2> TAKE k \in 1..n
  <2>1. PICK j : j = m + k
    OBVIOUS
  <2>2. j \in 1..m + n /\ ~(j <= m) /\ j - m = k
    BY <1>3, <2>1
  <2>3. s[j] = b[k]
    BY <1>5, <2>2
  <2> QED
    BY <2>1, <2>2, <2>3
<1>9. \A k \in 1..m + n : \/ k \in 1..m /\ s[k] = a[k]
                          \/ \E j \in 1..n : k = m + j /\ s[k] = b[j]
  <2> TAKE k \in 1..m + n
  <2>1. CASE k <= m
    <3>1. k \in 1..m
      BY <1>3, <2>1
    <3> QED
      BY <1>5, <2>1, <3>1
  <2>2. CASE ~(k <= m)
    <3>1. k - m \in 1..n /\ k = m + (k - m) /\ s[k] = b[k - m]
      BY <1>3, <1>5, <2>2
    <3> QED
      BY <3>1
  <2> QED
    BY <2>1, <2>2
<1>10. \A e : /\ Contains(s, e) <=> \E k \in 1..m + n : s[k] = e
              /\ Contains(a, e) <=> \E k \in 1..m : a[k] = e
              /\ Contains(b, e) <=> \E k \in 1..n : b[k] = e
  BY <1>1, <1>2, <1>5 DEF Contains
<1>11. ASSUME NEW e
       PROVE  Contains(s, e) <=> Contains(a, e) \/ Contains(b, e)
  BY <1>7, <1>8, <1>9, <1>10
<1>12. \A e, f : /\ Before(s, e, f) <=> \E i, k \in 1..m + n : i < k /\ s[i] = e /\ s[k] = f
                 /\ Before(a, e, f) <=> \E i, k \in 1..m : i < k /\ a[i] = e /\ a[k] = f
                 /\ Before(b, e, f) <=> \E i, k \in 1..n : i < k /\ b[i] = e /\ b[k] = f
  BY <1>3, <1>6 DEF Before
<1>13. ASSUME NEW e, NEW f, Before(a, e, f)
       PROVE  Before(s, e, f)
  BY <1>7, <1>12, <1>13
<1>14. ASSUME NEW e, NEW f, Before(b, e, f)
       PROVE  Before(s, e, f)
  <2>1. PICK i, k \in 1..n : i < k /\ b[i] = e /\ b[k] = f
    BY <1>12, <1>14
  <2>2. m + i < m + k
    BY <1>3, <2>1
  <2> QED
    BY <1>8, <1>12, <2>1, <2>2
<1>15. ASSUME NEW e, NEW f, Contains(a, e), Contains(b, f)
       PROVE  Before(s, e, f)
  <2>1. PICK i \in 1..m : a[i] = e
    BY <1>10, <1>15
  <2>2. PICK k \in 1..n : b[k] = f
    BY <1>10, <1>15
  <2>3. i < m + k
    BY <1>3, <2>1, <2>2
  <2> QED
    BY <1>7, <1>8, <1>12, <2>1, <2>2, <2>3
<1>16. ASSUME NEW e, NEW f, Before(s, e, f)
       PROVE  Before(a, e, f) \/ Before(b, e, f) \/ (Contains(a, e) /\ Contains(b, f))
  <2>1. PICK i, k \in 1..m + n : i < k /\ s[i] = e /\ s[k] = f
    BY <1>12, <1>16
  <2>2. CASE i \in 1..m /\ k \in 1..m
    BY <1>7, <1>12, <2>1, <2>2
  <2>3. CASE i \in 1..m /\ \E j \in 1..n : k = m + j /\ s[k] = b[j]
    BY <1>7, <1>10, <2>1, <2>3
  <2>4. ASSUME NEW g \in 1..n, NEW j \in 1..n, i = m + g, k = m + j
        PROVE  Before(b, e, f)
    <3>1. g < j
      BY <1>3, <2>1, <2>4
    <3> QED
      BY <1>8, <1>12, <2>1, <2>4, <3>1
  <2>5. ~(k \in 1..m /\ \E g \in 1..n : i = m + g)
    BY <1>3, <2>1
  <2> QED
    BY <1>9, <2>1, <2>2, <2>3, <2>4, <2>5
<1>17. ASSUME Single(s)
       PROVE  Single(a) /\ Single(b) /\ \A e : ~(Contains(a, e) /\ Contains(b, e))
  <2>0. \A i, k \in 1..m + n : s[i] = s[k] => i = k
    BY <1>5, <1>17 DEF Single
  <2>1. \A i, k \in 1..m : a[i] = a[k] => i = k
    BY <1>7, <2>0
  <2>2. \A i, k \in 1..n : b[i] = b[k] => i = k
    <3> SUFFICES ASSUME NEW i \in 1..n, NEW k \in 1..n, b[i] = b[k]
                 PROVE  i = k
      OBVIOUS
    <3>1. m + i = m + k
      BY <1>8, <2>0
    <3> QED
      BY <1>3, <3>1
  <2>3. ASSUME NEW e, Contains(a, e), Contains(b, e)
        PROVE  FALSE
    <3>1. PICK i \in 1..m : a[i] = e
      BY <1>10, <2>3
    <3>2. PICK k \in 1..n : b[k] = e
      BY <1>10, <2>3
    <3>3. i = m + k
      BY <1>7, <1>8, <2>0, <3>1, <3>2
    <3> QED
      BY <1>3, <3>1, <3>2, <3>3
  <2> QED
    BY <1>1, <1>2, <2>1, <2>2, <2>3 DEF Single
<1>18. ASSUME Single(a), Single(b), \A e : ~(Contains(a, e) /\ Contains(b, e))
       PROVE  Single(s)
  <2> SUFFICES ASSUME NEW i \in 1..m + n, NEW k \in 1..m + n, s[i] = s[k]
               PROVE  i = k
    BY <1>5 DEF Single
  <2>0. /\ \A x, y \in 1..m : a[x] = a[y] => x = y
        /\ \A x, y \in 1..n : b[x] = b[y] => x = y
    BY <1>1, <1>2, <1>18 DEF Single
  <2>1. \A x \in 1..m, y \in 1..n : a[x] # b[y]
    BY <1>10, <1>18
  <2>2. CASE i \in 1..m /\ s[i] = a[i]
    BY <1>9, <2>0, <2>1, <2>2
  <2>3. CASE \E j \in 1..n : i = m + j /\ s[i] = b[j]
    BY <1>9, <2>0, <2>1, <2>3
  <2> QED
    BY <1>9, <2>2, <2>3
<1> QED
  BY <1>4, <1>5, <1>11, <1>13, <1>14, <1>15, <1>16, <1>17, <1>18

(* One element taken out of a sequence of different ones.                    *)
LEMMA RemovedOrder ==
    ASSUME NEW S, NEW q \in Seq(S), NEW i \in 1..Len(q), Single(q)
    PROVE  /\ RemoveAt(q, i) \in Seq(S) /\ Single(RemoveAt(q, i))
           /\ \A e : Contains(RemoveAt(q, i), e) <=> Contains(q, e) /\ e # q[i]
           /\ \A e, f : Before(q, e, f) /\ e # q[i] /\ f # q[i] => Before(RemoveAt(q, i), e, f)
<1>1. PICK n : n = Len(q)
  OBVIOUS
<1>2. PICK r : r = RemoveAt(q, i)
  OBVIOUS
<1>3. n \in Nat /\ i \in 1..n /\ DOMAIN q = 1..n
  BY <1>1, LenProperties
<1>4. /\ r \in Seq(S) /\ Len(r) = n - 1
      /\ \A k \in 1..n - 1 : r[k] = IF k < i THEN q[k] ELSE q[k + 1]
  BY <1>1, <1>2, RemoveAtIs
<1>5. DOMAIN r = 1..n - 1
  BY <1>3, <1>4, LenProperties
<1>6. \A k, j \in 1..n : q[k] = q[j] => k = j
  BY <1>1 DEF Single
<1>7. \A k \in 1..n - 1 : \E j \in 1..n : /\ r[k] = q[j] /\ j # i
                                          /\ j = IF k < i THEN k ELSE k + 1
  <2> TAKE k \in 1..n - 1
  <2>1. PICK j : j = IF k < i THEN k ELSE k + 1
    OBVIOUS
  <2>2. j \in 1..n /\ j # i
    BY <1>3, <2>1
  <2> QED
    BY <1>4, <2>1, <2>2
<1>8. \A j \in 1..n : j # i => \E k \in 1..n - 1 : /\ r[k] = q[j]
                                                   /\ k = IF j < i THEN j ELSE j - 1
  <2> TAKE j \in 1..n
  <2>1. PICK k : k = IF j < i THEN j ELSE j - 1
    OBVIOUS
  <2>2. j # i => k \in 1..n - 1 /\ (IF k < i THEN k ELSE k + 1) = j
    BY <1>3, <2>1
  <2> QED
    BY <1>4, <2>1, <2>2
<1>9. \A e : /\ Contains(q, e) <=> \E k \in 1..n : q[k] = e
             /\ Contains(r, e) <=> \E k \in 1..n - 1 : r[k] = e
  BY <1>1, <1>4 DEF Contains
<1>10. ASSUME NEW e
       PROVE  Contains(r, e) <=> Contains(q, e) /\ e # q[i]
  <2>1. Contains(r, e) => Contains(q, e) /\ e # q[i]
    BY <1>3, <1>6, <1>7, <1>9
  <2>2. Contains(q, e) /\ e # q[i] => Contains(r, e)
    BY <1>8, <1>9
  <2> QED
    BY <2>1, <2>2
<1>11. ASSUME NEW e, NEW f, Before(q, e, f), e # q[i], f # q[i]
       PROVE  Before(r, e, f)
  <2>1. PICK j, l \in 1..n : j < l /\ q[j] = e /\ q[l] = f
    BY <1>3, <1>11 DEF Before
  <2>2. j # i /\ l # i
    BY <1>11, <2>1
  <2>3. PICK g \in 1..n - 1 : r[g] = q[j] /\ g = IF j < i THEN j ELSE j - 1
    BY <1>8, <2>2
  <2>4. PICK h \in 1..n - 1 : r[h] = q[l] /\ h = IF l < i THEN l ELSE l - 1
    BY <1>8, <2>2
  <2>5. g < h
    BY <1>3, <2>1, <2>2, <2>3, <2>4
  <2> QED
    BY <1>5, <2>1, <2>3, <2>4, <2>5 DEF Before
<1>12. Single(r)
  <2> SUFFICES ASSUME NEW k \in 1..n - 1, NEW l \in 1..n - 1, r[k] = r[l]
               PROVE  k = l
    BY <1>4 DEF Single
  <2>1. PICK g \in 1..n : r[k] = q[g] /\ g = IF k < i THEN k ELSE k + 1
    BY <1>7
  <2>2. PICK h \in 1..n : r[l] = q[h] /\ h = IF l < i THEN l ELSE l + 1
    BY <1>7
  <2>3. g = h
    BY <1>6, <2>1, <2>2
  <2> QED
    BY <1>3, <2>1, <2>2, <2>3
<1> QED
  BY <1>2, <1>4, <1>10, <1>11, <1>12

(* What is retained of a sequence of different elements.                     *)
LEMMA RetainedOrder ==
    ASSUME NEW S, NEW q \in Seq(S), NEW x
    PROVE  /\ Without(q, {x}) \in Seq(S)
           /\ Single(q) => Single(Without(q, {x}))
           /\ \A e : Contains(Without(q, {x}), e) <=> Contains(q, e) /\ e # x
           /\ \A e, f : Before(q, e, f) /\ e # x /\ f # x => Before(Without(q, {x}), e, f)
<1>1. PICK n : n = Len(q)
  OBVIOUS
<1>2. PICK r : r = Without(q, {x})
  OBVIOUS
<1>3. r \in Seq(S) /\ \E m : Keeps(m, q, n, {x}, r)
  BY <1>1, <1>2, WithoutIs
<1>4. PICK m : Keeps(m, q, n, {x}, r)
  BY <1>3
<1>5. PICK l : l = Len(r)
  OBVIOUS
<1>6. n \in Nat /\ l \in Nat /\ DOMAIN q = 1..n /\ DOMAIN r = 1..l
  BY <1>1, <1>3, <1>5, LenProperties
<1>7. /\ \A k \in 1..l : m[k] \in 1..n /\ r[k] = q[m[k]] /\ r[k] # x
      /\ \A k, j \in 1..l : k < j => m[k] < m[j]
      /\ \A i \in 1..n : q[i] # x => \E k \in 1..l : m[k] = i
  BY <1>4, <1>5 DEF Keeps
<1>8. \A e : /\ Contains(q, e) <=> \E k \in 1..n : q[k] = e
             /\ Contains(r, e) <=> \E k \in 1..l : r[k] = e
  BY <1>1, <1>5 DEF Contains
<1>9. \A e : Contains(r, e) <=> Contains(q, e) /\ e # x
  BY <1>7, <1>8
<1>10. ASSUME NEW e, NEW f, Before(q, e, f), e # x, f # x
       PROVE  Before(r, e, f)
  <2>1. PICK i, k \in 1..n : i < k /\ q[i] = e /\ q[k] = f
    BY <1>6, <1>10 DEF Before
  <2>2. PICK g \in 1..l : m[g] = i
    BY <1>7, <1>10, <2>1
  <2>3. PICK h \in 1..l : m[h] = k
    BY <1>7, <1>10, <2>1
  <2>4. g < h
    <3>1. ~(h < g) /\ h # g
      BY <1>6, <1>7, <2>1, <2>2, <2>3
    <3> QED
      BY <1>6, <3>1
  <2> QED
    BY <1>6, <1>7, <2>1, <2>2, <2>3, <2>4 DEF Before
<1>11. ASSUME Single(q)
       PROVE  Single(r)
  <2> SUFFICES ASSUME NEW k \in 1..l, NEW j \in 1..l, r[k] = r[j]
               PROVE  k = j
    BY <1>5 DEF Single
  <2>1. m[k] = m[j]
    BY <1>1, <1>7, <1>11 DEF Single
  <2>2. ~(k < j) /\ ~(j < k)
    BY <1>6, <1>7, <2>1
  <2> QED
    BY <1>6, <2>2
<1> QED
  BY <1>2, <1>3, <1>9, <1>10, <1>11

(* One element, two elements, and one at the end.                            *)
LEMMA FewOrder ==
    ASSUME NEW S, NEW x \in S, NEW y \in S
    PROVE  /\ <<x>> \in Seq(S) /\ Single(<<x>>) /\ (\A e : Contains(<<x>>, e) <=> e = x)
           /\ <<x, y>> \in Seq(S) /\ (x # y => Single(<<x, y>>))
           /\ \A e : Contains(<<x, y>>, e) <=> e = x \/ e = y
<1>1. /\ <<x>> \in Seq(S) /\ Single(<<x>>) /\ (\A e : Contains(<<x>>, e) <=> e = x)
  BY DEF Single, Contains
<1>2. PICK s : s = <<x, y>>
  OBVIOUS
<1>3. s \in Seq(S) /\ Len(s) = 2 /\ s[1] = x /\ s[2] = y
  BY <1>2
<1>4. 1..2 = {1, 2}
  OBVIOUS
<1>5. x # y => Single(s)
  BY <1>3, <1>4 DEF Single
<1>6. \A e : Contains(s, e) <=> e = x \/ e = y
  BY <1>3, <1>4 DEF Contains
<1> QED
  BY <1>1, <1>2, <1>3, <1>5, <1>6

(* A concatenation has what its parts have.                                  *)
LEMMA ConcatIs ==
    ASSUME NEW S, NEW q \in Seq(S), NEW r \in Seq(S)
    PROVE  /\ q \o r \in Seq(S)
           /\ \A e : Contains(q, e) \/ Contains(r, e) => Contains(q \o r, e)
<1>1. Len(q) \in Nat /\ Len(r) \in Nat
  BY LenProperties
<1>2. /\ q \o r \in Seq(S) /\ Len(q \o r) = Len(q) + Len(r)
      /\ \A k \in 1..Len(q) + Len(r) :
            (q \o r)[k] = IF k <= Len(q) THEN q[k] ELSE r[k - Len(q)]
  BY ConcatProperties
<1>3. ASSUME NEW e, NEW k \in 1..Len(q), q[k] = e
      PROVE  k \in 1..Len(q \o r) /\ (q \o r)[k] = e
  BY <1>1, <1>2, <1>3
<1>4. ASSUME NEW e, NEW k \in 1..Len(r), r[k] = e
      PROVE  Len(q) + k \in 1..Len(q \o r) /\ (q \o r)[Len(q) + k] = e
  BY <1>1, <1>2, <1>4
<1> QED
  BY <1>2, <1>3, <1>4 DEF Contains

(* A sequence of one element.                                                *)
LEMMA SingletonIs ==
    ASSUME NEW S, NEW e \in S
    PROVE  <<e>> \in Seq(S) /\ Contains(<<e>>, e) /\ Len(<<e>>) = 1 /\ <<e>>[1] = e
BY DEF Contains

(* An element at the end.                                                    *)
LEMMA AppendIs ==
    ASSUME NEW S, NEW q \in Seq(S), NEW e \in S
    PROVE  /\ Append(q, e) \in Seq(S)
           /\ Len(Append(q, e)) = Len(q) + 1
           /\ \A i \in 1..Len(q) : Append(q, e)[i] = q[i]
           /\ Append(q, e)[Len(q) + 1] = e
           /\ Contains(Append(q, e), e)
           /\ \A x : Contains(q, x) => Contains(Append(q, e), x)
<1>1. Len(q) \in Nat
  BY LenProperties
<1>2. /\ Append(q, e) \in Seq(S)
      /\ Len(Append(q, e)) = Len(q) + 1
      /\ \A i \in 1..Len(q) : Append(q, e)[i] = q[i]
      /\ Append(q, e)[Len(q) + 1] = e
  BY <1>1, AppendProperties
<1> QED
  BY <1>1, <1>2 DEF Contains

(* Nothing is left of nothing.                                               *)
LEMMA WithoutEmpty ==
    ASSUME NEW S
    PROVE  Without(<<>>, S) = <<>>
<1>1. <<>> \in Seq(Nat) /\ Len(<<>>) = 0
  BY EmptySeq
<1>2. Without(<<>>, S) \in Seq(Nat) /\ Len(Without(<<>>, S)) <= 0
  BY <1>1, WithoutIs
<1>3. Len(Without(<<>>, S)) = 0
  BY <1>2, LenProperties
<1> QED
  BY <1>2, <1>3, EmptySeq

-----------------------------------------------------------------------------
(* The line.                                                                 *)

(* q is what is left of ready, and `gone` has left the line, if it stood     *)
(* there.                                                                    *)
Rest(gone, q) ==
    /\ q \in Seq(Event) /\ Single(paused.ready \o q)
    /\ \A e : Contains(paused.ready \o q, e) <=> Contains(Line, e) /\ e # gone
    /\ \A e, f : Before(Line, e, f) /\ e # gone /\ f # gone
                   => Before(paused.ready \o q, e, f)

(* The line after a step: `gone` has left it, those in fresh have come, and  *)
(* those in late stand behind all others.                                    *)
Moved(gone, fresh, late) ==
    /\ Single(Line')
    /\ \A e : Contains(Line', e) <=> (Contains(Line, e) /\ e # gone) \/ e \in fresh
    /\ \A e, f : Before(Line, e, f) /\ e # gone /\ f # gone => Before(Line', e, f)
    /\ \A e \in late : \A f : Contains(Line, f) /\ f # gone => Before(Line', f, e)
    /\ \A e \in fresh : ~Contains(Line, e)

(* The line and its two parts.                                               *)
LEMMA LineIs ==
    ASSUME Shape, Once
    PROVE  /\ paused.ready \in Seq(Event) /\ ready \in Seq(Event) /\ Line \in Seq(Event)
           /\ Single(paused.ready) /\ Single(ready) /\ Single(Line)
           /\ \A e : Contains(Line, e) <=> Contains(paused.ready, e) \/ Contains(ready, e)
           /\ \A e : ~(Contains(paused.ready, e) /\ Contains(ready, e))
<1>1. paused.ready \in Seq(Event) /\ ready \in Seq(Event) /\ Single(Line)
  BY DEF Shape, Once
<1>2. /\ Line \in Seq(Event)
      /\ \A e : Contains(Line, e) <=> Contains(paused.ready, e) \/ Contains(ready, e)
      /\ Single(Line) <=> /\ Single(paused.ready) /\ Single(ready)
                          /\ \A e : ~(Contains(paused.ready, e) /\ Contains(ready, e))
  BY <1>1, ConcatOrder DEF Line
<1> QED
  BY <1>1, <1>2

(* Who does not stand in the line leaves all of it, an event that is taken   *)
(* leaves the others.                                                        *)
LEMMA RestIs ==
    ASSUME Shape, Once
    PROVE  /\ \A gone : ~Contains(Line, gone) => Rest(gone, ready)
           /\ \A i \in 1..Len(ready) : Rest(ready[i], RemoveAt(ready, i))
<1>1. /\ paused.ready \in Seq(Event) /\ ready \in Seq(Event)
      /\ Single(paused.ready) /\ Single(ready) /\ Single(Line)
      /\ \A e : Contains(Line, e) <=> Contains(paused.ready, e) \/ Contains(ready, e)
      /\ \A e : ~(Contains(paused.ready, e) /\ Contains(ready, e))
  BY LineIs
<1>2. ASSUME NEW gone, ~Contains(Line, gone)
      PROVE  Rest(gone, ready)
  BY <1>1, <1>2 DEF Rest, Line
<1>3. ASSUME NEW i \in 1..Len(ready)
      PROVE  Rest(ready[i], RemoveAt(ready, i))
  <2>1. PICK q : q = RemoveAt(ready, i)
    OBVIOUS
  <2>2. PICK x : x = ready[i]
    OBVIOUS
  <2>3. PICK P : P = paused.ready
    OBVIOUS
  <2>4. /\ q \in Seq(Event) /\ Single(q)
        /\ \A e : Contains(q, e) <=> Contains(ready, e) /\ e # x
        /\ \A e, f : Before(ready, e, f) /\ e # x /\ f # x => Before(q, e, f)
    BY <1>1, <2>1, <2>2, RemovedOrder
  <2>5. Contains(ready, x)
    BY <2>2 DEF Contains
  <2>6. /\ \A e : Contains(P \o q, e) <=> Contains(P, e) \/ Contains(q, e)
        /\ \A e, f : Before(P, e, f) \/ Before(q, e, f) \/ (Contains(P, e) /\ Contains(q, f))
                       => Before(P \o q, e, f)
        /\ Single(P \o q) <=> /\ Single(P) /\ Single(q)
                              /\ \A e : ~(Contains(P, e) /\ Contains(q, e))
    BY <1>1, <2>3, <2>4, ConcatOrder
  <2>7. \A e, f : Before(Line, e, f) =>
           Before(P, e, f) \/ Before(ready, e, f) \/ (Contains(P, e) /\ Contains(ready, f))
    BY <1>1, <2>3, ConcatOrder DEF Line
  <2>8. \A e : Contains(P \o q, e) <=> Contains(Line, e) /\ e # x
    BY <1>1, <2>3, <2>4, <2>5, <2>6
  <2>9. \A e, f : Before(Line, e, f) /\ e # x /\ f # x => Before(P \o q, e, f)
    BY <2>4, <2>6, <2>7
  <2>10. Single(P \o q)
    BY <1>1, <2>3, <2>4, <2>6
  <2> QED
    BY <2>1, <2>2, <2>3, <2>4, <2>8, <2>9, <2>10 DEF Rest
<1> QED
  BY <1>2, <1>3

(* Nothing comes.                                                            *)
LEMMA MovedNot ==
    ASSUME NEW gone, NEW q, Rest(gone, q), ready' = q, paused' = paused
    PROVE  Moved(gone, {}, {})
BY DEF Rest, Moved, Line

(* What comes to the back.                                                   *)
LEMMA MovedBack ==
    ASSUME Shape, NEW gone, NEW q, Rest(gone, q), NEW b \in Seq(Event), Single(b), NEW fresh,
           \A e : Contains(b, e) <=> e \in fresh,
           \A e \in fresh : ~Contains(Line, e),
           ready' = q \o b, paused' = paused
    PROVE  Moved(gone, fresh, fresh) /\ ready' \in Seq(Event)
<1>1. PICK P : P = paused.ready
  OBVIOUS
<1>2. P \in Seq(Event) /\ q \in Seq(Event)
  BY <1>1 DEF Shape, Rest
<1>3. PICK l : l = P \o q
  OBVIOUS
<1>4. /\ l \in Seq(Event) /\ Single(l)
      /\ \A e : Contains(l, e) <=> Contains(Line, e) /\ e # gone
      /\ \A e, f : Before(Line, e, f) /\ e # gone /\ f # gone => Before(l, e, f)
  BY <1>1, <1>2, <1>3, ConcatProperties DEF Rest
<1>5. Line' = l \o b
  <2>1. Line' = P \o (q \o b)
    BY <1>1 DEF Line
  <2>2. (P \o q) \o b = P \o (q \o b)
    BY <1>2, ConcatAssociative
  <2> QED
    BY <1>3, <2>1, <2>2
<1>6. /\ \A e : Contains(l \o b, e) <=> Contains(l, e) \/ Contains(b, e)
      /\ \A e, f : Before(l, e, f) \/ Before(b, e, f) \/ (Contains(l, e) /\ Contains(b, f))
                     => Before(l \o b, e, f)
      /\ Single(l \o b) <=> /\ Single(l) /\ Single(b)
                            /\ \A e : ~(Contains(l, e) /\ Contains(b, e))
  BY <1>4, ConcatOrder
<1>7. ready' \in Seq(Event)
  BY <1>2, ConcatProperties
<1>8. Single(l \o b)
  BY <1>4, <1>6
<1>9. PICK x : x = l \o b
  OBVIOUS
<1>10. /\ Single(x)
       /\ \A e : Contains(x, e) <=> (Contains(Line, e) /\ e # gone) \/ e \in fresh
       /\ \A e, f : Before(Line, e, f) /\ e # gone /\ f # gone => Before(x, e, f)
       /\ \A e \in fresh : \A f : Contains(Line, f) /\ f # gone => Before(x, f, e)
  BY <1>4, <1>6, <1>8, <1>9
<1> QED
  BY <1>5, <1>7, <1>9, <1>10 DEF Moved

(* What comes to the front of ready.                                         *)
LEMMA MovedFront ==
    ASSUME Shape, NEW gone, NEW q, Rest(gone, q), NEW b \in Seq(Event), Single(b), NEW fresh,
           \A e : Contains(b, e) <=> e \in fresh,
           \A e \in fresh : ~Contains(Line, e),
           ready' = b \o q, paused' = paused
    PROVE  Moved(gone, fresh, {}) /\ ready' \in Seq(Event)
<1>1. PICK P : P = paused.ready
  OBVIOUS
<1>2. P \in Seq(Event) /\ q \in Seq(Event)
  BY <1>1 DEF Shape, Rest
<1>3. PICK r : r = b \o q
  OBVIOUS
<1>4. /\ Single(P \o q)
      /\ \A e : Contains(P \o q, e) <=> Contains(Line, e) /\ e # gone
      /\ \A e, f : Before(Line, e, f) /\ e # gone /\ f # gone => Before(P \o q, e, f)
  BY <1>1 DEF Rest
<1>5. /\ \A e : Contains(P \o q, e) <=> Contains(P, e) \/ Contains(q, e)
      /\ \A e, f : Before(P \o q, e, f) =>
            Before(P, e, f) \/ Before(q, e, f) \/ (Contains(P, e) /\ Contains(q, f))
      /\ Single(P \o q) <=> /\ Single(P) /\ Single(q)
                            /\ \A e : ~(Contains(P, e) /\ Contains(q, e))
  BY <1>2, ConcatOrder
<1>6. /\ r \in Seq(Event)
      /\ \A e : Contains(r, e) <=> Contains(b, e) \/ Contains(q, e)
      /\ \A e, f : Before(b, e, f) \/ Before(q, e, f) \/ (Contains(b, e) /\ Contains(q, f))
                     => Before(r, e, f)
      /\ Single(r) <=> /\ Single(b) /\ Single(q)
                       /\ \A e : ~(Contains(b, e) /\ Contains(q, e))
  BY <1>2, <1>3, ConcatOrder
<1>7. /\ \A e : Contains(P \o r, e) <=> Contains(P, e) \/ Contains(r, e)
      /\ \A e, f : Before(P, e, f) \/ Before(r, e, f) \/ (Contains(P, e) /\ Contains(r, f))
                     => Before(P \o r, e, f)
      /\ Single(P \o r) <=> /\ Single(P) /\ Single(r)
                            /\ \A e : ~(Contains(P, e) /\ Contains(r, e))
  BY <1>2, <1>6, ConcatOrder
<1>8. PICK x : x = P \o r
  OBVIOUS
<1>9. x = Line'
  BY <1>1, <1>3, <1>8 DEF Line
<1>10. Single(r)
  BY <1>4, <1>5, <1>6
<1>11. Single(x)
  BY <1>4, <1>5, <1>6, <1>7, <1>8, <1>10
<1>12. \A e : Contains(x, e) <=> (Contains(Line, e) /\ e # gone) \/ e \in fresh
  BY <1>4, <1>5, <1>6, <1>7, <1>8
<1>13. \A e, f : Before(Line, e, f) /\ e # gone /\ f # gone => Before(x, e, f)
  BY <1>4, <1>5, <1>6, <1>7, <1>8
<1> QED
  BY <1>3, <1>6, <1>9, <1>11, <1>12, <1>13 DEF Moved

-----------------------------------------------------------------------------
(* Tables.                                                                   *)

(* A task ends: nothing else of it changes.                                  *)
LEMMA EndedIs ==
    ASSUME tasks \in Seq(TaskRec), NEW t \in 1..Len(tasks)
    PROVE  /\ Ended(t) \in Seq(TaskRec) /\ Len(Ended(t)) = Len(tasks)
           /\ Ended(t)[t] = [tasks[t] EXCEPT !.live = FALSE]
           /\ \A u \in 1..Len(tasks) : u # t => Ended(t)[u] = tasks[u]
<1>1. tasks[t] \in TaskRec
  BY ElementOfSeq
<1> DEFINE r == [tasks[t] EXCEPT !.live = FALSE]
<1>2. r \in TaskRec
  BY <1>1 DEF TaskRec
<1>3. Ended(t) = [tasks EXCEPT ![t] = r]
  BY DEF Ended
<1>4. tasks[t] \in TaskRec => r = [tasks[t] EXCEPT !.live = FALSE]
  OBVIOUS
<1> HIDE DEF r
<1>5. /\ Ended(t) \in Seq(TaskRec) /\ Len(Ended(t)) = Len(tasks)
      /\ \A u \in 1..Len(tasks) : Ended(t)[u] = IF u = t THEN r ELSE tasks[u]
  BY <1>2, <1>3, ExceptSeq
<1> QED
  BY <1>1, <1>4, <1>5

(* A task goes on to its next instruction.                                   *)
LEMMA NextIs ==
    ASSUME tasks \in Seq(TaskRec), NEW t \in 1..Len(tasks), tasks[t].code # <<>>
    PROVE  /\ Next1(t) \in Seq(TaskRec) /\ Len(Next1(t)) = Len(tasks)
           /\ Next1(t)[t] = [tasks[t] EXCEPT !.code = Tail(tasks[t].code)]
           /\ Next1(t)[t] \in TaskRec
           /\ \A u \in 1..Len(tasks) : u # t => Next1(t)[u] = tasks[u]
<1>1. tasks[t] \in TaskRec
  BY ElementOfSeq
<1>2. Tail(tasks[t].code) \in Seq(Instruction)
  BY <1>1, HeadTailProperties DEF TaskRec
<1> DEFINE r == [tasks[t] EXCEPT !.code = Tail(tasks[t].code)]
<1>3. r \in TaskRec
  BY <1>1, <1>2 DEF TaskRec
<1>4. Next1(t) = [tasks EXCEPT ![t] = r]
  BY DEF Next1
<1>5. tasks[t] \in TaskRec => r = [tasks[t] EXCEPT !.code = Tail(tasks[t].code)]
  OBVIOUS
<1> HIDE DEF r
<1>6. /\ Next1(t) \in Seq(TaskRec) /\ Len(Next1(t)) = Len(tasks)
      /\ \A u \in 1..Len(tasks) : Next1(t)[u] = IF u = t THEN r ELSE tasks[u]
  BY <1>3, <1>4, ExceptSeq
<1> QED
  BY <1>1, <1>3, <1>5, <1>6

(* What a resolution does to the promises and the line.                      *)
Resolved(p, st, queue) ==
    /\ promises' \in Seq(PromiseRec) /\ Len(promises') = Len(promises)
    /\ promises'[p] = [promises[p] EXCEPT !.state = st, !.waiters = <<>>]
    /\ \A x \in 1..Len(promises) : x # p => promises'[x] = promises[x]
    /\ ready' \in Seq(Event)
    /\ \A e : Contains(queue, e) => Contains(ready', e)
    /\ \A t : Contains(promises[p].waiters, t) => Contains(ready', Task(t))

(* Resolve does it.                                                          *)
LEMMA ResolveIs ==
    ASSUME promises \in Seq(PromiseRec), NEW p \in 1..Len(promises),
           NEW st \in {"ok", "err"}, NEW queue \in Seq(Event), Resolve(p, st, queue)
    PROVE  Resolved(p, st, queue)
<1> DEFINE ws == promises[p].waiters
           woken == [i \in DOMAIN ws |-> Task(ws[i])]
<1>1. promises[p] \in PromiseRec
  BY ElementOfSeq
<1>2. ws \in Seq(Nat) /\ Len(ws) \in Nat /\ DOMAIN ws = 1..Len(ws)
  BY <1>1, LenProperties DEF PromiseRec
<1>3. [promises[p] EXCEPT !.state = st, !.waiters = <<>>] \in PromiseRec
  <2>1. <<>> \in Seq(Nat)
    BY EmptySeq
  <2> QED
    BY <1>1, <2>1 DEF PromiseRec
<1> DEFINE r == [promises[p] EXCEPT !.state = st, !.waiters = <<>>]
<1>4. promises' = [promises EXCEPT ![p] = r]
  BY DEF Resolve
<1>5. \A i \in 1..Len(ws) : Task(ws[i]) \in Event
  BY <1>2, ElementOfSeq DEF Task, Event
<1>6. woken \in Seq(Event) /\ Len(woken) = Len(ws)
  <2>1. woken \in [1..Len(ws) -> Event]
    BY <1>2, <1>5
  <2>2. PICK n \in Nat : n = Len(ws)
    BY <1>2
  <2> HIDE DEF woken
  <2>3. woken \in Seq(Event) /\ Len(woken) = n
    BY <2>1, <2>2, SeqDef, SMTT(30)
  <2> QED
    BY <2>2, <2>3
<1>7. ready' = queue \o woken
  BY DEF Resolve
<1>8. ready' \in Seq(Event) /\ \A e : Contains(queue, e) \/ Contains(woken, e)
                                      => Contains(ready', e)
  <2> HIDE DEF woken
  <2> QED
    BY <1>6, <1>7, ConcatIs
<1>9. \A t : Contains(ws, t) => Contains(woken, Task(t))
  BY <1>2, <1>6 DEF Contains
<1>10. /\ promises' \in Seq(PromiseRec) /\ Len(promises') = Len(promises)
       /\ promises'[p] = [promises[p] EXCEPT !.state = st, !.waiters = <<>>]
       /\ \A x \in 1..Len(promises) : x # p => promises'[x] = promises[x]
  <2>1. r \in PromiseRec /\ r = [promises[p] EXCEPT !.state = st, !.waiters = <<>>]
    BY <1>3
  <2> HIDE DEF r
  <2>2. /\ promises' \in Seq(PromiseRec) /\ Len(promises') = Len(promises)
        /\ \A x \in 1..Len(promises) : promises'[x] = IF x = p THEN r ELSE promises[x]
    BY <1>4, <2>1, ExceptSeq
  <2> QED
    BY <2>1, <2>2
<1> HIDE DEF woken
<1> QED
  BY <1>8, <1>9, <1>10 DEF Resolved

(* The promises of the state, one by one.                                    *)
LEMMA PromiseIs ==
    ASSUME Shape, NEW p \in 1..Len(promises)
    PROVE  /\ promises[p] \in PromiseRec
           /\ p \in DOMAIN promises
           /\ Pending(p) <=> promises[p].state = "pending"
<1>1. promises \in Seq(PromiseRec)
  BY DEF Shape
<1> QED
  BY <1>1, ElementOfSeq, LenProperties DEF Pending

(* A body is a program.                                                      *)
LEMMA CodeIs ==
    ASSUME NEW b \in Body
    PROVE  Code[b] \in Seq(Op) /\ Code[b] \in Seq(Instruction)
<1>1. Code[b] \in Seq(Op)
  BY VmAssumption
<1> QED
  BY <1>1, SeqMonotonic DEF Instruction

(* The instruction of the running task and its operands.                     *)
LEMMA InstrIs ==
    ASSUME Shape, Programs, current # 0, tasks[current].code # <<>>
    PROVE  /\ current \in 1..Len(tasks) /\ Instr \in Instruction
           /\ Instr.do = "handle" => tasks[current].promise \in 1..Len(promises)
           /\ Instr.do \in {"function", "procedure", "notify"}
                 => Instr.body \in Body /\ Instr.slot \in Slot
           /\ Instr.do \in {"await", "host"} => Instr.slot \in Slot
           /\ Instr.do \in {"host", "sync"} => Instr.kind \in Kind
           /\ Instr.try \in BOOLEAN
<1>1. current \in 1..Len(tasks)
  <2>1. Len(tasks) \in Nat
    BY LenProperties DEF Shape
  <2> QED
    BY <2>1 DEF Shape
<1>2. tasks[current] \in TaskRec
  BY <1>1, ElementOfSeq DEF Shape
<1>3. Instr \in Instruction
  BY <1>2, HeadTailProperties DEF Instr, TaskRec
<1>4. Instr.do = "handle" => Instr \notin Op
  BY DEF Op
<1>5. Instr.do = "handle" => tasks[current].promise \in 1..Len(promises)
  <2>1. tasks[current].code \in Seq(Op) => Instr \in Op
    BY HeadTailProperties DEF Instr
  <2> QED
    BY <1>1, <1>4, <2>1 DEF Programs
<1>6. CASE Instr \in Op
  <2> QED
    BY <1>1, <1>3, <1>5, <1>6 DEF Op, Kind
<1>7. CASE Instr = Handle
  BY <1>1, <1>3, <1>5, <1>7 DEF Handle
<1> QED
  BY <1>3, <1>6, <1>7 DEF Instruction

-----------------------------------------------------------------------------
(* Moves: what the actions of the VM have in common, as the invariant sees   *)
(* it.                                                                       *)

(* Nothing outside the VM changes, and what stands in q stands in the line.  *)
Own ==
    /\ phase = "live"
    /\ UNCHANGED <<paused, files, channel, phase, canceled, dropWaits>>
    /\ slots' \in [Slot -> 0..Len(promises')]
    /\ nextOp' \in Nat /\ nextOp <= nextOp'
Home == Own /\ UNCHANGED <<hosts, running>>
Holds(q) == ready' \in Seq(Event) /\ \A e : Contains(q, e) => Contains(ready', e)
Left == current' = 0 /\ verdict' \in {"none", "complete"}
Stays == current' = current /\ verdict' = verdict

(* The tasks that a resolution wakes.                                        *)
Woken(p) == {Task(promises[p].waiters[i]) : i \in 1..Len(promises[p].waiters)}

(* Task t acts, and q is what is in the line besides: the running task, or a *)
(* frozen one that takes its answer.                                         *)
Acts(t, q) ==
    /\ verdict = "none" /\ t \in 1..Len(tasks) /\ tasks[t].live /\ q \in Seq(Event)
    /\ Rest(Task(t), q)
    /\ \A e : Contains(ready, e) /\ e # Task(t) => Contains(q, e)
    /\ \/ t = current /\ current # 0 /\ q = ready /\ syncWait' = syncWait
       \/ /\ Frozen /\ ~canceled /\ current = 0 /\ Contains(ready, Task(t))
          /\ t = syncWait.task /\ syncWait' = NoWait
Steps == /\ current \in 1..Len(tasks) /\ tasks[current].live /\ verdict = "none"
         /\ tasks[current].code # <<>>

GoesOn(t, q) ==
    /\ Home /\ Acts(t, q) /\ tasks[t].code # <<>> /\ tasks' = Next1(t)
    /\ current' = t /\ ready' = q /\ UNCHANGED <<promises, verdict>>
Yields ==
    /\ Home /\ Steps /\ tasks' = Next1(current) /\ Left
    /\ Holds(ready) /\ Contains(ready', Task(current)) /\ UNCHANGED <<promises, syncWait>>
    /\ Moved(Task(current), {Task(current)}, {})
Dies(t, q) ==
    /\ Home /\ Acts(t, q) /\ ~Fn(t) /\ tasks' = Ended(t) /\ Holds(q)
    /\ current' = 0 /\ verdict' \in {"none", "complete", "failed"} /\ UNCHANGED promises
    /\ ready' = q \/ Moved(Task(t), {Error(t)}, {Error(t)})
Returns(t, q) ==
    /\ Home /\ Acts(t, q) /\ Fn(t) /\ tasks' = Ended(t) /\ Left
    /\ \E st \in {"ok", "err"} : Resolved(tasks[t].promise, st, q)
    /\ Moved(Task(t), Woken(tasks[t].promise), Woken(tasks[t].promise))
Suspends ==
    /\ Home /\ Steps /\ Left /\ UNCHANGED <<tasks, ready, syncWait>>
    /\ \E p \in 1..Len(promises) :
         /\ Pending(p)
         /\ promises' \in Seq(PromiseRec) /\ Len(promises') = Len(promises)
         /\ \A x \in 1..Len(promises) : x # p => promises'[x] = promises[x]
         /\ promises'[p].state = promises[p].state /\ promises'[p].op = promises[p].op
         /\ Contains(promises'[p].waiters, current)
         /\ \A t : Contains(promises[p].waiters, t) => Contains(promises'[p].waiters, t)
         /\ Single(promises'[p].waiters)
         /\ \A t : Contains(promises'[p].waiters, t)
                      => t = current \/ Contains(promises[p].waiters, t)
Calls ==
    /\ Home /\ Steps /\ Left /\ UNCHANGED syncWait /\ nextOp' = nextOp + 1
    /\ Holds(ready) /\ Contains(ready', Task(current))
    /\ Contains(ready', Task(Len(tasks) + 1))
    /\ Moved(Task(current), {Task(current), Task(Len(tasks) + 1)}, {})
    /\ \E c \in Seq(Op) :
         \/ /\ tasks' = Append(Next1(current), NewTask(c, "promise", Fresh))
            /\ promises' = Append(promises, NewPromise("pending", <<>>))
         \/ /\ tasks' = Append(Next1(current), NewTask(c, "detached", 0))
            /\ promises' = promises

(* A promise of the host, on its way or settled at once.                     *)
Asked(waiters) ==
    /\ promises' = Append(promises, NewPromise("pending", waiters))
    /\ \E kind \in Kind : Start(kind)
Refused == /\ \E st \in {"ok", "err"} : promises' = Append(promises, NewPromise(st, <<>>))
           /\ UNCHANGED <<hosts, running>> /\ nextOp' = nextOp + 1
Sends ==
    /\ Own /\ Steps /\ Stays /\ tasks' = Next1(current) /\ UNCHANGED <<ready, syncWait>>
    /\ Asked(<<>>) \/ Refused
Notifies ==
    /\ Own /\ Steps /\ Stays /\ UNCHANGED syncWait /\ Holds(ready)
    /\ Contains(ready', Task(Len(tasks) + 1))
    /\ Moved(Task(current), {Task(Len(tasks) + 1)}, {Task(Len(tasks) + 1)})
    /\ \E c \in Seq(Instruction) :
          tasks' = Append(Next1(current), NewTask(c, "notification", Fresh))
    /\ Asked(<<>>) \/ Refused
Freezes ==
    /\ Own /\ Steps /\ current' = 0 /\ UNCHANGED <<tasks, ready, verdict>>
    /\ Asked(<<current>>)
    /\ syncWait' = [task |-> current, promise |-> Fresh]

(* Between tasks.                                                            *)
Idle == Home /\ current' = 0 /\ verdict = "none" /\ UNCHANGED <<tasks, promises>>
BreaksOff ==
    /\ Idle /\ ready' \in Seq(Event)
    /\ syncWait' \in {syncWait, NoWait} /\ (Frozen' => canceled)
    /\ \/ verdict' = "canceled" /\ canceled
       \/ verdict' = "terminated" /\ ~Evaluating
    /\ \E gone : Moved(gone, {}, {})
TakesError ==
    /\ Idle /\ UNCHANGED syncWait /\ ~Frozen /\ current = 0 /\ verdict' = "failed"
    /\ ready' \in Seq(Event)
    /\ \A t : Contains(ready, Task(t)) => Contains(ready', Task(t))
    /\ \E gone : Moved(gone, {}, {})
TakesTask(t) ==
    /\ Home /\ ~Frozen /\ current = 0 /\ t \in 1..Len(tasks) /\ tasks[t].live
    /\ Evaluating => t >= paused.floor
    /\ current' = t /\ verdict = "none" /\ UNCHANGED <<tasks, promises, syncWait, verdict>>
    /\ ready' \in Seq(Event)
    /\ \A e : Contains(ready, e) /\ e # Task(t) => Contains(ready', e)
    /\ Contains(ready, Task(t)) /\ Moved(Task(t), {}, {})
GetsStuck ==
    /\ Idle /\ UNCHANGED <<syncWait, ready>> /\ current = 0
    /\ Eligible = {} /\ DOMAIN hosts = {}
    /\ verdict' \in {"complete", "stuck"}
Still ==
    /\ UNCHANGED <<tasks, current, ready, promises, hosts, syncWait, slots, paused, verdict,
                   running, channel, files, phase, dropWaits>>
    /\ nextOp' = nextOp /\ canceled' \in BOOLEAN /\ (canceled => canceled')

-----------------------------------------------------------------------------
(* Every action of the VM is one of the moves.                               *)

(* The types the moves need, in one place.                                   *)
LEMMA ShapeIs ==
    ASSUME Shape
    PROVE  /\ Len(tasks) \in Nat /\ Len(promises) \in Nat /\ Len(ready) \in Nat
           /\ DOMAIN tasks = 1..Len(tasks) /\ DOMAIN promises = 1..Len(promises)
           /\ DOMAIN ready = 1..Len(ready)
           /\ \A t \in 1..Len(tasks) : tasks[t] \in TaskRec /\ Task(t) \in Event
                                                             /\ Error(t) \in Event
           /\ \A i \in 1..Len(ready) : ready[i] \in Event
           /\ \A p \in 1..Len(promises) : promises[p] \in PromiseRec
                     /\ (Pending(p) <=> promises[p].state = "pending")
<1>1. Len(tasks) \in Nat /\ DOMAIN tasks = 1..Len(tasks)
  BY LenProperties DEF Shape
<1>2. Len(promises) \in Nat /\ DOMAIN promises = 1..Len(promises)
  BY LenProperties DEF Shape
<1>3. Len(ready) \in Nat /\ DOMAIN ready = 1..Len(ready)
  BY LenProperties DEF Shape
<1>4. \A t \in 1..Len(tasks) : tasks[t] \in TaskRec
  BY ElementOfSeq DEF Shape
<1>5. \A t \in 1..Len(tasks) : Task(t) \in Event /\ Error(t) \in Event
  BY <1>1 DEF Event, Task, Error
<1>6. \A i \in 1..Len(ready) : ready[i] \in Event
  BY ElementOfSeq DEF Shape
<1> QED
  BY <1>1, <1>2, <1>3, <1>4, <1>5, <1>6, PromiseIs

(* Who does not stand in the line: the running task, tasks to come, and the  *)
(* errors of tasks that live.                                                *)
LEMMA NotInLine ==
    ASSUME Shape, Once
    PROVE  /\ \A t : Contains(Line, Task(t)) => Free(t)
           /\ ~Contains(Line, Task(current)) /\ ~Contains(Line, Task(0))
           /\ ~Contains(Line, Task(Len(tasks) + 1))
           /\ \A t \in 1..Len(tasks) : tasks[t].live => ~Contains(Line, Error(t))
<1>1. Len(tasks) \in Nat
  BY ShapeIs
<1>2. \A t : Contains(Line, Task(t)) => Free(t)
  BY DEF Once, Legit, Task
<1>3. \A t : Contains(Line, Error(t)) => ~tasks[t].live
  BY DEF Once, Legit, Error
<1> QED
  BY <1>1, <1>2, <1>3 DEF Free

(* The tasks that a resolution wakes come to the back of the line in their   *)
(* order.                                                                    *)
LEMMA ResolveMoves ==
    ASSUME Shape, Once, NEW p \in 1..Len(promises), NEW st, NEW gone, NEW q, Rest(gone, q),
           Resolve(p, st, q), paused' = paused
    PROVE  Moved(gone, Woken(p), Woken(p))
<1>1. PICK ws : ws = promises[p].waiters
  OBVIOUS
<1>2. PICK n : n = Len(ws)
  OBVIOUS
<1>3. ws \in Seq(Nat) /\ n \in Nat /\ DOMAIN ws = 1..n
  BY <1>1, <1>2, ShapeIs, LenProperties DEF PromiseRec
<1>4. PICK b : b = [i \in 1..n |-> Task(ws[i])]
  OBVIOUS
<1>5. \A i \in 1..n : ws[i] \in Nat /\ Task(ws[i]) \in Event
  BY <1>2, <1>3, ElementOfSeq DEF Task, Event
<1>6. b \in Seq(Event) /\ Len(b) = n /\ \A i \in 1..n : b[i] = Task(ws[i])
  <2>1. b \in [1..n -> Event]
    BY <1>4, <1>5
  <2> QED
    BY <1>3, <1>4, <2>1, SeqDef
<1>7. Single(b)
  <2>1. \A i, k \in 1..n : ws[i] = ws[k] => i = k
    BY <1>1, <1>2 DEF Once, Single
  <2>2. \A i, k \in 1..n : Task(ws[i]) = Task(ws[k]) => ws[i] = ws[k]
    BY DEF Task
  <2> QED
    BY <1>6, <2>1, <2>2 DEF Single
<1>8. \A e : Contains(b, e) <=> e \in Woken(p)
  BY <1>1, <1>2, <1>6 DEF Contains, Woken
<1>9. \A e \in Woken(p) : ~Contains(Line, e)
  <2> SUFFICES ASSUME NEW i \in 1..n
               PROVE  ~Contains(Line, Task(ws[i]))
    BY <1>1, <1>2 DEF Woken
  <2>1. WaitsFor(ws[i], p)
    BY <1>1, <1>2 DEF WaitsFor, Contains
  <2> QED
    BY <2>1 DEF Once
<1>10. ready' = q \o b
  BY <1>1, <1>3, <1>4 DEF Resolve
<1> QED
  BY <1>6, <1>7, <1>8, <1>9, <1>10, MovedBack

(* One event comes to the back or to the front.                              *)
LEMMA MovedOne ==
    ASSUME Shape, NEW gone, NEW q, Rest(gone, q), NEW e \in Event, ~Contains(Line, e),
           paused' = paused
    PROVE  /\ ready' = Append(q, e) => Moved(gone, {e}, {e}) /\ Moved(gone, {e}, {})
           /\ ready' = <<e>> \o q => Moved(gone, {e}, {})
<1>1. /\ <<e>> \in Seq(Event) /\ Single(<<e>>) /\ q \in Seq(Event)
      /\ \A x : Contains(<<e>>, x) <=> x \in {e}
  BY FewOrder DEF Rest
<1>2. \A x \in {e} : ~Contains(Line, x)
  OBVIOUS
<1>3. ASSUME ready' = Append(q, e)
      PROVE  Moved(gone, {e}, {e}) /\ Moved(gone, {e}, {})
  <2>1. ready' = q \o <<e>>
    BY <1>1, <1>3, AppendIsConcat
  <2>2. Moved(gone, {e}, {e})
    BY <1>1, <1>2, <2>1, MovedBack
  <2> QED
    BY <2>2 DEF Moved
<1>4. ASSUME ready' = <<e>> \o q
      PROVE  Moved(gone, {e}, {})
  BY <1>1, <1>2, <1>4, MovedFront
<1> QED
  BY <1>3, <1>4

(* The loop goes on after a task has left.                                   *)
LEMMA BreakIs ==
    ASSUME Break
    PROVE  Left /\ (verdict' = "complete" => Settled')
BY DEF Break, Left

(* The running task has an instruction.                                      *)
LEMMA RunsIs ==
    ASSUME Shape, Turns, Once, NEW what, Runs(what)
    PROVE  /\ Steps /\ current # 0 /\ phase = "live" /\ Instr.do = what
           /\ syncWait' = syncWait => Acts(current, ready)
<1>1. current \in 1..Len(tasks) /\ current # 0 /\ phase = "live"
  BY ShapeIs DEF Runs, Shape
<1>2. Steps
  BY <1>1 DEF Turns, Runs, Steps
<1>3. syncWait' = syncWait => Acts(current, ready)
  BY <1>1, <1>2, RestIs, NotInLine DEF Acts, Steps, Shape
<1> QED
  BY <1>1, <1>2, <1>3 DEF Runs

(* What stays the same in Home, spelled out of a frame.                      *)
Around ==
    /\ phase = "live" /\ nextOp' \in Nat /\ nextOp <= nextOp'
    /\ UNCHANGED <<paused, files, channel, phase, canceled, dropWaits, hosts, running, slots>>

(* An instruction that raises goes on in its handler, or ends its task.      *)
LEMMA ThrowIs ==
    ASSUME Shape, Programs, Produced, Once, Around,
           NEW t, NEW q, NEW try \in BOOLEAN, NEW settle \in BOOLEAN,
           Acts(t, q), tasks[t].code # <<>>, Throw(t, try, q, settle)
    PROVE  GoesOn(t, q) \/ Dies(t, q) \/ Returns(t, q)
<1>1. /\ t \in 1..Len(tasks) /\ tasks[t] \in TaskRec /\ q \in Seq(Event)
      /\ Error(t) \in Event /\ Len(promises) \in Nat /\ verdict = "none"
      /\ tasks[t].live
  BY ShapeIs DEF Acts
<1>2. Len(promises') = Len(promises) => Home
  BY DEF Around, Home, Own, Shape
<1>3. CASE try
  <2>1. GoesOn(t, q)
    BY <1>1, <1>2, <1>3 DEF Throw, GoesOn
  <2> QED
    BY <2>1
<1>4. CASE ~try
  <2>1. tasks' = Ended(t)
    BY <1>4 DEF Throw
  <2>2. Break \/ BackToTop => Left
    BY <1>1, BreakIs DEF BackToTop, Left
  <2>3. CASE /\ tasks[t].ends \in {"root", "notification"} /\ ready' = q
             /\ Abort("failed") /\ promises' = promises
    BY <1>1, <1>2, <2>1, <2>3 DEF Dies, Holds, Abort, Fn
  <2>4. CASE /\ tasks[t].ends = "detached" /\ ready' = Append(q, Error(t))
             /\ Break \/ BackToTop
             /\ promises' = promises
    <3>1. Holds(q)
      BY <1>1, <2>4, AppendIs DEF Holds
    <3>2. Moved(Task(t), {Error(t)}, {Error(t)})
      BY <1>1, <2>4, NotInLine, MovedOne DEF Acts, Around
    <3> QED
      BY <1>1, <1>2, <2>1, <2>2, <2>4, <3>1, <3>2 DEF Dies, Left, Fn
  <2>5. CASE /\ tasks[t].ends = "promise" /\ Resolve(tasks[t].promise, "err", q)
             /\ Pending(tasks[t].promise) => Break \/ BackToTop
    <3>1. tasks[t].promise \in 1..Len(promises) /\ Pending(tasks[t].promise)
      BY <1>1, <2>5 DEF Produced, Fn
    <3>2. Resolved(tasks[t].promise, "err", q)
      BY <1>1, <2>5, <3>1, ResolveIs DEF Shape
    <3>3. Moved(Task(t), Woken(tasks[t].promise), Woken(tasks[t].promise))
      BY <1>1, <2>5, <3>1, ResolveMoves DEF Acts, Around
    <3> QED
      BY <1>1, <1>2, <2>1, <2>2, <2>5, <3>1, <3>2, <3>3 DEF Returns, Resolved, Fn
  <2> QED
    BY <1>4, <2>3, <2>4, <2>5 DEF Throw
<1> QED
  BY <1>3, <1>4

(* A move of one task.                                                       *)
TaskMove == \E t, q : GoesOn(t, q) \/ Dies(t, q) \/ Returns(t, q)
Move == TaskMove \/ Yields \/ Suspends \/ Calls \/ Sends \/ Notifies \/ Freezes
           \/ BreaksOff \/ TakesError \/ (\E t : TakesTask(t)) \/ GetsStuck \/ Still

(* A task that is suspended is a waiter, and those before it stay waiters.   *)
LEMMA SuspendIs ==
    ASSUME Shape, Once, NEW p \in 1..Len(promises), current \in Nat, Suspend(p)
    PROVE  /\ promises' \in Seq(PromiseRec) /\ Len(promises') = Len(promises)
           /\ \A x \in 1..Len(promises) : x # p => promises'[x] = promises[x]
           /\ promises'[p].state = promises[p].state /\ promises'[p].op = promises[p].op
           /\ Contains(promises'[p].waiters, current)
           /\ \A t : Contains(promises[p].waiters, t)
                       => Contains(promises'[p].waiters, t)
           /\ Single(promises'[p].waiters)
           /\ \A t : Contains(promises'[p].waiters, t)
                       => t = current \/ Contains(promises[p].waiters, t)
<1>1. promises \in Seq(PromiseRec) /\ promises[p] \in PromiseRec
  BY PromiseIs DEF Shape
<1>2. CASE Contains(promises[p].waiters, current)
  BY <1>1, <1>2 DEF Suspend, Once
<1>3. CASE ~Contains(promises[p].waiters, current)
  <2> DEFINE ws == Append(promises[p].waiters, current)
             r == [promises[p] EXCEPT !.waiters = ws]
  <2>1. /\ ws \in Seq(Nat) /\ Contains(ws, current)
        /\ \A t : Contains(promises[p].waiters, t) => Contains(ws, t)
        /\ Single(ws)
        /\ \A t : Contains(ws, t) => t = current \/ Contains(promises[p].waiters, t)
    <3>1. PICK w : w = promises[p].waiters
      OBVIOUS
    <3>2. w \in Seq(Nat) /\ Single(w) /\ ~Contains(w, current)
      BY <1>1, <1>3, <3>1 DEF PromiseRec, Once
    <3>3. /\ <<current>> \in Seq(Nat) /\ Single(<<current>>)
          /\ \A e : Contains(<<current>>, e) <=> e = current
      BY FewOrder
    <3>4. ws = w \o <<current>> /\ ws \in Seq(Nat)
      BY <3>1, <3>2, AppendIsConcat, AppendProperties
    <3> HIDE DEF ws
    <3>5. /\ \A e : Contains(ws, e) <=> Contains(w, e) \/ e = current
          /\ Single(ws)
      BY <3>2, <3>3, <3>4, ConcatOrder, ZenonT(30)
    <3> QED
      BY <3>1, <3>4, <3>5
  <2>2. promises' = [promises EXCEPT ![p] = r]
    BY <1>3 DEF Suspend
  <2> HIDE DEF ws
  <2>3. /\ r \in PromiseRec /\ r.state = promises[p].state /\ r.op = promises[p].op
        /\ r.waiters = ws
    BY <1>1, <2>1 DEF PromiseRec
  <2> HIDE DEF r
  <2>4. /\ promises' \in Seq(PromiseRec) /\ Len(promises') = Len(promises)
        /\ \A x \in 1..Len(promises) : promises'[x] = IF x = p THEN r ELSE promises[x]
    BY <1>1, <2>2, <2>3, ExceptSeq
  <2> QED
    BY <2>1, <2>3, <2>4
<1> QED
  BY <1>2, <1>3

(* The instructions that keep to themselves.                                 *)
LEMMA PlainInstructions ==
    ASSUME Shape, Programs, Turns, Produced, Once, Around, nextOp' = nextOp,
           \/ Work \/ Raise \/ Enter \/ Leave \/ AwaitValue \/ AwaitPromise
           \/ HandleNotification
    PROVE  Move
<1>1. syncWait' = syncWait /\ \E what : Runs(what)
  BY DEF Work, Raise, Enter, Leave, NestedReturns, AwaitValue, AwaitPromise, HandleNotification
<1>2. /\ Steps /\ current # 0 /\ Acts(current, ready) /\ verdict = "none"
      /\ current \in 1..Len(tasks) /\ tasks[current].code # <<>>
      /\ Task(current) \in Event /\ Instr.try \in BOOLEAN /\ ready \in Seq(Event)
      /\ Len(promises) \in Nat
  BY <1>1, RunsIs, ShapeIs, InstrIs DEF Steps, Shape
<1>3. Len(promises') = Len(promises) => Home
  BY DEF Around, Home, Own, Shape
<1>4. ASSUME Continue, promises' = promises, ready' = ready
      PROVE  Move
  <2>1. GoesOn(current, ready)
    BY <1>2, <1>3, <1>4 DEF Continue, Go, GoesOn
  <2> QED
    BY <2>1 DEF Move, TaskMove
<1>5. ASSUME tasks' = Next1(current), promises' = promises, Break,
             ready' = Append(ready, Task(current)) \/ ready' = <<Task(current)>> \o ready
      PROVE  Move
  <2>1. Holds(ready) /\ Contains(ready', Task(current))
    <3>1. CASE ready' = Append(ready, Task(current))
      BY <1>2, <3>1, AppendIs DEF Holds
    <3>2. CASE ready' = <<Task(current)>> \o ready
      BY <1>2, <3>2, SingletonIs, ConcatIs DEF Holds
    <3> QED
      BY <1>5, <3>1, <3>2
  <2>2. Moved(Task(current), {Task(current)}, {})
    BY <1>2, <1>5, NotInLine, MovedOne DEF Acts, Around
  <2>3. Yields
    BY <1>1, <1>2, <1>3, <1>5, <2>1, <2>2, BreakIs DEF Yields
  <2> QED
    BY <2>3 DEF Move
<1>6. ASSUME Throw(current, Instr.try, ready, TRUE)
      PROVE  Move
  <2>1. GoesOn(current, ready) \/ Dies(current, ready) \/ Returns(current, ready)
    BY <1>2, <1>6, ThrowIs
  <2> QED
    BY <2>1 DEF Move, TaskMove
<1>7. ASSUME NEW p \in 1..Len(promises), promises[p].state = "pending", Suspend(p)
      PROVE  Move
  <2>1. Pending(p)
    BY <1>7, PromiseIs
  <2>2. /\ promises' \in Seq(PromiseRec) /\ Len(promises') = Len(promises)
        /\ \A x \in 1..Len(promises) : x # p => promises'[x] = promises[x]
        /\ promises'[p].state = promises[p].state /\ promises'[p].op = promises[p].op
        /\ Contains(promises'[p].waiters, current)
        /\ \A t : Contains(promises[p].waiters, t) => Contains(promises'[p].waiters, t)
        /\ Single(promises'[p].waiters)
        /\ \A t : Contains(promises'[p].waiters, t)
                     => t = current \/ Contains(promises[p].waiters, t)
    <3>1. current \in Nat
      BY DEF Shape
    <3> QED
      BY <1>7, <3>1, SuspendIs
  <2>3. Suspends
    BY <1>1, <1>2, <1>3, <1>7, <2>1, <2>2, BreakIs DEF Suspends, Suspend
  <2> QED
    BY <2>3 DEF Move
<1>8. CASE Work
  BY <1>4, <1>5, <1>8 DEF Work
<1>9. CASE Raise
  BY <1>6, <1>9 DEF Raise
<1>10. CASE NestedReturns
  BY <1>4, <1>6, <1>10 DEF NestedReturns
<1>11. CASE Enter \/ Leave
  <2>1. CASE /\ Go
             /\ UNCHANGED <<tasks, ready, promises, hosts, syncWait, slots, result, paused>>
    <3>1. Home
      BY <1>3, <2>1
    <3>2. Still
      BY <2>1, <3>1 DEF Still, Go, Around, Home, Own, Shape
    <3> QED
      BY <3>2 DEF Move
  <2> QED
    BY <1>10, <1>11, <2>1 DEF Enter, Leave
<1>12. CASE AwaitValue
  BY <1>5, <1>12 DEF AwaitValue
<1>13. CASE AwaitPromise
  <2>1. slots[Instr.slot] \in 1..Len(promises)
    <3>1. Instr.do = "await"
      BY <1>13 DEF AwaitPromise, Runs
    <3>2. Instr.slot \in Slot
      BY <1>2, <3>1, InstrIs
    <3>3. slots[Instr.slot] \in 0..Len(promises)
      BY <3>2 DEF Shape
    <3> QED
      BY <1>2, <1>13, <3>3 DEF AwaitPromise
  <2>2. promises[slots[Instr.slot]].state \in {"pending", "ok", "err"}
    BY <2>1, PromiseIs DEF PromiseRec
  <2> QED
    BY <1>5, <1>6, <1>7, <1>13, <2>1, <2>2 DEF AwaitPromise
<1>14. CASE HandleNotification
  <2>1. tasks[current].promise \in 1..Len(promises)
    <3>1. Instr.do = "handle"
      BY <1>14 DEF HandleNotification, Runs
    <3> QED
      BY <1>2, <3>1, InstrIs
  <2>2. promises[tasks[current].promise].state \in {"pending", "ok", "err"}
    BY <2>1, PromiseIs DEF PromiseRec
  <2> QED
    BY <1>4, <1>5, <1>7, <1>14, <2>1, <2>2 DEF HandleNotification
<1> QED
  BY <1>8, <1>9, <1>12, <1>13, <1>14, <1>11

(* The end of a task.                                                        *)
LEMMA DoneMoves ==
    ASSUME Shape, Programs, Turns, Produced, Once, Around, Done
    PROVE  Move
<1>1. /\ current # 0 /\ current \in 1..Len(tasks) /\ tasks[current] \in TaskRec
      /\ tasks[current].live /\ verdict = "none" /\ ready \in Seq(Event)
      /\ Len(promises) \in Nat /\ syncWait' = syncWait /\ tasks' = Ended(current)
  BY ShapeIs DEF Done, Shape, Turns
<1>2. Acts(current, ready)
  BY <1>1, RestIs, NotInLine DEF Acts
<1>3. Len(promises') = Len(promises) => Home
  BY DEF Around, Home, Own, Shape
<1>4. CASE tasks[current].ends = "promise"
  <2>1. tasks[current].promise \in 1..Len(promises) /\ Pending(tasks[current].promise)
    BY <1>1, <1>4 DEF Produced, Fn
  <2>2. Resolve(tasks[current].promise, "ok", ready) /\ Break
    BY <1>4, <2>1 DEF Done
  <2>3. Resolved(tasks[current].promise, "ok", ready)
    BY <1>1, <2>1, <2>2, ResolveIs DEF Shape
  <2>4. Moved(Task(current), Woken(tasks[current].promise), Woken(tasks[current].promise))
    BY <1>2, <2>1, <2>2, ResolveMoves DEF Acts, Around
  <2>5. Returns(current, ready)
    BY <1>1, <1>2, <1>3, <1>4, <2>2, <2>3, <2>4, BreakIs DEF Returns, Resolved, Fn
  <2> QED
    BY <2>5 DEF Move, TaskMove
<1>5. CASE tasks[current].ends \in {"root", "detached", "notification"}
  <2>1. /\ UNCHANGED <<ready, promises>>
        /\ Break \/ Abort("complete") \/ Abort("failed")
    BY <1>5 DEF Done
  <2>2. current' = 0 /\ verdict' \in {"none", "complete", "failed"}
    BY <2>1, BreakIs DEF Left, Abort
  <2>3. Dies(current, ready)
    BY <1>1, <1>2, <1>3, <1>5, <2>1, <2>2 DEF Dies, Holds, Fn
  <2> QED
    BY <2>3 DEF Move, TaskMove
<1> QED
  BY <1>1, <1>4, <1>5 DEF TaskRec

(* A new task and a new promise.                                             *)
LEMMA NewIs ==
    ASSUME Shape, NEW c \in Seq(Instruction), NEW p \in Nat,
           NEW ends \in {"root", "promise", "detached", "notification"},
           NEW st \in {"pending", "ok", "err"}, NEW ws \in Seq(Nat)
    PROVE  NewTask(c, ends, p) \in TaskRec /\ NewPromise(st, ws) \in PromiseRec
BY DEF NewTask, NewPromise, TaskRec, PromiseRec, Shape

(* One more promise leaves room for its number in a variable.                *)
LEMMA OneMorePromise ==
    ASSUME Shape, NEW st \in {"pending", "ok", "err"}, NEW ws \in Seq(Nat),
           promises' = Append(promises, NewPromise(st, ws))
    PROVE  /\ promises' \in Seq(PromiseRec)
           /\ Len(promises) \in Nat /\ Len(promises') = Len(promises) + 1
           /\ promises'[Fresh] = NewPromise(st, ws)
           /\ \A p \in 1..Len(promises) : promises'[p] = promises[p]
           /\ \A s \in Slot, n \in 0..Fresh :
                 [slots EXCEPT ![s] = n] \in [Slot -> 0..Len(promises')]
           /\ slots \in [Slot -> 0..Len(promises')]
<1>1. NewPromise(st, ws) \in PromiseRec
  BY DEF NewPromise, PromiseRec, Shape
<1>2. Len(promises) \in Nat
  BY ShapeIs
<1>3. /\ promises' \in Seq(PromiseRec) /\ Len(promises') = Len(promises) + 1
      /\ promises'[Len(promises) + 1] = NewPromise(st, ws)
      /\ \A p \in 1..Len(promises) : promises'[p] = promises[p]
  BY <1>1, AppendIs DEF Shape
<1> QED
  BY <1>2, <1>3 DEF Fresh, Shape

(* A call of an async routine.                                               *)
LEMMA StartAsyncMoves ==
    ASSUME Shape, Programs, Turns, Once, StartAsync, phase = "live", nextOp' = nextOp + 1,
           UNCHANGED <<running, channel, files, phase, canceled, dropWaits>>
    PROVE  Move
<1>1. PICK what : what \in {"function", "procedure"} /\ Runs(what)
  BY DEF StartAsync
<1>2. /\ Steps /\ current # 0 /\ current \in 1..Len(tasks)
      /\ Instr.do = what /\ Instr.body \in Body /\ Instr.slot \in Slot
      /\ Len(tasks) \in Nat /\ Len(promises) \in Nat
      /\ Task(current) \in Event /\ ready \in Seq(Event)
  BY <1>1, RunsIs, ShapeIs, InstrIs DEF Steps, Shape
<1> DEFINE c == Code[Instr.body]
<1>3. c \in Seq(Op)
  BY <1>2, CodeIs
<1>4. ready' = <<Task(Len(tasks) + 1), Task(current)>> \o ready
  BY DEF StartAsync
<1>5. Holds(ready) /\ Contains(ready', Task(current)) /\ Contains(ready', Task(Len(tasks) + 1))
  <2> DEFINE two == <<Task(Len(tasks) + 1), Task(current)>>
  <2>1. Task(Len(tasks) + 1) \in Event
    BY <1>2 DEF Task, Event
  <2>2. /\ two \in Seq(Event) /\ Len(two) = 2
        /\ two[1] = Task(Len(tasks) + 1) /\ two[2] = Task(current)
    BY <1>2, <2>1
  <2> HIDE DEF two
  <2>3. Contains(two, Task(Len(tasks) + 1)) /\ Contains(two, Task(current))
    BY <2>2 DEF Contains
  <2>4. ready' = two \o ready
    BY <1>4 DEF two
  <2> QED
    BY <1>2, <2>2, <2>3, <2>4, ConcatIs DEF Holds
<1>6. \/ /\ tasks' = Append(Next1(current), NewTask(c, "promise", Fresh))
         /\ promises' = Append(promises, NewPromise("pending", <<>>))
         /\ slots' = [slots EXCEPT ![Instr.slot] = Fresh]
      \/ /\ tasks' = Append(Next1(current), NewTask(c, "detached", 0))
         /\ promises' = promises
         /\ slots' = [slots EXCEPT ![Instr.slot] = 0]
  BY <1>1, <1>2 DEF StartAsync, Fresh
<1>7. slots' \in [Slot -> 0..Len(promises')]
  <2>1. CASE /\ promises' = Append(promises, NewPromise("pending", <<>>))
             /\ slots' = [slots EXCEPT ![Instr.slot] = Fresh]
    <3>1. <<>> \in Seq(Nat) /\ Fresh \in 0..Fresh
      BY <1>2, EmptySeq DEF Fresh
    <3> QED
      BY <1>2, <2>1, <3>1, OneMorePromise
  <2>2. CASE promises' = promises /\ slots' = [slots EXCEPT ![Instr.slot] = 0]
    BY <1>2, <2>2 DEF Shape
  <2> QED
    BY <1>6, <2>1, <2>2
<1>8. Calls
  <2>1. Break /\ UNCHANGED <<hosts, syncWait, paused>>
    BY DEF StartAsync
  <2>2. Home
    BY <1>7, <2>1 DEF Home, Own, Shape
  <2>3. Moved(Task(current), {Task(current), Task(Len(tasks) + 1)}, {})
    <3>1. PICK new : new = Task(Len(tasks) + 1)
      OBVIOUS
    <3>2. PICK this : this = Task(current)
      OBVIOUS
    <3>3. new \in Event /\ this \in Event /\ new # this
      BY <1>2, <3>1, <3>2 DEF Task, Event
    <3>4. /\ <<new, this>> \in Seq(Event) /\ Single(<<new, this>>)
          /\ \A e : Contains(<<new, this>>, e) <=> e \in {this, new}
      BY <3>3, FewOrder
    <3>5. \A e \in {this, new} : ~Contains(Line, e)
      BY <3>1, <3>2, NotInLine
    <3>6. Rest(this, ready)
      BY <3>5, RestIs
    <3>7. ready' = <<new, this>> \o ready
      BY <1>4, <3>1, <3>2
    <3>8. Moved(this, {this, new}, {})
      BY <2>1, <3>4, <3>5, <3>6, <3>7, MovedFront
    <3> QED
      BY <3>1, <3>2, <3>8
  <2> HIDE DEF c
  <2> QED
    BY <1>2, <1>3, <1>5, <1>6, <2>1, <2>2, <2>3, BreakIs DEF Calls
<1> QED
  BY <1>8 DEF Move

(* The operations of the host.                                               *)
LEMMA HostMoves ==
    ASSUME Shape, Programs, Turns, Produced, Once, phase = "live", nextOp' = nextOp + 1,
           UNCHANGED <<phase, canceled, dropWaits>>,
           HostCall \/ HostCallSettles \/ HostRefuses \/ SyncCall \/ Notify
    PROVE  Move
<1>1. PICK what : what \in {"host", "sync", "notify"} /\ Runs(what)
  BY DEF HostCall, HostCallSettles, HostRefuses, SyncCall, Notify
<1>2. /\ Steps /\ current # 0 /\ current \in 1..Len(tasks) /\ verdict = "none"
      /\ Instr.do = what /\ Instr.try \in BOOLEAN
      /\ what = "notify" => Instr.body \in Body
      /\ what = "host" => Instr.slot \in Slot
      /\ what \in {"host", "sync"} => Instr.kind \in Kind
      /\ Len(tasks) \in Nat /\ Len(promises) \in Nat
      /\ Task(current) \in Event /\ ready \in Seq(Event)
  BY <1>1, RunsIs, ShapeIs, InstrIs DEF Steps, Shape
<1>3. /\ <<>> \in Seq(Nat) /\ <<current>> \in Seq(Nat) /\ Fresh \in 0..Fresh
      /\ nextOp' \in Nat /\ nextOp <= nextOp'
  BY <1>2, EmptySeq, SingletonIs DEF Fresh, Shape
<1>4. CASE HostCall
  <2>1. Asked(<<>>)
    BY <1>2, <1>4 DEF HostCall, Asked, Runs
  <2>2. slots' \in [Slot -> 0..Len(promises')]
    BY <1>2, <1>3, <1>4, OneMorePromise DEF HostCall, Runs
  <2>3. Sends
    BY <1>2, <1>3, <1>4, <2>1, <2>2 DEF HostCall, Sends, Own, Stays, Continue, Go
  <2> QED
    BY <2>3 DEF Move
<1>5. CASE HostCallSettles
  <2>1. Refused
    BY <1>5 DEF HostCallSettles, MadeSettled, Refused
  <2>2. slots' \in [Slot -> 0..Len(promises')]
    BY <1>2, <1>3, <1>5, <2>1, OneMorePromise DEF HostCallSettles, Refused, Runs
  <2>3. Sends
    BY <1>2, <1>3, <1>5, <2>1, <2>2 DEF HostCallSettles, Sends, Own, Stays, Continue, Go
  <2> QED
    BY <2>3 DEF Move
<1>6. CASE HostRefuses
  <2>1. Around /\ Throw(current, Instr.try, ready, TRUE) /\ syncWait' = syncWait
    BY <1>3, <1>6 DEF HostRefuses, Around, outVars
  <2>2. Acts(current, ready) /\ tasks[current].code # <<>>
    BY <1>1, <1>2, <2>1, RunsIs DEF Steps
  <2>3. GoesOn(current, ready) \/ Dies(current, ready) \/ Returns(current, ready)
    BY <1>2, <2>1, <2>2, ThrowIs
  <2> QED
    BY <2>3 DEF Move, TaskMove
<1>7. CASE SyncCall
  <2>1. Asked(<<current>>)
    BY <1>2, <1>7 DEF SyncCall, Asked, Runs
  <2>2. slots' \in [Slot -> 0..Len(promises')]
    BY <1>3, <1>7, OneMorePromise DEF SyncCall
  <2>3. tasks' = tasks /\ Break
    BY <1>7 DEF SyncCall
  <2>4. ~Settled'
    BY <1>2, <2>3, ShapeIs DEF Settled, Steps
  <2>5. verdict' = verdict /\ current' = 0
    BY <1>2, <2>3, <2>4, BreakIs DEF Left
  <2>6. Freezes
    BY <1>2, <1>3, <1>7, <2>1, <2>2, <2>5 DEF SyncCall, Freezes, Own
  <2> QED
    BY <2>6 DEF Move
<1>8. CASE Notify
  <2>1. Asked(<<>>) \/ Refused
    BY <1>8 DEF Notify, MadeSettled, Asked, Refused, Kind
  <2>2. slots' \in [Slot -> 0..Len(promises')]
    BY <1>3, <1>8, <2>1, OneMorePromise DEF Notify, Asked, Refused
  <2>3. Holds(ready) /\ Contains(ready', Task(Len(tasks) + 1))
    <3>1. Task(Len(tasks) + 1) \in Event
      BY <1>2 DEF Task, Event
    <3>2. ready' = Append(ready, Task(Len(tasks) + 1))
      BY <1>8 DEF Notify
    <3> QED
      BY <1>2, <3>1, <3>2, AppendIs DEF Holds
  <2>4. \E c \in Seq(Instruction) :
           tasks' = Append(Next1(current), NewTask(c, "notification", Fresh))
    <3>1. Code[Instr.body] \in Seq(Instruction)
      BY <1>2, <1>8, CodeIs DEF Notify, Runs
    <3>2. <<Handle>> \in Seq(Instruction)
      BY SingletonIs DEF Instruction
    <3>3. <<Handle>> \o Code[Instr.body] \in Seq(Instruction)
      BY <3>1, <3>2, ConcatIs
    <3> QED
      BY <1>8, <3>3 DEF Notify
  <2>5. Moved(Task(current), {Task(Len(tasks) + 1)}, {Task(Len(tasks) + 1)})
    <3>1. PICK new : new = Task(Len(tasks) + 1)
      OBVIOUS
    <3>2. new \in Event /\ ~Contains(Line, new) /\ ready' = Append(ready, new)
      BY <1>2, <1>8, <3>1, NotInLine DEF Task, Event, Notify
    <3>3. Rest(Task(current), ready)
      BY NotInLine, RestIs
    <3>4. Moved(Task(current), {new}, {new})
      BY <1>8, <3>2, <3>3, MovedOne DEF Notify
    <3> QED
      BY <3>1, <3>4
  <2>6. Notifies
    BY <1>2, <1>3, <1>8, <2>1, <2>2, <2>3, <2>4, <2>5 DEF Notify, Notifies, Own, Stays, Go
  <2> QED
    BY <2>6 DEF Move
<1> QED
  BY <1>4, <1>5, <1>6, <1>7, <1>8

(* The choice of an event.                                                   *)
LEMMA EligibleIs ==
    ASSUME Shape, Once, NEW i \in Eligible
    PROVE  /\ i \in 1..Len(ready) /\ ready[i] \in Event
           /\ RemoveAt(ready, i) \in Seq(Event) /\ Rest(ready[i], RemoveAt(ready, i))
           /\ Contains(ready, ready[i])
           /\ \A e : Contains(ready, e) /\ e # ready[i] => Contains(RemoveAt(ready, i), e)
           /\ Frozen => ready[i] = Task(syncWait.task)
           /\ ~Frozen /\ Evaluating /\ ready[i].is = "task" => ready[i].of >= paused.floor
<1>1. i \in 1..Len(ready) /\ ready[i] \in Event
  BY ShapeIs DEF Eligible
<1>2. /\ RemoveAt(ready, i) \in Seq(Event) /\ Rest(ready[i], RemoveAt(ready, i))
      /\ \A e : Contains(ready, e) /\ e # ready[i] => Contains(RemoveAt(ready, i), e)
      /\ Contains(ready, ready[i])
  <2>1. Single(ready) /\ ready \in Seq(Event)
    BY LineIs
  <2>2. Rest(ready[i], RemoveAt(ready, i)) /\ Contains(ready, ready[i])
    BY <1>1, RestIs DEF Contains
  <2> QED
    BY <1>1, <2>1, <2>2, RemovedOrder
<1>3. Frozen => ready[i] = Task(syncWait.task)
  BY DEF Eligible
<1>4. ~Frozen /\ Evaluating /\ ready[i].is = "task" => ready[i].of >= paused.floor
  BY DEF Eligible
<1> QED
  BY <1>1, <1>2, <1>3, <1>4

(* The VM between tasks, and a run that the debugger ends.                   *)
LEMMA BetweenMoves ==
    ASSUME Shape, Programs, Turns, FrozenWaits, Produced, Once, Awaited, Around,
           nextOp' = nextOp,
           PopCanceled \/ PopError \/ PopTask \/ PopFrozen \/ Block \/ WaitCanceled
             \/ Stuck \/ Terminate
    PROVE  Move
<1>1. /\ slots \in [Slot -> 0..Len(promises)] /\ ready \in Seq(Event)
      /\ canceled \in BOOLEAN /\ NoWait.task = 0
  BY DEF Shape, NoWait
<1>2. promises' = promises => Home
  BY <1>1 DEF Around, Home, Own
<1>3. ready' = ready => Moved(Task(0), {}, {})
  BY NotInLine, RestIs, MovedNot DEF Around
<1>4. CASE PopCanceled
  <2>1. PICK i \in Eligible : ready' = RemoveAt(ready, i)
    BY <1>4 DEF PopCanceled
  <2>2. ready' \in Seq(Event) /\ Moved(ready[i], {}, {})
    BY <2>1, EligibleIs, MovedNot DEF Around
  <2>3. BreaksOff
    BY <1>2, <1>4, <2>2 DEF PopCanceled, Between, BreaksOff, Idle, Abort, Frozen
  <2> QED
    BY <2>3 DEF Move
<1>5. CASE PopError
  <2>1. PICK i \in Eligible : ready[i].is = "error" /\ ready' = RemoveAt(ready, i)
    BY <1>5 DEF PopError
  <2>2. ~Frozen /\ \A t : Task(t) # ready[i]
    BY <2>1, EligibleIs DEF Task
  <2>3. /\ ready' \in Seq(Event) /\ Moved(ready[i], {}, {})
        /\ \A t : Contains(ready, Task(t)) => Contains(ready', Task(t))
    BY <2>1, <2>2, EligibleIs, MovedNot DEF Around
  <2>4. TakesError
    BY <1>2, <1>5, <2>2, <2>3 DEF PopError, Between, TakesError, Idle, Abort
  <2> QED
    BY <2>4 DEF Move
<1>6. CASE PopTask
  <2>1. PICK i \in Eligible :
           /\ ready[i].is = "task" /\ ready' = RemoveAt(ready, i)
           /\ IF Parked(ready[i].of) THEN current' = ready[i].of /\ UNCHANGED verdict
                                     ELSE Abort("broken")
    BY <1>6 DEF PopTask
  <2>2. /\ ready' \in Seq(Event)
        /\ \A e : Contains(ready, e) /\ e # ready[i] => Contains(ready', e)
        /\ ready[i] = Task(ready[i].of)
        /\ Evaluating => ready[i].of >= paused.floor
        /\ ~Frozen /\ Contains(ready, ready[i]) /\ Moved(ready[i], {}, {})
    BY <1>6, <2>1, EligibleIs, MovedNot DEF PopTask, Event, Task, Around
  <2>3. PICK t : t = ready[i].of
    OBVIOUS
  <2>4. ready[i] = Task(t) /\ Free(t)
    BY <2>2, <2>3, LineIs, NotInLine
  <2>5. t \in 1..Len(tasks) /\ tasks[t].live /\ Parked(t)
    BY <2>4, ShapeIs DEF Free, Parked
  <2>6. TakesTask(t)
    BY <1>2, <1>6, <2>1, <2>2, <2>3, <2>4, <2>5 DEF PopTask, Between, TakesTask
  <2> QED
    BY <2>6 DEF Move
<1>7. CASE PopFrozen
  <2> DEFINE t == syncWait.task
             p == syncWait.promise
  <2>1. /\ Frozen /\ ~canceled /\ current = 0 /\ verdict = "none" /\ syncWait' = NoWait
        /\ t \in 1..Len(tasks) /\ tasks[t].code # <<>>
        /\ p \in 1..Len(promises)
    BY <1>7 DEF PopFrozen, Between, FrozenWaits, Shape
  <2>2. PICK i \in Eligible :
           IF ~Parked(t) \/ Pending(p)
           THEN Abort("broken") /\ ready' = RemoveAt(ready, i) /\ UNCHANGED <<tasks, promises>>
           ELSE IF promises[p].state = "ok"
           THEN /\ tasks' = Next1(t) /\ current' = t /\ ready' = RemoveAt(ready, i)
                /\ UNCHANGED <<promises, verdict>>
           ELSE Throw(t, Head(tasks[t].code).try, RemoveAt(ready, i), FALSE)
    BY <1>7 DEF PopFrozen
  <2> DEFINE q == RemoveAt(ready, i)
  <2>3. /\ q \in Seq(Event) /\ Rest(Task(t), q) /\ Contains(ready, Task(t))
        /\ \A e : Contains(ready, e) /\ e # Task(t) => Contains(q, e)
    BY <2>1, <2>2, EligibleIs
  <2>4. Parked(t) => Acts(t, q)
    <3> HIDE DEF q
    <3> QED
      BY <2>1, <2>3 DEF Acts, Parked
  <2>5. Parked(t) /\ ~Pending(p)
    <3>1. Free(t) /\ Contains(Line, Task(t))
      BY <2>3, LineIs, NotInLine
    <3>2. ~WaitsFor(t, p)
      BY <2>1, <3>1 DEF Once
    <3> QED
      BY <2>1, <3>1, <3>2, ShapeIs DEF Free, Parked, Awaited
  <2>6. CASE Parked(t) /\ ~Pending(p) /\ promises[p].state = "ok"
    <3>1. GoesOn(t, q)
      BY <1>2, <2>1, <2>2, <2>4, <2>6 DEF GoesOn
    <3> QED
      BY <3>1 DEF Move, TaskMove
  <2>7. CASE Parked(t) /\ ~Pending(p) /\ promises[p].state # "ok"
    <3>1. Head(tasks[t].code).try \in BOOLEAN
      <4>1. Head(tasks[t].code) \in Instruction
        BY <2>1, ShapeIs, HeadTailProperties DEF TaskRec
      <4>2. Head(tasks[t].code) \in Op => Head(tasks[t].code).try \in BOOLEAN
        BY DEF Op
      <4>3. Handle.try \in BOOLEAN
        BY DEF Handle
      <4>4. CASE Head(tasks[t].code) \in Op
        BY <4>2, <4>4
      <4>5. CASE Head(tasks[t].code) = Handle
        BY <4>3, <4>5
      <4> QED
        BY <4>1, <4>4, <4>5 DEF Instruction
    <3>2. Throw(t, Head(tasks[t].code).try, q, FALSE)
      BY <2>2, <2>7
    <3>3. GoesOn(t, q) \/ Dies(t, q) \/ Returns(t, q)
      <4> HIDE DEF q, t
      <4> QED
        BY <2>1, <2>4, <2>7, <3>1, <3>2, ThrowIs DEF t
    <3> QED
      BY <3>3 DEF Move, TaskMove
  <2> QED
    BY <2>5, <2>6, <2>7
<1>8. CASE Block
  <2>1. Still
    BY <1>1, <1>8 DEF Block, Go, Still, Around
  <2> QED
    BY <2>1 DEF Move
<1>9. CASE WaitCanceled
  <2>1. BreaksOff
    BY <1>1, <1>2, <1>9, <1>3 DEF WaitCanceled, Between, BreaksOff, Idle, Abort, Frozen
  <2> QED
    BY <2>1 DEF Move
<1>10. CASE Stuck
  <2>1. GetsStuck
    BY <1>2, <1>10 DEF Stuck, Between, GetsStuck, Idle, Abort
  <2> QED
    BY <2>1 DEF Move
<1>11. CASE Terminate
  <2>1. verdict = "none" /\ (Frozen => canceled)
    BY <1>11 DEF Terminate, Turns, FrozenWaits
  <2>2. BreaksOff
    BY <1>1, <1>2, <1>11, <1>3, <2>1 DEF Terminate, BreaksOff, Idle, Abort, Frozen
  <2> QED
    BY <2>2 DEF Move
<1> QED
  BY <1>4, <1>5, <1>6, <1>7, <1>8, <1>9, <1>10, <1>11

-----------------------------------------------------------------------------
(* The steps that are no moves of the VM.                                    *)

(* An evaluation begins.                                                     *)
Begins ==
    /\ phase = "live" /\ current \in 1..Len(tasks) /\ tasks[current].live
    /\ verdict = "none" /\ ~Evaluating
    /\ \E c \in Seq(Op) : tasks' = Append(tasks, NewTask(c, "root", 0))
    /\ paused' = [task |-> current, floor |-> Len(tasks) + 1, ready |-> ready]
    /\ ready' \in Seq(Event) /\ Contains(ready', Task(Len(tasks) + 1))
    /\ Moved(Task(current), {Task(Len(tasks) + 1)}, {Task(Len(tasks) + 1)})
    /\ current' = 0
    /\ UNCHANGED <<promises, hosts, syncWait, slots, verdict, running, channel, files, phase,
                   canceled, dropWaits, nextOp>>

(* It ends.                                                                  *)
Resumes ==
    /\ Evaluating /\ verdict \notin {"none", "broken"}
    /\ tasks' = Ended(paused.floor)
    /\ ready' \in Seq(Event)
    /\ \A e : Contains(paused.ready, e) => Contains(ready', e)
    /\ \A e : Contains(ready, e) /\ e # Task(paused.floor) => Contains(ready', e)
    /\ promises' \in Seq(PromiseRec) /\ Len(promises') = Len(promises)
    /\ \A p \in 1..Len(promises) :
          /\ promises'[p].state = promises[p].state /\ promises'[p].op = promises[p].op
          /\ promises[p].waiters = <<>> => promises'[p].waiters = <<>>
          /\ \A t : Contains(promises'[p].waiters, t)
                      <=> Contains(promises[p].waiters, t) /\ t # paused.floor
          /\ Single(promises'[p].waiters)
    /\ Moved(Task(paused.floor), {}, {})
    /\ syncWait' = IF syncWait.task = paused.floor THEN NoWait ELSE syncWait
    /\ current' = paused.task /\ paused' = NotPaused /\ verdict' = "none"
    /\ UNCHANGED <<hosts, slots, running, channel, files, phase, canceled, dropWaits, nextOp>>

(* A completion is taken.                                                    *)
Takes ==
    /\ phase = "live" /\ current = 0 /\ verdict = "none" /\ channel # <<>>
    /\ channel' = Tail(channel)
    /\ LET c == Head(channel) IN
       /\ hosts' = [p \in DOMAIN hosts \ {c.promise} |-> hosts[p]]
       /\ c.promise \in 1..Len(promises)
       /\ \E st \in {"ok", "err"} : Resolved(c.promise, st, ready)
       /\ Moved(Task(0), Woken(c.promise), Woken(c.promise))
       /\ files' = IF c.kind = "temp" /\ c.ok THEN [files EXCEPT !.kept = @ \cup {c.op}]
                   ELSE files
    /\ UNCHANGED <<tasks, current, syncWait, slots, paused, verdict, running, phase, canceled,
                   dropWaits, nextOp>>

(* The debugger asks.                                                        *)
LEMMA EvaluateBegins ==
    ASSUME Shape, Turns, Once, NEW b \in Eval, Evaluate(b),
           UNCHANGED <<running, channel, files, nextOp, phase, canceled, dropWaits>>
    PROVE  Begins
<1>1. Code[b] \in Seq(Op)
  BY CodeIs, VmAssumption
<1>2. Len(tasks) \in Nat /\ current \in 1..Len(tasks) /\ current # 0
  BY ShapeIs DEF Evaluate, Shape
<1>3. Task(Len(tasks) + 1) \in Event
  BY <1>2 DEF Task, Event
<1>4. ready' \in Seq(Event) /\ Contains(ready', Task(Len(tasks) + 1))
  BY <1>3, SingletonIs DEF Evaluate
<1>5. Moved(Task(current), {Task(Len(tasks) + 1)}, {Task(Len(tasks) + 1)})
  <2>1. PICK new : new = Task(Len(tasks) + 1)
    OBVIOUS
  <2>2. paused.ready = <<>> /\ ready \in Seq(Event) /\ new \in Event
    BY <1>3, <2>1 DEF Evaluate, Evaluating, NotPaused, Shape
  <2>3. Line = ready /\ Line' = ready \o <<new>>
    BY <2>1, <2>2, ConcatEmptySeq DEF Evaluate, Line
  <2>4. /\ <<new>> \in Seq(Event) /\ Single(<<new>>)
        /\ \A e : Contains(<<new>>, e) <=> e = new
    BY <2>2, FewOrder
  <2>5. /\ Single(ready) /\ ~Contains(ready, new) /\ ~Contains(ready, Task(current))
    BY <2>1, <2>3, LineIs, NotInLine
  <2>6. PICK x : x = ready \o <<new>>
    OBVIOUS
  <2>7. PICK one : one = <<new>>
    OBVIOUS
  <2>8. one \in Seq(Event) /\ Single(one) /\ \A e : Contains(one, e) <=> e = new
    BY <2>4, <2>7
  <2>9. /\ \A e : Contains(x, e) <=> Contains(ready, e) \/ Contains(one, e)
        /\ \A e, f : Before(ready, e, f) \/ Before(one, e, f)
                         \/ (Contains(ready, e) /\ Contains(one, f)) => Before(x, e, f)
        /\ Single(x) <=> /\ Single(ready) /\ Single(one)
                         /\ \A e : ~(Contains(ready, e) /\ Contains(one, e))
    BY <2>2, <2>6, <2>7, <2>8, ConcatOrder
  <2> QED
    BY <2>1, <2>3, <2>5, <2>6, <2>8, <2>9 DEF Moved
<1> QED
  BY <1>1, <1>2, <1>4, <1>5 DEF Evaluate, Begins, Turns

(* It has its answer, or there will be none.                                 *)
LEMMA EndEvaluationResumes ==
    ASSUME Shape, Turns, Once, Numbered, EndEvaluation,
           UNCHANGED <<running, channel, files, nextOp, phase, canceled, dropWaits>>
    PROVE  Resumes
<1> DEFINE root == paused.floor
<1>1. paused.ready \in Seq(Event) /\ ready \in Seq(Event)
  BY DEF Shape
<1>2. ready' = paused.ready \o Without(ready, {Task(root)})
  BY DEF EndEvaluation
<1>3. PICK r : r = Without(ready, {Task(root)})
  OBVIOUS
<1>4. /\ r \in Seq(Event) /\ Single(r)
      /\ \A e : Contains(r, e) <=> Contains(ready, e) /\ e # Task(root)
      /\ \A e, f : Before(ready, e, f) /\ e # Task(root) /\ f # Task(root) => Before(r, e, f)
  BY <1>1, <1>3, LineIs, RetainedOrder
<1>5. PICK P : P = paused.ready
  OBVIOUS
<1>6. PICK y : y = P \o r
  OBVIOUS
<1>7. /\ y \in Seq(Event)
      /\ \A e : Contains(y, e) <=> Contains(P, e) \/ Contains(r, e)
      /\ \A e, f : Before(P, e, f) \/ Before(r, e, f) \/ (Contains(P, e) /\ Contains(r, f))
                     => Before(y, e, f)
      /\ Single(y) <=> /\ Single(P) /\ Single(r)
                       /\ \A e : ~(Contains(P, e) /\ Contains(r, e))
  BY <1>1, <1>4, <1>5, <1>6, ConcatOrder
<1>8. y = ready'
  BY <1>2, <1>3, <1>5, <1>6
<1>9. /\ ready' = P \o r /\ ready' \in Seq(Event)
      /\ \A e : Contains(ready', e) <=> Contains(P, e) \/ Contains(r, e)
      /\ \A e, f : Before(P, e, f) \/ Before(r, e, f) \/ (Contains(P, e) /\ Contains(r, f))
                     => Before(ready', e, f)
      /\ Single(ready') <=> /\ Single(P) /\ Single(r)
                            /\ \A e : ~(Contains(P, e) /\ Contains(r, e))
  BY <1>6, <1>7, <1>8
<1>10. Line' = ready'
  <2>1. paused'.ready = <<>>
    BY DEF EndEvaluation, NotPaused
  <2> QED
    BY <1>9, <2>1, ConcatEmptySeq DEF Line
<1>11. Moved(Task(root), {}, {})
  <2>1. /\ \A e : Contains(Line, e) <=> Contains(P, e) \/ Contains(ready, e)
        /\ Single(P) /\ \A e : ~(Contains(P, e) /\ Contains(ready, e))
    BY <1>5, LineIs
  <2>2. \A e, f : Before(Line, e, f) =>
           Before(P, e, f) \/ Before(ready, e, f) \/ (Contains(P, e) /\ Contains(ready, f))
    BY <1>1, <1>5, ConcatOrder DEF Line
  <2>3. ~Contains(P, Task(root))
    BY <1>5 DEF EndEvaluation, Numbered, Task, Shape
  <2>4. Single(ready')
    BY <1>4, <1>9, <2>1
  <2>5. \A e : Contains(ready', e) <=> Contains(Line, e) /\ e # Task(root)
    BY <1>4, <1>9, <2>1, <2>3
  <2>6. \A e, f : Before(Line, e, f) /\ e # Task(root) /\ f # Task(root)
                     => Before(ready', e, f)
    BY <1>4, <1>9, <2>2
  <2> QED
    BY <1>10, <2>4, <2>5, <2>6 DEF Moved
<1>12. /\ \A e : Contains(paused.ready, e) => Contains(ready', e)
       /\ \A e : Contains(ready, e) /\ e # Task(root) => Contains(ready', e)
  BY <1>4, <1>5, <1>9
<1>13. promises' = [p \in 1..Len(promises) |->
                      [promises[p] EXCEPT !.waiters = Without(promises[p].waiters, {root})]]
  BY ShapeIs DEF EndEvaluation
<1>14. ASSUME NEW p \in 1..Len(promises)
       PROVE  /\ promises'[p] \in PromiseRec
              /\ promises'[p].state = promises[p].state /\ promises'[p].op = promises[p].op
              /\ promises[p].waiters = <<>> => promises'[p].waiters = <<>>
              /\ \A t : Contains(promises'[p].waiters, t)
                          <=> Contains(promises[p].waiters, t) /\ t # root
              /\ Single(promises'[p].waiters)
  <2> DEFINE ws == promises[p].waiters
             w == Without(ws, {root})
  <2>1. promises[p] \in PromiseRec /\ ws \in Seq(Nat) /\ Single(ws)
    BY PromiseIs DEF PromiseRec, Once
  <2>2. /\ w \in Seq(Nat) /\ Single(w)
        /\ \A t : Contains(w, t) <=> Contains(ws, t) /\ t # root
    BY <2>1, RetainedOrder
  <2>3. ws = <<>> => w = <<>>
    BY <2>1, WithoutEmpty
  <2>4. promises'[p] = [promises[p] EXCEPT !.waiters = w]
    BY <1>13
  <2> HIDE DEF w
  <2>5. /\ promises'[p] \in PromiseRec /\ promises'[p].waiters = w
        /\ promises'[p].state = promises[p].state /\ promises'[p].op = promises[p].op
    BY <2>1, <2>2, <2>4 DEF PromiseRec
  <2> QED
    BY <2>2, <2>3, <2>5
<1>15. promises' \in Seq(PromiseRec) /\ Len(promises') = Len(promises)
  <2>1. PICK n \in Nat : n = Len(promises)
    BY ShapeIs
  <2>2. promises' \in [1..n -> PromiseRec]
    BY <1>13, <1>14, <2>1
  <2>3. promises' \in Seq(PromiseRec) /\ Len(promises') = n
    BY <2>2, SeqDef
  <2> QED
    BY <2>1, <2>3
<1> QED
  BY <1>14, <1>15, <1>9, <1>11, <1>12 DEF EndEvaluation, Resumes

(* A completion is always one that is expected.                              *)
LEMMA AcceptTakes ==
    ASSUME Shape, Produced, Flights, Once, Accept,
           UNCHANGED <<nextOp, phase, canceled, dropWaits>>
    PROVE  Takes
<1> DEFINE c == Head(channel)
<1>1. channel # <<>> /\ channel \in Seq(Completion) /\ Len(channel) \in Nat \ {0}
      /\ c = channel[1]
  BY EmptySeq DEF Accept, Shape
<1>2. Expected(c) /\ Pending(c.promise) /\ c.promise \in 1..Len(promises)
  <2>1. Expected(channel[1])
    BY <1>1 DEF Flights
  <2> QED
    BY <1>1, <2>1 DEF Expected, Produced, Shape
<1>3. Resolve(c.promise, IF c.ok THEN "ok" ELSE "err", ready)
  BY <1>2 DEF Accept, Expected
<1>4. \E st \in {"ok", "err"} : Resolved(c.promise, st, ready)
  <2>1. (IF c.ok THEN "ok" ELSE "err") \in {"ok", "err"}
    OBVIOUS
  <2>2. Resolved(c.promise, IF c.ok THEN "ok" ELSE "err", ready)
    BY <1>2, <1>3, <2>1, ResolveIs DEF Shape
  <2> QED
    BY <2>1, <2>2
<1>5. Moved(Task(0), Woken(c.promise), Woken(c.promise))
  <2>1. Rest(Task(0), ready)
    BY NotInLine, RestIs
  <2>2. paused' = paused
    BY DEF Accept
  <2> QED
    BY <1>2, <1>3, <2>1, <2>2, ResolveMoves
<1> QED
  BY <1>1, <1>2, <1>4, <1>5 DEF Accept, Between, Takes, Expected, Go

(* What happens beside the VM.                                               *)
Beside == UNCHANGED <<vmVars, canceled, nextOp>>
Outside ==
    /\ Beside
    /\ \/ Thread /\ UNCHANGED <<phase, dropWaits>>
       \/ Drop
(* Whatever happens is one of the moves, or one of these.                    *)
LEMMA StepIs ==
    ASSUME IInv, [Next]_vars
    PROVE  Move \/ Begins \/ Resumes \/ Takes \/ Outside
<1> USE DEF IInv
<1>0. nextOp \in Nat
  BY DEF Shape
<1>1. CASE UNCHANGED vars
  <2>1. Still
    BY <1>1 DEF Still, vars, vmVars, outVars, Shape
  <2> QED
    BY <2>1 DEF Move
<1>2. ASSUME VmStep, UNCHANGED <<phase, canceled, dropWaits, evals>>
      PROVE  Move \/ Resumes \/ Takes
  <2>0. Quiet => nextOp' \in Nat /\ nextOp <= nextOp'
    BY <1>0 DEF Quiet
  <2>1. ASSUME \/ PopCanceled \/ PopError \/ PopTask \/ PopFrozen \/ Block \/ WaitCanceled
               \/ Stuck \/ Terminate,
               Quiet
        PROVE  Move
    <3>1. Around
      BY <1>2, <2>0, <2>1
      DEF Around, Quiet, outVars, PopCanceled, PopError, PopTask, PopFrozen, Block,
          WaitCanceled, Stuck, Terminate, Between
    <3> QED
      BY <2>1, <3>1, BetweenMoves DEF Quiet
  <2>2. ASSUME \/ Work \/ Raise \/ Enter \/ AwaitValue \/ AwaitPromise
               \/ HandleNotification,
               Quiet
        PROVE  Move
    <3>1. Around
      BY <1>2, <2>0, <2>2
      DEF Around, Quiet, outVars, Work, Raise, Enter, NestedReturns, AwaitValue,
          AwaitPromise, HandleNotification, Runs
    <3> QED
      BY <2>2, <3>1, PlainInstructions DEF Quiet
  <2>3. ASSUME Done, Quiet
        PROVE  Move
    <3>1. Around
      BY <1>2, <2>0, <2>3 DEF Around, Quiet, outVars, Done
    <3> QED
      BY <2>3, <3>1, DoneMoves
  <2>4. ASSUME EndEvaluation, Quiet
        PROVE  Resumes
    BY <1>2, <2>4, EndEvaluationResumes DEF Quiet, outVars
  <2>5. ASSUME StartAsync, UNCHANGED outVars, nextOp' = nextOp + 1
        PROVE  Move
    <3>1. phase = "live"
      BY <2>5 DEF StartAsync, Runs
    <3> QED
      BY <1>2, <2>5, <3>1, StartAsyncMoves DEF outVars
  <2>6. ASSUME Accept, UNCHANGED nextOp
        PROVE  Takes
    BY <1>2, <2>6, AcceptTakes
  <2>7. ASSUME HostCall \/ HostCallSettles \/ HostRefuses \/ SyncCall \/ Notify
        PROVE  Move
    <3>1. phase = "live"
      BY <2>7 DEF HostCall, HostCallSettles, HostRefuses, SyncCall, Notify, Runs
    <3>2. nextOp' = nextOp + 1
      BY <2>7 DEF HostCall, HostCallSettles, MadeSettled, HostRefuses, SyncCall, Notify, Start
    <3> QED
      BY <1>0, <1>2, <2>7, <3>1, <3>2, HostMoves
  <2> QED
    BY <1>2, <2>1, <2>2, <2>3, <2>4, <2>5, <2>6, <2>7 DEF VmStep
<1>3. ASSUME Leave, Quiet, UNCHANGED <<phase, canceled, dropWaits, evals>>
      PROVE  Move
  <2>1. Around
    BY <1>0, <1>3 DEF Around, Quiet, outVars, Leave, NestedReturns, Runs
  <2> QED
    BY <1>3, <2>1, PlainInstructions DEF Quiet
<1>4. ASSUME NEW b \in Eval, Evaluate(b), Quiet, UNCHANGED <<phase, canceled, dropWaits>>
      PROVE  Begins
  BY <1>4, EvaluateBegins DEF Quiet, outVars
<1>5. ASSUME Thread, UNCHANGED <<vmVars, phase, canceled, dropWaits, nextOp, evals>>
      PROVE  Outside
  BY <1>5 DEF Outside, Beside
<1>6. ASSUME Cancel, UNCHANGED <<vmVars, phase, outVars, dropWaits, nextOp, evals>>
      PROVE  Move
  <2>1. Still
    BY <1>6 DEF Still, Cancel, vmVars, outVars, Shape
  <2> QED
    BY <2>1 DEF Move
<1>7. ASSUME Drop, UNCHANGED <<vmVars, canceled, nextOp, evals>>
      PROVE  Outside
  BY <1>7 DEF Outside, Beside
<1> QED
  BY <1>1, <1>2, <1>4, <1>5, <1>6, <1>7, <1>3 DEF Next

-----------------------------------------------------------------------------
(* What a step does to the tasks.                                            *)

Same(t) == /\ tasks'[t].live = tasks[t].live /\ tasks'[t].ends = tasks[t].ends
           /\ tasks'[t].promise = tasks[t].promise
Only(who) == \A u \in 1..Len(tasks) : u # who => tasks'[u] = tasks[u]
SameCode == \A u \in 1..Len(tasks) : tasks[u].code \in Seq(Op) => tasks'[u].code \in Seq(Op)
AllSame == /\ tasks' \in Seq(TaskRec) /\ Len(tasks') = Len(tasks) /\ SameCode
           /\ \A u \in 1..Len(tasks) : Same(u)
OneEnds(t) ==
    /\ tasks' \in Seq(TaskRec) /\ Len(tasks') = Len(tasks) /\ SameCode
    /\ ~tasks'[t].live /\ tasks'[t].ends = tasks[t].ends
    /\ tasks'[t].promise = tasks[t].promise
    /\ \A u \in 1..Len(tasks) : u # t => Same(u)
OneMore(code, ends, p) ==
    /\ tasks' \in Seq(TaskRec) /\ Len(tasks') = Len(tasks) + 1 /\ SameCode
    /\ \A u \in 1..Len(tasks) : Same(u)
    /\ tasks'[Len(tasks) + 1] = NewTask(code, ends, p)

(* One task goes on.                                                         *)
LEMMA NextMoves ==
    ASSUME Shape, NEW t \in 1..Len(tasks), tasks[t].code # <<>>, tasks' = Next1(t)
    PROVE  AllSame /\ Only(t)
<1>1. /\ tasks \in Seq(TaskRec) /\ tasks[t] \in TaskRec
      /\ tasks' \in Seq(TaskRec) /\ Len(tasks') = Len(tasks)
      /\ tasks'[t] = [tasks[t] EXCEPT !.code = Tail(tasks[t].code)]
      /\ \A u \in 1..Len(tasks) : u # t => tasks'[u] = tasks[u]
  BY NextIs, ShapeIs DEF Shape
<1>2. Same(t) /\ tasks'[t].code = Tail(tasks[t].code)
  BY <1>1 DEF Same, TaskRec
<1>3. SameCode
  <2>1. tasks[t].code \in Seq(Op) => tasks'[t].code \in Seq(Op)
    BY <1>2, HeadTailProperties
  <2> QED
    BY <1>1, <2>1 DEF SameCode
<1> QED
  BY <1>1, <1>2, <1>3 DEF AllSame, Only, Same

(* One task ends.                                                            *)
LEMMA EndedMoves ==
    ASSUME Shape, NEW t \in 1..Len(tasks), tasks' = Ended(t)
    PROVE  OneEnds(t) /\ Only(t)
<1>1. /\ tasks \in Seq(TaskRec) /\ tasks[t] \in TaskRec
      /\ tasks' \in Seq(TaskRec) /\ Len(tasks') = Len(tasks)
      /\ tasks'[t] = [tasks[t] EXCEPT !.live = FALSE]
      /\ \A u \in 1..Len(tasks) : u # t => tasks'[u] = tasks[u]
  BY EndedIs, ShapeIs DEF Shape
<1>2. /\ ~tasks'[t].live /\ tasks'[t].ends = tasks[t].ends
      /\ tasks'[t].promise = tasks[t].promise /\ tasks'[t].code = tasks[t].code
  BY <1>1 DEF TaskRec
<1> QED
  BY <1>1, <1>2 DEF OneEnds, Only, Same, SameCode

(* One task goes on and starts another.                                      *)
LEMMA SpawnMoves ==
    ASSUME Shape, NEW t \in 1..Len(tasks), tasks[t].code # <<>>,
           NEW code \in Seq(Instruction), NEW p \in Nat,
           NEW ends \in {"root", "promise", "detached", "notification"},
           tasks' = Append(Next1(t), NewTask(code, ends, p))
    PROVE  OneMore(code, ends, p) /\ Only(t)
<1>1. /\ tasks \in Seq(TaskRec) /\ tasks[t] \in TaskRec /\ Len(tasks) \in Nat
      /\ Next1(t) \in Seq(TaskRec) /\ Len(Next1(t)) = Len(tasks)
      /\ Next1(t)[t] = [tasks[t] EXCEPT !.code = Tail(tasks[t].code)]
      /\ \A u \in 1..Len(tasks) : u # t => Next1(t)[u] = tasks[u]
  BY NextIs, ShapeIs DEF Shape
<1>2. NewTask(code, ends, p) \in TaskRec
  BY DEF NewTask, TaskRec
<1>3. /\ tasks' \in Seq(TaskRec) /\ Len(tasks') = Len(tasks) + 1
      /\ tasks'[Len(tasks) + 1] = NewTask(code, ends, p)
      /\ \A u \in 1..Len(tasks) : tasks'[u] = Next1(t)[u]
  BY <1>1, <1>2, AppendIs
<1>4. tasks'[t] = [tasks[t] EXCEPT !.code = Tail(tasks[t].code)]
  BY <1>1, <1>3
<1>5. Same(t) /\ tasks'[t].code = Tail(tasks[t].code)
  BY <1>1, <1>4 DEF Same, TaskRec
<1>6. Only(t)
  BY <1>1, <1>3 DEF Only
<1>7. SameCode
  <2>1. tasks[t].code \in Seq(Op) => tasks'[t].code \in Seq(Op)
    BY <1>5, HeadTailProperties
  <2> QED
    BY <1>6, <2>1 DEF SameCode, Only
<1> QED
  BY <1>3, <1>5, <1>6, <1>7 DEF OneMore, Only, Same

(* A task is added beside.                                                   *)
LEMMA RootMoves ==
    ASSUME Shape, NEW code \in Seq(Op), tasks' = Append(tasks, NewTask(code, "root", 0))
    PROVE  OneMore(code, "root", 0) /\ Only(0)
<1>1. NewTask(code, "root", 0) \in TaskRec
  <2>1. code \in Seq(Instruction)
    BY SeqMonotonic DEF Instruction
  <2> QED
    BY <2>1 DEF NewTask, TaskRec
<1> QED
  BY <1>1, AppendIs DEF Shape, OneMore, Only, Same, SameCode

-----------------------------------------------------------------------------
(* The shape of the state.                                                   *)

(* A promise of the host, and its operation.                                 *)
LEMMA AskedIs ==
    ASSUME Shape, Own, NEW ws \in Seq(Nat), Asked(ws) \/ Refused
    PROVE  /\ promises' \in Seq(PromiseRec) /\ Len(promises') = Len(promises) + 1
           /\ Len(promises) \in Nat
           /\ hosts' \in [DOMAIN hosts' -> Kind]
           /\ DOMAIN hosts' \subseteq 1..Len(promises')
           /\ running' \subseteq Operation
<1>1. <<>> \in Seq(Nat) /\ Len(promises) \in Nat
  BY EmptySeq, ShapeIs
<1>2. CASE Refused
  <2>1. promises' \in Seq(PromiseRec) /\ Len(promises') = Len(promises) + 1
    BY <1>1, <1>2, OneMorePromise DEF Refused
  <2> QED
    BY <1>1, <1>2, <2>1 DEF Refused, Shape
<1>3. CASE Asked(ws)
  <2>1. promises' \in Seq(PromiseRec) /\ Len(promises') = Len(promises) + 1
    BY <1>3, OneMorePromise DEF Asked
  <2>2. PICK kind \in Kind : Start(kind)
    BY <1>3 DEF Asked
  <2>3. /\ DOMAIN hosts' = DOMAIN hosts \cup {Fresh}
        /\ \A p \in DOMAIN hosts' : hosts'[p] = IF p = Fresh THEN kind ELSE hosts[p]
        /\ hosts' = [p \in DOMAIN hosts' |-> hosts'[p]]
    BY <2>2 DEF Start
  <2>4. hosts' \in [DOMAIN hosts' -> Kind]
    BY <2>3 DEF Shape
  <2>5. DOMAIN hosts' \subseteq 1..Len(promises')
    BY <1>1, <2>1, <2>3 DEF Shape, Fresh
  <2>6. running' \subseteq Operation
    <3> DEFINE o == [op |-> nextOp, promise |-> Fresh, kind |-> kind, at |-> "thread",
                     canceled |-> FALSE]
    <3>1. running' = running \cup {o}
      BY <2>2 DEF Start
    <3>2. o \in Operation
      BY <1>1 DEF Operation, Shape, Fresh
    <3> HIDE DEF o
    <3> QED
      BY <3>1, <3>2 DEF Shape
  <2> QED
    BY <1>1, <2>1, <2>4, <2>5, <2>6
<1> QED
  BY <1>2, <1>3

(* The types of the state, and the programs of the tasks, are kept.          *)
LEMMA ShapeStep ==
    ASSUME IInv, [Next]_vars
    PROVE  Shape' /\ Programs'
<1>0. /\ Shape /\ Programs
      /\ Len(tasks) \in Nat /\ Len(promises) \in Nat /\ ready \in Seq(Event)
      /\ tasks \in Seq(TaskRec) /\ promises \in Seq(PromiseRec)
      /\ \A t \in 1..Len(tasks) : tasks[t] \in TaskRec
  BY ShapeIs DEF IInv, Shape
<1>1. ASSUME AllSame \/ (\E t \in 1..Len(tasks) : OneEnds(t)) \/ tasks' = tasks,
             Len(promises') \in Nat, Len(promises') >= Len(promises)
      PROVE  Programs'
  <2>1. /\ Len(tasks') = Len(tasks)
        /\ \A t \in 1..Len(tasks) :
              /\ tasks'[t].ends = tasks[t].ends /\ tasks'[t].promise = tasks[t].promise
              /\ tasks[t].code \in Seq(Op) => tasks'[t].code \in Seq(Op)
    BY <1>1 DEF AllSame, OneEnds, Same, SameCode
  <2> QED
    BY <1>0, <1>1, <2>1 DEF Programs
<1>2. ASSUME NEW code, NEW p, NEW ends, OneMore(code, ends, p),
             Len(promises') \in Nat, Len(promises') >= Len(promises),
             IF ends = "notification" THEN p \in 1..Len(promises') ELSE code \in Seq(Op)
      PROVE  Programs'
  <2>1. /\ Len(tasks') = Len(tasks) + 1
        /\ \A t \in 1..Len(tasks) :
              /\ tasks'[t].ends = tasks[t].ends /\ tasks'[t].promise = tasks[t].promise
              /\ tasks[t].code \in Seq(Op) => tasks'[t].code \in Seq(Op)
        /\ tasks'[Len(tasks) + 1].ends = ends /\ tasks'[Len(tasks) + 1].promise = p
        /\ tasks'[Len(tasks) + 1].code = code
    BY <1>2 DEF OneMore, Same, SameCode, NewTask
  <2>2. ASSUME NEW t \in 1..Len(tasks')
        PROVE  IF tasks'[t].ends = "notification" THEN tasks'[t].promise \in 1..Len(promises')
                                                 ELSE tasks'[t].code \in Seq(Op)
    <3>1. CASE t \in 1..Len(tasks)
      BY <1>0, <1>2, <2>1, <3>1 DEF Programs
    <3>2. CASE t = Len(tasks) + 1
      BY <1>2, <2>1, <3>2
    <3> QED
      BY <1>0, <2>1, <3>1, <3>2
  <2> QED
    BY <2>2 DEF Programs
<1>3. ASSUME TaskMove PROVE Shape' /\ Programs'
  <2>1. PICK t, q : GoesOn(t, q) \/ Dies(t, q) \/ Returns(t, q)
    BY <1>3 DEF TaskMove
  <2>2. /\ t \in 1..Len(tasks) /\ q \in Seq(Event) /\ Home
        /\ syncWait' = syncWait \/ syncWait' = NoWait
    BY <2>1 DEF GoesOn, Dies, Returns, Acts
  <2>3. AllSame \/ OneEnds(t)
    BY <1>0, <2>1, <2>2, NextMoves, EndedMoves DEF GoesOn, Dies, Returns
  <2>4. tasks' \in Seq(TaskRec) /\ Len(tasks') = Len(tasks)
    BY <2>3 DEF AllSame, OneEnds
  <2>5. /\ promises' \in Seq(PromiseRec) /\ Len(promises') = Len(promises)
        /\ ready' \in Seq(Event)
    BY <1>0, <2>1, <2>2 DEF GoesOn, Dies, Returns, Resolved, Holds
  <2>6. current' \in 0..Len(tasks)
    BY <1>0, <2>1, <2>2 DEF GoesOn, Dies, Returns, Left
  <2>7. Shape'
    BY <1>0, <2>2, <2>4, <2>5, <2>6, SMTT(30) DEF Shape, Home, Own, NoWait
  <2> QED
    BY <1>0, <1>1, <2>2, <2>3, <2>5, <2>7
<1>4. ASSUME Yields PROVE Shape' /\ Programs'
  <2>1. AllSame
    BY <1>0, <1>4, NextMoves DEF Yields, Steps
  <2>2. Shape'
    BY <1>0, <1>4, <2>1 DEF Shape, Yields, Home, Own, AllSame, Left, Holds
  <2> QED
    BY <1>0, <1>1, <1>4, <2>1, <2>2 DEF Yields
<1>5. ASSUME Suspends PROVE Shape' /\ Programs'
  <2>1. promises' \in Seq(PromiseRec) /\ Len(promises') = Len(promises) /\ tasks' = tasks
    BY <1>5 DEF Suspends
  <2>2. Shape'
    BY <1>0, <1>5, <2>1 DEF Shape, Suspends, Home, Own, Left
  <2> QED
    BY <1>0, <1>1, <2>1, <2>2
<1>6. ASSUME Calls PROVE Shape' /\ Programs'
  <2>1. PICK c \in Seq(Op) :
          \/ /\ tasks' = Append(Next1(current), NewTask(c, "promise", Fresh))
             /\ promises' = Append(promises, NewPromise("pending", <<>>))
          \/ /\ tasks' = Append(Next1(current), NewTask(c, "detached", 0))
             /\ promises' = promises
    BY <1>6 DEF Calls
  <2>2. c \in Seq(Instruction) /\ Fresh \in Nat /\ <<>> \in Seq(Nat)
    BY <1>0, SeqMonotonic, EmptySeq DEF Instruction, Fresh
  <2>3. OneMore(c, "promise", Fresh) \/ OneMore(c, "detached", 0)
    BY <1>0, <1>6, <2>1, <2>2, SpawnMoves DEF Calls, Steps
  <2>4. promises' \in Seq(PromiseRec) /\ Len(promises') \in {Len(promises), Len(promises) + 1}
    BY <1>0, <2>1, <2>2, OneMorePromise
  <2>5. tasks' \in Seq(TaskRec) /\ Len(tasks') = Len(tasks) + 1
    BY <2>3 DEF OneMore
  <2>6. DOMAIN hosts' \subseteq 1..Len(promises')
    BY <1>0, <1>6, <2>4, SMTT(30) DEF Calls, Home, Shape
  <2>7. Shape'
    <3>1. /\ UNCHANGED <<paused, channel, phase, canceled, hosts, running, syncWait>>
          /\ slots' \in [Slot -> 0..Len(promises')] /\ nextOp' \in Nat
          /\ current' = 0 /\ ready' \in Seq(Event)
      BY <1>6 DEF Calls, Home, Own, Left, Holds
    <3>2. current' \in 0..Len(tasks')
      BY <1>0, <2>5, <3>1
    <3> QED
      BY <1>0, <2>4, <2>5, <2>6, <3>1, <3>2 DEF Shape
  <2>8. Programs'
    BY <1>0, <1>2, <2>3, <2>4
  <2> QED
    BY <2>7, <2>8
<1>7. ASSUME Sends \/ Notifies \/ Freezes PROVE Shape' /\ Programs'
  <2>1. /\ Own /\ Steps /\ (Asked(<<>>) \/ Asked(<<current>>) \/ Refused)
        /\ current \in 1..Len(tasks) /\ <<>> \in Seq(Nat) /\ <<current>> \in Seq(Nat)
        /\ Fresh \in Nat
    BY <1>0, <1>7, EmptySeq, SingletonIs DEF Sends, Notifies, Freezes, Steps, Fresh
  <2>2. /\ promises' \in Seq(PromiseRec) /\ Len(promises') = Len(promises) + 1
        /\ hosts' \in [DOMAIN hosts' -> Kind] /\ DOMAIN hosts' \subseteq 1..Len(promises')
        /\ running' \subseteq Operation
    <3>1. CASE Asked(<<>>) \/ Refused
      BY <1>0, <2>1, <3>1, AskedIs
    <3>2. CASE Asked(<<current>>)
      BY <1>0, <2>1, <3>2, AskedIs
    <3> QED
      BY <2>1, <3>1, <3>2
  <2>3. /\ tasks' \in Seq(TaskRec) /\ Len(tasks') \in {Len(tasks), Len(tasks) + 1}
        /\ Programs'
    <3>1. CASE Sends
      <4>1. AllSame
        BY <1>0, <2>1, <3>1, NextMoves DEF Sends, Steps
      <4> QED
        BY <1>0, <1>1, <2>2, <4>1 DEF AllSame
    <3>2. CASE Notifies
      <4>1. PICK c \in Seq(Instruction) :
               tasks' = Append(Next1(current), NewTask(c, "notification", Fresh))
        BY <3>2 DEF Notifies
      <4>2. OneMore(c, "notification", Fresh)
        <5>1. tasks[current].code # <<>>
          BY <2>1 DEF Steps
        <5> QED
          BY <1>0, <2>1, <4>1, <5>1, SpawnMoves
      <4>3. Fresh \in 1..Len(promises')
        BY <1>0, <2>2 DEF Fresh
      <4> QED
        BY <1>0, <1>2, <2>2, <4>2, <4>3 DEF OneMore
    <3>3. CASE Freezes
      BY <1>0, <1>1, <2>2, <3>3 DEF Freezes
    <3> QED
      BY <1>7, <3>1, <3>2, <3>3
  <2>4. current' \in 0..Len(tasks) /\ ready' \in Seq(Event)
    BY <1>0, <1>7, <2>1 DEF Sends, Notifies, Freezes, Stays, Left, Holds
  <2>5. syncWait' \in [task : Nat, promise : Nat]
    BY <1>0, <1>7, <2>1 DEF Sends, Notifies, Freezes, Shape
  <2>6. Shape'
    <3>1. /\ UNCHANGED <<paused, channel, phase, canceled>>
          /\ slots' \in [Slot -> 0..Len(promises')] /\ nextOp' \in Nat
      BY <2>1 DEF Own
    <3>2. current' \in 0..Len(tasks')
      BY <1>0, <2>3, <2>4
    <3>3. paused' \in [task : Nat, floor : Nat, ready : Seq(Event)] /\ channel' \in Seq(Completion)
          /\ canceled' \in BOOLEAN /\ phase' \in {"live", "dropping", "gone"}
      BY <1>0, <3>1 DEF Shape
    <3> QED
      BY <2>2, <2>3, <2>4, <2>5, <3>1, <3>2, <3>3 DEF Shape
  <2> QED
    BY <2>3, <2>6
<1>8. ASSUME BreaksOff \/ TakesError \/ GetsStuck \/ Still \/ \E t : TakesTask(t)
      PROVE  Shape' /\ Programs'
  <2>1. UNCHANGED <<tasks, promises>> /\ ready' \in Seq(Event)
    BY <1>0, <1>8 DEF BreaksOff, TakesError, GetsStuck, Still, TakesTask, Idle
  <2>2. current' \in 0..Len(tasks)
    BY <1>0, <1>8 DEF BreaksOff, TakesError, GetsStuck, Still, TakesTask, Idle, Shape
  <2>3. syncWait' \in [task : Nat, promise : Nat]
    BY <1>0, <1>8 DEF BreaksOff, TakesError, GetsStuck, Still, TakesTask, Shape, NoWait
  <2>4. Shape'
    <3>1. CASE Still
      BY <1>0, <3>1 DEF Still, Shape
    <3>2. CASE Home
      BY <1>0, <2>1, <2>2, <2>3, <3>2 DEF Shape, Home, Own
    <3> QED
      BY <1>8, <3>1, <3>2 DEF BreaksOff, TakesError, GetsStuck, TakesTask, Idle
  <2> QED
    BY <1>0, <1>1, <2>1, <2>4
<1>9. ASSUME Begins PROVE Shape' /\ Programs'
  <2>1. PICK c \in Seq(Op) : tasks' = Append(tasks, NewTask(c, "root", 0))
    BY <1>9 DEF Begins
  <2>2. OneMore(c, "root", 0)
    BY <1>0, <2>1, RootMoves
  <2>3. promises' = promises /\ tasks' \in Seq(TaskRec) /\ Len(tasks') = Len(tasks) + 1
    BY <1>9, <2>2 DEF Begins, OneMore
  <2>4. Shape'
    BY <1>0, <1>9, <2>3, SMTT(30) DEF Shape, Begins
  <2> QED
    BY <1>0, <1>2, <2>2, <2>3, <2>4
<1>10. ASSUME Resumes PROVE Shape' /\ Programs'
  <2>1. paused.floor \in 1..Len(tasks) /\ paused.task \in 1..Len(tasks)
    BY <1>10 DEF IInv, Turns, Resumes
  <2>2. OneEnds(paused.floor)
    BY <1>0, <1>10, <2>1, EndedMoves DEF Resumes
  <2>3. NotPaused \in [task : Nat, floor : Nat, ready : Seq(Event)]
    BY EmptySeq DEF NotPaused
  <2>4. Shape'
    BY <1>0, <1>10, <2>1, <2>2, <2>3 DEF Shape, Resumes, OneEnds, NoWait
  <2> QED
    BY <1>0, <1>1, <1>10, <2>1, <2>2, <2>4 DEF Resumes
<1>11. ASSUME Takes PROVE Shape' /\ Programs'
  <2>1. PICK st \in {"ok", "err"} : Resolved(Head(channel).promise, st, ready)
    BY <1>11 DEF Takes
  <2>2. channel' \in Seq(Completion)
    BY <1>0, <1>11, HeadTailProperties DEF Takes, Shape
  <2>3. hosts' \in [DOMAIN hosts' -> Kind] /\ DOMAIN hosts' \subseteq DOMAIN hosts
    BY <1>0, <1>11 DEF Takes, Shape
  <2>4. Shape'
    BY <1>0, <1>11, <2>1, <2>2, <2>3 DEF Shape, Takes, Resolved
  <2> QED
    BY <1>0, <1>1, <1>11, <2>1, <2>4 DEF Takes, Resolved
<1>12. ASSUME Outside PROVE Shape' /\ Programs'
  <2>1. UNCHANGED <<vmVars, canceled, nextOp>>
    BY <1>12 DEF Outside, Beside
  <2>2. Programs'
    BY <1>0, <1>1, <2>1 DEF vmVars
  <2>3. CASE Thread /\ UNCHANGED <<phase, dropWaits>>
    <3>1. PICK o \in running : EnterHost(o) \/ Complete(o)
      BY <2>3 DEF Thread
    <3>2. o \in Operation
      BY <1>0 DEF Shape
    <3>3. CASE EnterHost(o)
      <4>1. [o EXCEPT !.at = "inside"] \in Operation
        BY <3>2 DEF Operation
      <4> QED
        BY <1>0, <2>1, <2>2, <2>3, <3>3, <4>1 DEF EnterHost, Shape, vmVars
    <3>4. CASE Complete(o)
      <4>1. PICK ok \in BOOLEAN :
               channel' = Append(channel, [op |-> o.op, promise |-> o.promise,
                                           kind |-> o.kind, ok |-> ok])
        BY <3>4 DEF Complete
      <4>2. channel' \in Seq(Completion)
        <5>1. [op |-> o.op, promise |-> o.promise, kind |-> o.kind, ok |-> ok] \in Completion
          BY <3>2 DEF Operation, Completion
        <5> QED
          BY <1>0, <4>1, <5>1, AppendIs DEF Shape
      <4>3. running' \subseteq running
        BY <3>4 DEF Complete
      <4> QED
        BY <1>0, <2>1, <2>2, <2>3, <4>2, <4>3 DEF Shape, vmVars
    <3> QED
      BY <3>1, <3>3, <3>4
  <2>4. CASE Drop
    <3>1. CASE DropBegins
      <4>1. running' \subseteq Operation
        <5>1. \A o \in running : o \in Operation /\ [o EXCEPT !.canceled = TRUE] \in Operation
          BY <1>0 DEF Shape, Operation
        <5> QED
          BY <3>1, <5>1 DEF DropBegins
      <4> QED
        BY <1>0, <2>1, <2>2, <3>1, <4>1 DEF DropBegins, Shape, vmVars
    <3>2. CASE DropReceives
      <4>1. channel' \in Seq(Completion)
        BY <1>0, <3>2, HeadTailProperties DEF DropReceives, Shape
      <4> QED
        BY <1>0, <2>1, <2>2, <3>2, <4>1 DEF DropReceives, Shape, vmVars
    <3>3. CASE DropEnds
      BY <1>0, <2>1, <2>2, <3>3 DEF DropEnds, Shape, vmVars
    <3> QED
      BY <2>4, <3>1, <3>2, <3>3 DEF Drop
  <2> QED
    BY <1>12, <2>3, <2>4 DEF Outside
<1> QED
  BY <1>3, <1>4, <1>5, <1>6, <1>7, <1>8, <1>9, <1>10, <1>11, <1>12, StepIs DEF Move

-----------------------------------------------------------------------------
(* Who runs.                                                                 *)

(* What each step does to the tasks, by the kind of the step.                *)
LEMMA TasksMove ==
    ASSUME Shape
    PROVE  /\ \A t, q : GoesOn(t, q) => AllSame /\ Only(t)
           /\ \A t, q : Dies(t, q) \/ Returns(t, q) => OneEnds(t) /\ Only(t)
           /\ Yields \/ Sends => AllSame /\ Only(current)
           /\ Calls => \E c \in Seq(Op) :
                 /\ OneMore(c, "promise", Fresh) \/ OneMore(c, "detached", 0)
                 /\ Only(current)
           /\ Notifies => \E c \in Seq(Instruction) :
                 OneMore(c, "notification", Fresh) /\ Only(current)
           /\ Begins => \E c \in Seq(Op) : OneMore(c, "root", 0) /\ Only(0)
           /\ Resumes /\ Turns => OneEnds(paused.floor) /\ Only(paused.floor)
<1>0. Len(tasks) \in Nat /\ Len(promises) \in Nat /\ Fresh \in Nat
  BY ShapeIs DEF Fresh
<1>1. ASSUME NEW t, NEW q, GoesOn(t, q) PROVE AllSame /\ Only(t)
  BY <1>1, NextMoves DEF GoesOn, Acts
<1>2. ASSUME NEW t, NEW q, Dies(t, q) \/ Returns(t, q) PROVE OneEnds(t) /\ Only(t)
  BY <1>2, EndedMoves DEF Dies, Returns, Acts
<1>3. ASSUME Yields \/ Sends PROVE AllSame /\ Only(current)
  BY <1>3, NextMoves DEF Yields, Sends, Steps
<1>4. ASSUME Calls
      PROVE  \E c \in Seq(Op) : /\ OneMore(c, "promise", Fresh) \/ OneMore(c, "detached", 0)
                                /\ Only(current)
  <2>1. current \in 1..Len(tasks) /\ tasks[current].code # <<>>
    BY <1>4 DEF Calls, Steps
  <2>2. PICK c \in Seq(Op) : \/ tasks' = Append(Next1(current), NewTask(c, "promise", Fresh))
                             \/ tasks' = Append(Next1(current), NewTask(c, "detached", 0))
    BY <1>4 DEF Calls
  <2>3. c \in Seq(Instruction)
    BY SeqMonotonic DEF Instruction
  <2> QED
    BY <1>0, <2>1, <2>2, <2>3, SpawnMoves
<1>5. ASSUME Notifies
      PROVE  \E c \in Seq(Instruction) : OneMore(c, "notification", Fresh) /\ Only(current)
  <2>1. current \in 1..Len(tasks) /\ tasks[current].code # <<>>
    BY <1>5 DEF Notifies, Steps
  <2>2. PICK c \in Seq(Instruction) :
           tasks' = Append(Next1(current), NewTask(c, "notification", Fresh))
    BY <1>5 DEF Notifies
  <2> QED
    BY <1>0, <2>1, <2>2, SpawnMoves
<1>6. ASSUME Begins PROVE \E c \in Seq(Op) : OneMore(c, "root", 0) /\ Only(0)
  BY <1>6, RootMoves DEF Begins
<1>7. ASSUME Resumes, Turns PROVE OneEnds(paused.floor) /\ Only(paused.floor)
  BY <1>7, EndedMoves DEF Resumes, Turns
<1> QED
  BY <1>1, <1>2, <1>3, <1>4, <1>5, <1>6, <1>7

(* Tasks are only added, keep their kind and their promise, and only those   *)
(* of the evaluation change while there is one.                              *)
Alone == Evaluating => \A t \in 1..Len(tasks) : t < paused.floor => tasks'[t] = tasks[t]
Kinds ==
    /\ Len(tasks) \in Nat /\ Len(tasks') \in {Len(tasks), Len(tasks) + 1}
    /\ \A t \in 1..Len(tasks) : /\ tasks'[t].ends = tasks[t].ends
                                /\ tasks'[t].promise = tasks[t].promise
(* So it is with every step.                                                 *)
LEMMA TasksStep ==
    ASSUME IInv, [Next]_vars
    PROVE  Alone /\ Kinds
<1>0. /\ Shape /\ Turns /\ FrozenWaits /\ Len(tasks) \in Nat /\ paused.floor \in Nat
      /\ current \in 0..Len(tasks)
  BY ShapeIs DEF IInv, Shape
<1>1. ASSUME NEW t \in 0..Len(tasks), Evaluating => t >= paused.floor \/ t = 0, Only(t)
      PROVE  Alone
  BY <1>0, <1>1 DEF Alone, Only, Turns
<1>2. Evaluating => current >= paused.floor \/ current = 0
  BY <1>0 DEF Turns
<1>3. ASSUME AllSame \/ (\E t \in 1..Len(tasks) : OneEnds(t)) \/ tasks' = tasks
             \/ \E c, e, p : OneMore(c, e, p)
      PROVE  Kinds
  BY <1>0, <1>3 DEF AllSame, OneEnds, OneMore, Same, Kinds
<1>4. ASSUME TaskMove PROVE Alone /\ Kinds
  <2>1. PICK t, q : GoesOn(t, q) \/ Dies(t, q) \/ Returns(t, q)
    BY <1>4 DEF TaskMove
  <2>2. Acts(t, q) /\ Only(t) /\ (AllSame \/ OneEnds(t))
    BY <1>0, <2>1, TasksMove DEF GoesOn, Dies, Returns
  <2>3. t \in 1..Len(tasks) /\ (Evaluating => t >= paused.floor)
    BY <1>0, <1>2, <2>2 DEF Acts, FrozenWaits
  <2> QED
    BY <1>0, <1>1, <1>3, <2>2, <2>3
<1>5. ASSUME Yields \/ Sends \/ Calls \/ Notifies PROVE Alone /\ Kinds
  BY <1>0, <1>1, <1>2, <1>3, <1>5, TasksMove
<1>6. ASSUME Begins PROVE Alone /\ Kinds
  BY <1>0, <1>3, <1>6, TasksMove DEF Alone, Begins
<1>7. ASSUME Resumes PROVE Alone /\ Kinds
  <2>1. OneEnds(paused.floor) /\ Only(paused.floor) /\ paused.floor \in 1..Len(tasks)
    BY <1>0, <1>7, TasksMove DEF Resumes, Turns
  <2> QED
    BY <1>0, <1>1, <1>3, <2>1
<1>8. ASSUME tasks' = tasks PROVE Alone /\ Kinds
  BY <1>3, <1>8 DEF Alone
<1> QED
  <2>1. \/ TaskMove \/ Yields \/ Sends \/ Calls \/ Notifies \/ Begins \/ Resumes
        \/ tasks' = tasks
    BY StepIs
    DEF Move, Suspends, Freezes, BreaksOff, TakesError, TakesTask, GetsStuck, Still, Takes,
        Outside, Beside, vmVars, Idle
  <2> QED
    BY <1>4, <1>5, <1>6, <1>7, <1>8, <2>1

(* Turns are kept.                                                           *)
LEMMA TurnsStep ==
    ASSUME IInv, [Next]_vars
    PROVE  Turns'
<1>0. /\ Shape /\ Turns /\ FrozenWaits /\ Len(tasks) \in Nat /\ paused.floor \in Nat
      /\ paused.task \in Nat /\ current \in 0..Len(tasks) /\ Alone /\ Kinds
  BY ShapeIs, TasksStep DEF IInv, Shape
(* Without a change of the evaluation, what concerns it stays.               *)
<1>1. ASSUME paused' = paused, phase' = phase,
             \/ current' = 0
             \/ current' \in 1..Len(tasks') /\ (Evaluating => current' >= paused.floor),
             current' # 0 => tasks'[current'].live /\ verdict' = "none",
             verdict' = "canceled" => canceled',
             verdict' = "terminated" => ~Evaluating
      PROVE  Turns'
  <2>1. Evaluating' <=> Evaluating
    BY <1>1 DEF Evaluating
  <2>2. ASSUME Evaluating
        PROVE  /\ phase' = "live" /\ paused.task \in 1..Len(tasks')
               /\ paused.floor \in 1..Len(tasks') /\ tasks'[paused.task].live
               /\ tasks'[paused.floor].ends = "root" /\ paused.task < paused.floor
               /\ current' # 0 => current' >= paused.floor
    BY <1>0, <1>1, <2>2 DEF Turns, Alone, Kinds
  <2> QED
    BY <1>1, <2>1, <2>2 DEF Turns
<1>2. ASSUME TaskMove PROVE Turns'
  <2>1. PICK t, q : GoesOn(t, q) \/ Dies(t, q) \/ Returns(t, q)
    BY <1>2 DEF TaskMove
  <2>2. Acts(t, q) /\ Home
    BY <2>1 DEF GoesOn, Dies, Returns
  <2>3. t \in 1..Len(tasks) /\ (Evaluating => t >= paused.floor)
    BY <1>0, <2>2 DEF Acts, FrozenWaits, Turns
  <2>4. CASE GoesOn(t, q)
    <3>1. tasks'[t].live /\ current' = t /\ verdict' = "none" /\ t \in 1..Len(tasks')
      BY <1>0, <2>3, <2>4, TasksMove DEF GoesOn, Acts, AllSame, Same
    <3> QED
      BY <1>1, <2>2, <2>3, <3>1 DEF Home, Own
  <2>5. CASE current' = 0 /\ verdict' \in {"none", "complete", "failed"}
    BY <1>1, <2>2, <2>5 DEF Home, Own
  <2> QED
    BY <2>1, <2>4, <2>5 DEF Dies, Returns, Left
<1>3. ASSUME Yields \/ Suspends \/ Calls \/ Freezes PROVE Turns'
  BY <1>1, <1>3 DEF Yields, Suspends, Calls, Freezes, Home, Own, Left, Steps
<1>4. ASSUME Sends \/ Notifies PROVE Turns'
  <2>1. /\ current' = current /\ verdict' = "none" /\ current \in 1..Len(tasks)
        /\ tasks[current].live /\ Own
    BY <1>4 DEF Sends, Notifies, Stays, Steps
  <2>2. Same(current)
    BY <1>0, <1>4, <2>1, TasksMove DEF AllSame, OneMore
  <2>3. current \in 1..Len(tasks') /\ tasks'[current].live
    BY <1>0, <2>1, <2>2 DEF Kinds, Same
  <2>4. Evaluating => current >= paused.floor
    BY <1>0, <2>1 DEF Turns
  <2> QED
    BY <1>1, <2>1, <2>3, <2>4 DEF Own
<1>5. ASSUME BreaksOff \/ TakesError \/ GetsStuck PROVE Turns'
  BY <1>1, <1>5 DEF BreaksOff, TakesError, GetsStuck, Idle, Home, Own
<1>6. ASSUME NEW t, TakesTask(t) PROVE Turns'
  BY <1>1, <1>6 DEF TakesTask, Home, Own
<1>7. ASSUME Still PROVE Turns'
  BY <1>0, <1>7 DEF Still, Turns, Evaluating
<1>8. ASSUME Begins PROVE Turns'
  <2>1. /\ current \in 1..Len(tasks) /\ tasks[current].live /\ current' = 0
        /\ phase' = "live" /\ verdict' = "none"
        /\ paused' = [task |-> current, floor |-> Len(tasks) + 1, ready |-> ready]
    BY <1>8 DEF Begins
  <2>2. PICK c \in Seq(Op) : OneMore(c, "root", 0)
    BY <1>0, <1>8, TasksMove
  <2>3. /\ Len(tasks') = Len(tasks) + 1 /\ tasks'[current].live
        /\ tasks'[Len(tasks) + 1].ends = "root"
    BY <2>1, <2>2 DEF OneMore, Same, NewTask
  <2> QED
    BY <1>0, <2>1, <2>3 DEF Turns
<1>9. ASSUME Resumes PROVE Turns'
  <2>1. /\ current' = paused.task /\ verdict' = "none" /\ paused' = NotPaused
        /\ tasks'[paused.task].live
    BY <1>0, <1>9 DEF Resumes, Turns, Alone
  <2> QED
    BY <2>1 DEF Turns, Evaluating
<1>10. ASSUME Takes PROVE Turns'
  BY <1>0, <1>10 DEF Takes, Turns, Evaluating
<1>11. ASSUME Outside PROVE Turns'
  <2>1. UNCHANGED <<tasks, current, paused, verdict, canceled>>
    BY <1>11 DEF Outside, Beside, vmVars
  <2>2. Evaluating => phase' = phase
    BY <1>0, <1>11 DEF Outside, Drop, DropBegins, DropReceives, DropEnds, Turns
  <2> QED
    BY <1>0, <2>1, <2>2 DEF Turns, Evaluating
<1> QED
  BY <1>2, <1>3, <1>4, <1>5, <1>6, <1>7, <1>8, <1>9, <1>10, <1>11, StepIs DEF Move

(* The task of a frozen call has its answer coming.                          *)
LEMMA FrozenStep ==
    ASSUME IInv, [Next]_vars
    PROVE  FrozenWaits'
<1>0. /\ Shape /\ Turns /\ FrozenWaits /\ Len(tasks) \in Nat /\ paused.floor \in Nat
      /\ Len(promises) \in Nat /\ current \in 0..Len(tasks) /\ Kinds
  BY ShapeIs, TasksStep DEF IInv, Shape
<1> SUFFICES ASSUME Frozen', ~canceled'
             PROVE  FrozenWaits'
  BY DEF FrozenWaits
<1>1. canceled \in BOOLEAN /\ (canceled => canceled')
  BY <1>0, StepIs DEF Shape, Move, TaskMove, GoesOn, Dies, Returns, Yields, Suspends, Calls, Sends,
        Notifies, Freezes, BreaksOff, TakesError, TakesTask, GetsStuck, Still, Idle, Home, Own,
        Begins, Resumes, Takes, Outside, Beside
<1>2. ~canceled
  BY <1>1
(* While a task runs, nobody is frozen.                                      *)
<1>3. ASSUME current # 0, syncWait' = syncWait PROVE FALSE
  BY <1>0, <1>2, <1>3 DEF FrozenWaits, Frozen
<1>4. ASSUME TaskMove PROVE FALSE
  <2>1. PICK t, q : Acts(t, q)
    BY <1>4 DEF TaskMove, GoesOn, Dies, Returns
  <2>2. CASE current # 0 /\ syncWait' = syncWait
    BY <1>3, <2>2
  <2>3. CASE syncWait' = NoWait
    BY <2>3 DEF Frozen
  <2> QED
    BY <2>1, <2>2, <2>3 DEF Acts
<1>5. ASSUME Yields \/ Suspends \/ Calls \/ Sends \/ Notifies \/ Begins PROVE FALSE
  <2>1. current # 0 /\ syncWait' = syncWait
    BY <1>0, <1>5 DEF Yields, Suspends, Calls, Sends, Notifies, Begins, Steps
  <2> QED
    BY <1>3, <2>1
<1>6. ASSUME Freezes PROVE FrozenWaits'
  <2>1. /\ current \in 1..Len(tasks) /\ tasks[current].code # <<>> /\ tasks' = tasks
        /\ current' = 0 /\ verdict' = "none" /\ paused' = paused
        /\ syncWait'.task = current /\ syncWait'.promise = Fresh /\ current # 0
    BY <1>0, <1>6 DEF Freezes, Steps, Own
  <2>2. /\ Fresh \in DOMAIN hosts' /\ promises'[Fresh].waiters = <<current>>
    <3>1. PICK kind \in Kind : Start(kind)
      BY <1>6 DEF Freezes, Asked
    <3>2. DOMAIN hosts' = DOMAIN hosts \cup {Fresh}
      BY <3>1 DEF Start
    <3>3. promises' = Append(promises, NewPromise("pending", <<current>>))
      BY <1>6 DEF Freezes, Asked
    <3>4. <<current>> \in Seq(Nat)
      BY <1>0, <2>1, SingletonIs
    <3>5. promises'[Fresh] = NewPromise("pending", <<current>>)
      BY <1>0, <3>3, <3>4, OneMorePromise
    <3> QED
      BY <3>2, <3>5 DEF NewPromise
  <2>3. Evaluating' => current >= paused.floor
    BY <1>0, <2>1 DEF Evaluating, Turns
  <2> QED
    BY <2>1, <2>2, <2>3 DEF FrozenWaits
<1>7. ASSUME BreaksOff \/ TakesError \/ \E t : TakesTask(t) PROVE FALSE
  BY <1>2, <1>7 DEF BreaksOff, TakesError, TakesTask, Frozen
<1>8. ASSUME GetsStuck PROVE FALSE
  <2>1. Frozen /\ DOMAIN hosts = {} /\ Eligible = {}
    BY <1>8 DEF GetsStuck, Frozen
  <2>2. PICK i \in 1..Len(ready) : ready[i] = Task(syncWait.task)
    BY <1>0, <1>2, <2>1 DEF FrozenWaits, Contains
  <2>3. i \in Eligible
    BY <1>0, <2>1, <2>2, ShapeIs DEF Eligible
  <2> QED
    BY <2>1, <2>3
<1>9. ASSUME Still PROVE FrozenWaits'
  BY <1>0, <1>2, <1>9 DEF Still, FrozenWaits, Frozen, Evaluating
<1>10. ASSUME Resumes PROVE FALSE
  BY <1>0, <1>2, <1>10 DEF Resumes, FrozenWaits, Frozen
<1>11. ASSUME Takes PROVE FrozenWaits'
  <2> DEFINE c == Head(channel)
             p == syncWait.promise
             t == syncWait.task
  <2>1. PICK st \in {"ok", "err"} : Resolved(c.promise, st, ready)
    BY <1>11 DEF Takes
  <2>2. /\ UNCHANGED <<tasks, current, syncWait, paused, verdict>>
        /\ DOMAIN hosts' = DOMAIN hosts \ {c.promise}
    BY <1>11 DEF Takes
  <2>3. Frozen /\ current = 0 /\ verdict = "none"
    BY <1>11, <2>2 DEF Frozen, Takes
  <2>4. \/ p \in DOMAIN hosts /\ promises[p].waiters = <<t>>
        \/ p \in 1..Len(promises) /\ Contains(ready, Task(t))
    BY <1>0, <1>2, <2>3 DEF FrozenWaits
  <2>5. \/ p \in DOMAIN hosts' /\ promises'[p].waiters = <<t>>
        \/ p \in 1..Len(promises') /\ Contains(ready', Task(t))
    <3>1. CASE Contains(ready, Task(t)) /\ p \in 1..Len(promises)
      BY <2>1, <3>1 DEF Resolved
    <3>2. CASE p \in DOMAIN hosts /\ promises[p].waiters = <<t>> /\ p = c.promise
      <4>1. Contains(promises[p].waiters, t)
        <5>1. Contains(<<t>>, t)
          BY SingletonIs
        <5> QED
          BY <3>2, <5>1
      <4>2. p \in 1..Len(promises)
        BY <1>0, <3>2 DEF Shape
      <4> QED
        BY <2>1, <3>2, <4>1, <4>2 DEF Resolved
    <3>3. CASE p \in DOMAIN hosts /\ promises[p].waiters = <<t>> /\ p # c.promise
      <4>1. p \in 1..Len(promises)
        BY <1>0, <3>3 DEF Shape
      <4> QED
        BY <2>1, <2>2, <3>3, <4>1 DEF Resolved
    <3> QED
      BY <2>4, <3>1, <3>2, <3>3
  <2> QED
    BY <1>0, <1>2, <2>2, <2>3, <2>5 DEF FrozenWaits, Evaluating
<1>12. ASSUME Outside PROVE FrozenWaits'
  BY <1>0, <1>2, <1>12 DEF Outside, Beside, vmVars, FrozenWaits, Frozen, Evaluating
<1> QED
  BY <1>4, <1>5, <1>6, <1>7, <1>8, <1>9, <1>10, <1>11, <1>12, StepIs DEF Move

-----------------------------------------------------------------------------
(* Who resolves a promise.                                                   *)

(* The functions that run stay the same.                                     *)
FnsSame ==
    /\ \A u \in 1..Len(tasks') : Fn(u)' => u \in 1..Len(tasks)
    /\ \A u \in 1..Len(tasks) :
          /\ tasks'[u].ends = tasks[u].ends /\ tasks'[u].promise = tasks[u].promise
          /\ Fn(u) => u \in 1..Len(tasks') /\ tasks'[u].live = tasks[u].live

(* Pending after the step.                                                   *)
PendingNext(p) == p \in DOMAIN promises' /\ promises'[p].state = "pending"

(* Promises of the host come and go: those in gone are resolved, new ones    *)
(* are pending if and only if the host has their operations.                 *)
LEMMA HostsKept ==
    ASSUME Shape, Produced, FnsSame, promises' \in Seq(PromiseRec), NEW gone,
           gone \subseteq DOMAIN hosts, DOMAIN hosts \ gone \subseteq DOMAIN hosts',
           Len(promises') >= Len(promises),
           \A p \in 1..Len(promises) :
              IF p \in gone THEN promises'[p].state # "pending"
                            ELSE promises'[p].state = promises[p].state,
           \A p \in DOMAIN hosts' :
              \/ p \in DOMAIN hosts \ gone
              \/ /\ p \in 1..Len(promises') /\ p \notin 1..Len(promises)
                 /\ promises'[p].state = "pending",
           \A p \in 1..Len(promises') :
              p \notin 1..Len(promises) /\ promises'[p].state = "pending"
                 => p \in DOMAIN hosts'
    PROVE  Produced'
<1>1. /\ DOMAIN promises' = 1..Len(promises') /\ Len(promises') \in Nat
      /\ DOMAIN promises = 1..Len(promises) /\ Len(promises) \in Nat
      /\ 1..Len(promises) \subseteq 1..Len(promises')
      /\ DOMAIN hosts \subseteq 1..Len(promises)
  BY ShapeIs, LenProperties DEF Shape
<1>2. ASSUME NEW p \in DOMAIN hosts' PROVE PendingNext(p)
  BY <1>1, <1>2 DEF Produced, Pending, PendingNext
<1>3. ASSUME NEW t \in 1..Len(tasks'), Fn(t)'
      PROVE  /\ tasks'[t].promise \in 1..Len(promises') /\ tasks'[t].promise \notin DOMAIN hosts'
             /\ tasks'[t].live <=> PendingNext(tasks'[t].promise)
  <2>1. /\ t \in 1..Len(tasks) /\ Fn(t) /\ tasks'[t].promise = tasks[t].promise
        /\ tasks'[t].live = tasks[t].live
    BY <1>3 DEF FnsSame, Fn
  <2>2. /\ tasks[t].promise \in 1..Len(promises) /\ tasks[t].promise \notin DOMAIN hosts
        /\ tasks[t].live <=> Pending(tasks[t].promise)
    BY <2>1 DEF Produced
  <2> QED
    BY <1>1, <2>1, <2>2 DEF Pending, PendingNext
<1>4. ASSUME NEW t \in 1..Len(tasks'), NEW u \in 1..Len(tasks'), Fn(t)', Fn(u)',
             tasks'[t].promise = tasks'[u].promise
      PROVE  t = u
  BY <1>4 DEF Produced, FnsSame, Fn
<1>5. ASSUME NEW p \in 1..Len(promises'), PendingNext(p)
      PROVE  p \in DOMAIN hosts' \/ \E t \in 1..Len(tasks') : Fn(t)' /\ tasks'[t].promise = p
  <2>1. promises'[p].state = "pending"
    BY <1>5 DEF Pending, PendingNext
  <2>2. CASE p \notin 1..Len(promises)
    BY <2>1, <2>2
  <2>3. CASE p \in 1..Len(promises)
    <3>1. Pending(p) /\ p \notin gone
      BY <1>1, <2>1, <2>3 DEF Pending, PendingNext
    <3>2. p \in DOMAIN hosts \/ \E t \in 1..Len(tasks) : Fn(t) /\ tasks[t].promise = p
      BY <2>3, <3>1 DEF Produced
    <3> QED
      BY <3>1, <3>2 DEF FnsSame, Fn
  <2> QED
    BY <2>2, <2>3
<1> QED
  BY <1>2, <1>3, <1>4, <1>5 DEF Produced, Pending, PendingNext

(* A function starts, with a promise of its own.                             *)
LEMMA FunctionStarts ==
    ASSUME Shape, Produced, NEW c, OneMore(c, "promise", Fresh), hosts' = hosts,
           promises' = Append(promises, NewPromise("pending", <<>>))
    PROVE  Produced'
<1>1. /\ Len(tasks) \in Nat /\ Len(promises) \in Nat /\ Fresh = Len(promises) + 1
      /\ DOMAIN promises = 1..Len(promises) /\ DOMAIN hosts \subseteq 1..Len(promises)
  BY ShapeIs DEF Shape, Fresh
<1>2. /\ promises' \in Seq(PromiseRec) /\ Len(promises') = Len(promises) + 1
      /\ promises'[Fresh].state = "pending"
      /\ \A p \in 1..Len(promises) : promises'[p] = promises[p]
  <2>1. <<>> \in Seq(Nat)
    BY EmptySeq
  <2>2. /\ promises' \in Seq(PromiseRec) /\ Len(promises') = Len(promises) + 1
        /\ promises'[Fresh] = NewPromise("pending", <<>>)
        /\ \A p \in 1..Len(promises) : promises'[p] = promises[p]
    BY <2>1, OneMorePromise
  <2>3. NewPromise("pending", <<>>).state = "pending"
    BY DEF NewPromise
  <2> QED
    BY <2>2, <2>3
<1>3. DOMAIN promises' = 1..Len(promises')
  BY <1>2, LenProperties
<1>4. /\ Len(tasks') = Len(tasks) + 1
      /\ \A t \in 1..Len(tasks) : /\ tasks'[t].live = tasks[t].live
                                  /\ tasks'[t].ends = tasks[t].ends
                                  /\ tasks'[t].promise = tasks[t].promise
      /\ tasks'[Len(tasks) + 1].live /\ tasks'[Len(tasks) + 1].ends = "promise"
      /\ tasks'[Len(tasks) + 1].promise = Fresh
  BY DEF OneMore, Same, NewTask
<1>5. \A p \in 1..Len(promises) : PendingNext(p) <=> Pending(p)
  BY <1>1, <1>2, <1>3 DEF Pending, PendingNext
<1>6. PendingNext(Fresh) /\ Fresh \in 1..Len(promises') /\ Fresh \notin 1..Len(promises)
  BY <1>1, <1>2, <1>3 DEF Pending, PendingNext
<1>7. \A t \in 1..Len(tasks') : t \in 1..Len(tasks) \/ t = Len(tasks) + 1
  BY <1>1, <1>4
<1>8. \A p \in 1..Len(promises') : p \in 1..Len(promises) \/ p = Fresh
  BY <1>1, <1>2
<1>9. \A p \in DOMAIN hosts' : PendingNext(p)
  BY <1>1, <1>5 DEF Produced
<1>10. ASSUME NEW t \in 1..Len(tasks'), Fn(t)'
       PROVE  /\ tasks'[t].promise \in 1..Len(promises') /\ tasks'[t].promise \notin DOMAIN hosts'
              /\ tasks'[t].live <=> PendingNext(tasks'[t].promise)
  <2>1. CASE t = Len(tasks) + 1
    BY <1>1, <1>4, <1>6, <2>1
  <2>2. CASE t \in 1..Len(tasks)
    <3>1. /\ tasks[t].promise \in 1..Len(promises) /\ tasks[t].promise \notin DOMAIN hosts
          /\ tasks[t].live <=> Pending(tasks[t].promise)
      BY <1>4, <1>10, <2>2 DEF Produced, Fn
    <3> QED
      BY <1>1, <1>2, <1>4, <1>5, <2>2, <3>1
  <2> QED
    BY <1>7, <2>1, <2>2
<1>11. ASSUME NEW t \in 1..Len(tasks'), NEW u \in 1..Len(tasks'), Fn(t)', Fn(u)',
              tasks'[t].promise = tasks'[u].promise
       PROVE  t = u
  <2>1. \A x \in 1..Len(tasks) : Fn(x)' => tasks'[x].promise \in 1..Len(promises) /\ Fn(x)
    BY <1>4 DEF Produced, Fn
  <2> QED
    BY <1>4, <1>6, <1>7, <1>11, <2>1 DEF Produced
<1>12. ASSUME NEW p \in 1..Len(promises'), PendingNext(p)
       PROVE  p \in DOMAIN hosts' \/ \E t \in 1..Len(tasks') : Fn(t)' /\ tasks'[t].promise = p
  <2>1. CASE p = Fresh
    <3>1. Len(tasks) + 1 \in 1..Len(tasks')
      BY <1>1, <1>4
    <3> QED
      BY <1>4, <2>1, <3>1 DEF Fn
  <2>2. CASE p \in 1..Len(promises)
    <3>1. p \in DOMAIN hosts \/ \E t \in 1..Len(tasks) : Fn(t) /\ tasks[t].promise = p
      BY <1>5, <1>12, <2>2 DEF Produced
    <3>2. 1..Len(tasks) \subseteq 1..Len(tasks')
      BY <1>1, <1>4
    <3> QED
      BY <1>4, <3>1, <3>2 DEF Fn
  <2> QED
    BY <1>8, <2>1, <2>2
<1> QED
  BY <1>9, <1>10, <1>11, <1>12 DEF Produced, Pending, PendingNext

(* A function ends and its promise is resolved.                              *)
LEMMA FunctionEnds ==
    ASSUME Shape, Produced, NEW t \in 1..Len(tasks), tasks[t].live, Fn(t), OneEnds(t),
           hosts' = hosts, NEW st \in {"ok", "err"}, NEW q, Resolved(tasks[t].promise, st, q)
    PROVE  Produced'
<1> DEFINE r == tasks[t].promise
<1>1. /\ r \in 1..Len(promises) /\ r \notin DOMAIN hosts /\ promises[r] \in PromiseRec
      /\ DOMAIN promises = 1..Len(promises) /\ DOMAIN hosts \subseteq 1..Len(promises)
  BY ShapeIs DEF Shape, Produced
<1>2. /\ promises' \in Seq(PromiseRec) /\ Len(promises') = Len(promises)
      /\ promises'[r].state = st
      /\ \A x \in 1..Len(promises) : x # r => promises'[x] = promises[x]
  BY <1>1 DEF Resolved, PromiseRec
<1>3. DOMAIN promises' = 1..Len(promises)
  BY <1>2, LenProperties
<1>4. /\ ~PendingNext(r)
      /\ \A x \in 1..Len(promises) : x # r => (PendingNext(x) <=> Pending(x))
  BY <1>1, <1>2, <1>3 DEF Pending, PendingNext
<1>5. /\ Len(tasks') = Len(tasks) /\ ~tasks'[t].live
      /\ \A u \in 1..Len(tasks) : /\ tasks'[u].ends = tasks[u].ends
                                  /\ tasks'[u].promise = tasks[u].promise
                                  /\ u # t => tasks'[u].live = tasks[u].live
  BY DEF OneEnds, Same
<1>6. \A u \in 1..Len(tasks) : Fn(u)' <=> Fn(u)
  BY <1>5 DEF Fn
<1>7. \A p \in DOMAIN hosts' : PendingNext(p)
  BY <1>1, <1>4 DEF Produced
<1>8. ASSUME NEW u \in 1..Len(tasks'), Fn(u)'
      PROVE  /\ tasks'[u].promise \in 1..Len(promises') /\ tasks'[u].promise \notin DOMAIN hosts'
             /\ tasks'[u].live <=> PendingNext(tasks'[u].promise)
  <2>1. /\ Fn(u) /\ tasks'[u].promise = tasks[u].promise
        /\ tasks[u].promise \in 1..Len(promises) /\ tasks[u].promise \notin DOMAIN hosts
        /\ tasks[u].live <=> Pending(tasks[u].promise)
    BY <1>5, <1>6, <1>8 DEF Produced
  <2>2. CASE u = t
    BY <1>2, <1>4, <1>5, <2>1, <2>2
  <2>3. CASE u # t
    <3>1. tasks[u].promise # r
      BY <1>5, <2>1, <2>3 DEF Produced
    <3> QED
      BY <1>2, <1>4, <1>5, <2>1, <2>3, <3>1
  <2> QED
    BY <2>2, <2>3
<1>9. \A u, v \in 1..Len(tasks') :
         Fn(u)' /\ Fn(v)' /\ tasks'[u].promise = tasks'[v].promise => u = v
  BY <1>5, <1>6 DEF Produced
<1>10. ASSUME NEW p \in 1..Len(promises'), PendingNext(p)
       PROVE  p \in DOMAIN hosts' \/ \E u \in 1..Len(tasks') : Fn(u)' /\ tasks'[u].promise = p
  <2>1. Pending(p)
    BY <1>2, <1>4, <1>10
  <2>2. p \in DOMAIN hosts \/ \E u \in 1..Len(tasks) : Fn(u) /\ tasks[u].promise = p
    BY <1>2, <2>1 DEF Produced
  <2> QED
    BY <1>5, <1>6, <2>2
<1> QED
  BY <1>7, <1>8, <1>9, <1>10 DEF Produced, Pending, PendingNext

(* What else happens to the tasks leaves the functions alone.                *)
LEMMA FnsMove ==
    ASSUME Shape
    PROVE  /\ AllSame => FnsSame
           /\ \A t \in 1..Len(tasks) : OneEnds(t) /\ ~Fn(t) => FnsSame
           /\ \A c, e, p : OneMore(c, e, p) /\ e # "promise" => FnsSame
           /\ tasks' = tasks => FnsSame
<1>1. Len(tasks) \in Nat
  BY ShapeIs
<1>2. AllSame => FnsSame
  BY DEF AllSame, Same, FnsSame, Fn
<1>3. ASSUME NEW t \in 1..Len(tasks), OneEnds(t), ~Fn(t) PROVE FnsSame
  BY <1>3 DEF OneEnds, Same, FnsSame, Fn
<1>4. ASSUME NEW c, NEW e, NEW p, OneMore(c, e, p), e # "promise" PROVE FnsSame
  <2>1. /\ Len(tasks') = Len(tasks) + 1 /\ tasks'[Len(tasks) + 1].ends # "promise"
        /\ \A u \in 1..Len(tasks) : Same(u)
    BY <1>4 DEF OneMore, NewTask
  <2> QED
    BY <1>1, <2>1 DEF Same, FnsSame, Fn
<1>5. tasks' = tasks => FnsSame
  BY DEF FnsSame, Fn
<1> QED
  BY <1>2, <1>3, <1>4, <1>5

(* What an operation of the host adds.                                       *)
LEMMA AskedAdds ==
    ASSUME Shape, NEW ws \in Seq(Nat), Asked(ws)
    PROVE  \E kind \in Kind :
             /\ hosts' = [p \in DOMAIN hosts \cup {Fresh} |->
                             IF p = Fresh THEN kind ELSE hosts[p]]
             /\ running' = running \cup {[op |-> nextOp, promise |-> Fresh, kind |-> kind,
                                          at |-> "thread", canceled |-> FALSE]}
             /\ promises'[Fresh].state = "pending" /\ promises'[Fresh].op = nextOp
             /\ promises'[Fresh].waiters = ws
<1>1. promises'[Fresh] = NewPromise("pending", ws)
  BY OneMorePromise DEF Asked
<1>2. /\ NewPromise("pending", ws).state = "pending" /\ NewPromise("pending", ws).op = nextOp
      /\ NewPromise("pending", ws).waiters = ws
  BY DEF NewPromise
<1> QED
  BY <1>1, <1>2 DEF Asked, Start

(* Every pending promise has one producer.                                   *)
LEMMA ProducedStep ==
    ASSUME IInv, [Next]_vars
    PROVE  Produced'
<1>0. /\ Shape /\ Turns /\ Produced /\ Flights /\ Len(promises) \in Nat /\ <<>> \in Seq(Nat)
      /\ Len(tasks) \in Nat /\ promises \in Seq(PromiseRec)
      /\ DOMAIN hosts \subseteq 1..Len(promises)
      /\ Fresh = Len(promises) + 1
  BY ShapeIs, EmptySeq DEF IInv, Shape, Fresh
<1>1. ASSUME FnsSame, hosts' = hosts, promises' \in Seq(PromiseRec),
             Len(promises') = Len(promises),
             \A p \in 1..Len(promises) : promises'[p].state = promises[p].state
      PROVE  Produced'
  <2>1. PICK gone : gone = {}
    OBVIOUS
  <2>2. \A p \in 1..Len(promises) :
              IF p \in gone THEN promises'[p].state # "pending"
                            ELSE promises'[p].state = promises[p].state
    BY <1>1, <2>1
  <2>3. \A p \in 1..Len(promises') : p \in 1..Len(promises)
    BY <1>1
  <2>4. /\ gone \subseteq DOMAIN hosts /\ DOMAIN hosts \ gone \subseteq DOMAIN hosts'
        /\ \A p \in DOMAIN hosts' : p \in DOMAIN hosts \ gone
        /\ Len(promises') >= Len(promises)
    BY <1>0, <1>1, <2>1
  <2> QED
    BY <1>0, <1>1, <2>1, <2>2, <2>3, <2>4, HostsKept
<1>2. ASSUME FnsSame, NEW ws \in Seq(Nat), Own, Asked(ws) \/ Refused
      PROVE  Produced'
  <2>1. PICK gone : gone = {}
    OBVIOUS
  <2>2. /\ promises' \in Seq(PromiseRec) /\ Len(promises') = Len(promises) + 1
        /\ \A p \in 1..Len(promises) : promises'[p] = promises[p]
    BY <1>0, <1>2, OneMorePromise DEF Asked, Refused
  <2>3. CASE Asked(ws)
    <3>1. PICK kind \in Kind :
            /\ hosts' = [p \in DOMAIN hosts \cup {Fresh} |->
                            IF p = Fresh THEN kind ELSE hosts[p]]
            /\ promises'[Fresh].state = "pending"
      BY <1>0, <2>3, AskedAdds
    <3>2. DOMAIN hosts' = DOMAIN hosts \cup {Fresh}
      BY <3>1
    <3>3. /\ Fresh \in 1..Len(promises') /\ Fresh \notin 1..Len(promises)
          /\ \A p \in 1..Len(promises') : p \in 1..Len(promises) \/ p = Fresh
      BY <1>0, <2>2
    <3>4. \A p \in 1..Len(promises) :
              IF p \in gone THEN promises'[p].state # "pending"
                            ELSE promises'[p].state = promises[p].state
      BY <2>1, <2>2
    <3>5. \A p \in DOMAIN hosts' :
              \/ p \in DOMAIN hosts \ gone
              \/ /\ p \in 1..Len(promises') /\ p \notin 1..Len(promises)
                 /\ promises'[p].state = "pending"
      BY <2>1, <3>1, <3>2, <3>3
    <3>6. Len(promises') >= Len(promises)
      BY <1>0, <2>2
    <3> QED
      BY <1>0, <1>2, <2>1, <2>2, <3>2, <3>3, <3>4, <3>5, <3>6, HostsKept
  <2>4. CASE Refused
    <3>1. promises'[Fresh].state # "pending" /\ hosts' = hosts
      <4>1. PICK st \in {"ok", "err"} : promises' = Append(promises, NewPromise(st, <<>>))
        BY <2>4 DEF Refused
      <4>2. promises'[Fresh] = NewPromise(st, <<>>)
        BY <1>0, <4>1, OneMorePromise
      <4>3. NewPromise(st, <<>>).state = st
        BY DEF NewPromise
      <4> QED
        BY <2>4, <4>2, <4>3 DEF Refused
    <3>2. \A p \in 1..Len(promises') : p \in 1..Len(promises) \/ p = Fresh
      BY <1>0, <2>2
    <3>3. \A p \in 1..Len(promises) :
              IF p \in gone THEN promises'[p].state # "pending"
                            ELSE promises'[p].state = promises[p].state
      BY <2>1, <2>2
    <3>4. Len(promises') >= Len(promises)
      BY <1>0, <2>2
    <3>5. \A p \in DOMAIN hosts' : p \in DOMAIN hosts \ gone
      BY <2>1, <3>1
    <3> QED
      BY <1>0, <1>2, <2>1, <2>2, <3>1, <3>2, <3>3, <3>4, <3>5, HostsKept
  <2> QED
    BY <1>2, <2>3, <2>4
<1>3. ASSUME TaskMove PROVE Produced'
  <2>1. PICK t, q : GoesOn(t, q) \/ Dies(t, q) \/ Returns(t, q)
    BY <1>3 DEF TaskMove
  <2>2. t \in 1..Len(tasks) /\ tasks[t].live /\ hosts' = hosts
    BY <2>1 DEF GoesOn, Dies, Returns, Acts, Home
  <2>3. CASE GoesOn(t, q)
    <3>1. FnsSame /\ promises' = promises
      BY <1>0, <2>3, TasksMove, FnsMove DEF GoesOn
    <3> QED
      BY <1>0, <1>1, <2>2, <3>1
  <2>4. CASE Dies(t, q)
    <3>1. FnsSame /\ promises' = promises
      BY <1>0, <2>2, <2>4, TasksMove, FnsMove DEF Dies
    <3> QED
      BY <1>0, <1>1, <2>2, <3>1
  <2>5. CASE Returns(t, q)
    <3>1. OneEnds(t) /\ Fn(t)
      BY <1>0, <2>5, TasksMove DEF Returns
    <3>2. PICK st \in {"ok", "err"} : Resolved(tasks[t].promise, st, q)
      BY <2>5 DEF Returns
    <3> QED
      BY <1>0, <2>2, <3>1, <3>2, FunctionEnds
  <2> QED
    BY <2>1, <2>3, <2>4, <2>5
<1>4. ASSUME Yields PROVE Produced'
  <2>1. FnsSame /\ promises' = promises /\ hosts' = hosts
    BY <1>0, <1>4, TasksMove, FnsMove DEF Yields, Home
  <2> QED
    BY <1>0, <1>1, <2>1
<1>5. ASSUME Suspends PROVE Produced'
  <2>1. FnsSame /\ hosts' = hosts
    BY <1>0, <1>5, FnsMove DEF Suspends, Home
  <2>2. /\ promises' \in Seq(PromiseRec) /\ Len(promises') = Len(promises)
        /\ \A p \in 1..Len(promises) : promises'[p].state = promises[p].state
    BY <1>5 DEF Suspends
  <2> QED
    BY <1>1, <2>1, <2>2
<1>6. ASSUME Calls PROVE Produced'
  <2>1. PICK c \in Seq(Op) : OneMore(c, "promise", Fresh) \/ OneMore(c, "detached", 0)
    BY <1>0, <1>6, TasksMove
  <2>2. hosts' = hosts
    BY <1>6 DEF Calls, Home
  <2>3. \/ promises' = Append(promises, NewPromise("pending", <<>>))
        \/ promises' = promises
    BY <1>6 DEF Calls
  <2>4. tasks'[Len(tasks) + 1].ends = "promise"
           <=> promises' = Append(promises, NewPromise("pending", <<>>))
    <3>1. \A b : Append(promises, b) # promises
      BY <1>0, AppendProperties
    <3>2. PICK d \in Seq(Op) :
            \/ /\ tasks' = Append(Next1(current), NewTask(d, "promise", Fresh))
               /\ promises' = Append(promises, NewPromise("pending", <<>>))
            \/ /\ tasks' = Append(Next1(current), NewTask(d, "detached", 0))
               /\ promises' = promises
      BY <1>6 DEF Calls
    <3>3. /\ current \in 1..Len(tasks) /\ tasks[current].code # <<>>
          /\ d \in Seq(Instruction) /\ Fresh \in Nat
      BY <1>0, <1>6, SeqMonotonic DEF Calls, Steps, Instruction
    <3>4. CASE /\ tasks' = Append(Next1(current), NewTask(d, "promise", Fresh))
               /\ promises' = Append(promises, NewPromise("pending", <<>>))
      <4>1. OneMore(d, "promise", Fresh)
        BY <1>0, <3>3, <3>4, SpawnMoves
      <4> QED
        BY <3>4, <4>1 DEF OneMore, NewTask
    <3>5. CASE /\ tasks' = Append(Next1(current), NewTask(d, "detached", 0))
               /\ promises' = promises
      <4>1. OneMore(d, "detached", 0)
        BY <1>0, <3>3, <3>5, SpawnMoves
      <4>2. tasks'[Len(tasks) + 1].ends = "detached"
        BY <4>1 DEF OneMore, NewTask
      <4> QED
        BY <3>1, <3>5, <4>2
    <3> QED
      BY <3>2, <3>4, <3>5
  <2>5. CASE OneMore(c, "promise", Fresh)
    <3>1. promises' = Append(promises, NewPromise("pending", <<>>))
      BY <2>4, <2>5 DEF OneMore, NewTask
    <3> QED
      BY <1>0, <2>2, <2>5, <3>1, FunctionStarts
  <2>6. CASE OneMore(c, "detached", 0)
    <3>1. tasks'[Len(tasks) + 1].ends = "detached"
      BY <2>6 DEF OneMore, NewTask
    <3>2. promises' = promises
      BY <2>3, <2>4, <3>1
    <3>3. FnsSame
      BY <1>0, <2>6, FnsMove
    <3> QED
      BY <1>0, <1>1, <2>2, <3>2, <3>3
  <2> QED
    BY <2>1, <2>5, <2>6
<1>7. ASSUME Sends \/ Notifies \/ Freezes PROVE Produced'
  <2>1. /\ Own /\ (Asked(<<>>) \/ Asked(<<current>>) \/ Refused)
        /\ current \in 1..Len(tasks)
    BY <1>7 DEF Sends, Notifies, Freezes, Steps
  <2>2. <<current>> \in Seq(Nat)
    BY <1>0, <2>1, SingletonIs
  <2>3. FnsSame
    <3>1. CASE Sends
      BY <1>0, <3>1, TasksMove, FnsMove
    <3>2. CASE Notifies
      BY <1>0, <3>2, TasksMove, FnsMove
    <3>3. CASE Freezes
      BY <1>0, <3>3, FnsMove DEF Freezes
    <3> QED
      BY <1>7, <3>1, <3>2, <3>3
  <2> QED
    BY <1>0, <1>2, <2>1, <2>2, <2>3
<1>8. ASSUME BreaksOff \/ TakesError \/ GetsStuck \/ Still \/ Outside \/ \E t : TakesTask(t)
      PROVE  Produced'
  <2>1. tasks' = tasks /\ promises' = promises /\ hosts' = hosts
    BY <1>8 DEF BreaksOff, TakesError, GetsStuck, Still, TakesTask, Idle, Home, Outside, Beside,
                vmVars
  <2> QED
    BY <1>0, <1>1, <2>1, FnsMove
<1>9. ASSUME Begins PROVE Produced'
  <2>1. FnsSame
    BY <1>0, <1>9, TasksMove, FnsMove
  <2> QED
    BY <1>0, <1>1, <1>9, <2>1 DEF Begins
<1>10. ASSUME Resumes PROVE Produced'
  <2>1. OneEnds(paused.floor) /\ paused.floor \in 1..Len(tasks) /\ ~Fn(paused.floor)
    BY <1>0, <1>10, TasksMove DEF Resumes, Turns, Fn
  <2>2. FnsSame
    BY <1>0, <2>1, FnsMove
  <2> QED
    BY <1>0, <1>1, <1>10, <2>2 DEF Resumes
<1>11. ASSUME Takes PROVE Produced'
  <2> DEFINE r == Head(channel).promise
  <2>1. r \in DOMAIN hosts
    <3>1. 1 \in 1..Len(channel) /\ Head(channel) = channel[1]
      BY <1>0, <1>11, EmptySeq DEF Takes, Shape
    <3> QED
      BY <1>0, <3>1 DEF Flights, Expected
  <2>2. PICK st \in {"ok", "err"} : Resolved(r, st, ready)
    BY <1>11 DEF Takes
  <2>3. /\ promises' \in Seq(PromiseRec) /\ Len(promises') = Len(promises)
        /\ promises'[r].state # "pending"
        /\ \A x \in 1..Len(promises) : x # r => promises'[x] = promises[x]
    <3>1. promises[r] \in PromiseRec
      BY <1>0, <2>1, ShapeIs
    <3> QED
      BY <2>2, <3>1 DEF Resolved, PromiseRec
  <2>4. DOMAIN hosts' = DOMAIN hosts \ {r} /\ tasks' = tasks
    BY <1>11 DEF Takes
  <2>5. PICK gone : gone = {r}
    OBVIOUS
  <2> HIDE DEF r
  <2>6. \A p \in 1..Len(promises) :
              IF p \in gone THEN promises'[p].state # "pending"
                            ELSE promises'[p].state = promises[p].state
    BY <2>3, <2>5
  <2>7. \A p \in 1..Len(promises') : p \in 1..Len(promises)
    BY <2>3
  <2>8. /\ gone \subseteq DOMAIN hosts /\ DOMAIN hosts \ gone \subseteq DOMAIN hosts'
        /\ \A p \in DOMAIN hosts' : p \in DOMAIN hosts \ gone
    BY <2>1, <2>4, <2>5
  <2>9. FnsSame /\ Len(promises') >= Len(promises)
    BY <1>0, <2>3, <2>4, FnsMove
  <2> QED
    BY <1>0, <2>3, <2>6, <2>7, <2>8, <2>9, HostsKept
<1> QED
  BY <1>3, <1>4, <1>5, <1>6, <1>7, <1>8, <1>9, <1>10, <1>11, StepIs DEF Move

-----------------------------------------------------------------------------
(* Operations on their way.                                                  *)

(* Expected after the step.                                                  *)
ExpectedNext(o) ==
    o.promise \in DOMAIN hosts' /\ hosts'[o.promise] = o.kind
        /\ promises'[o.promise].op = o.op

(* Operations and completions stay, promises may be resolved.                *)
LEMMA FlightsKept ==
    ASSUME Shape, Flights, UNCHANGED <<running, channel, hosts>>,
           phase' = "live" => phase = "live",
           \A p \in 1..Len(promises) : promises'[p].op = promises[p].op
    PROVE  Flights'
<1>1. DOMAIN hosts \subseteq 1..Len(promises)
  BY DEF Shape
<1>2. \A o : Expected(o) => ExpectedNext(o)
  BY <1>1 DEF Expected, ExpectedNext
<1> QED
  BY <1>2 DEF Flights, Expected, ExpectedNext

(* A new operation has a promise of its own.                                 *)
LEMMA FlightsAsked ==
    ASSUME Shape, Flights, Own, NEW ws \in Seq(Nat), Asked(ws)
    PROVE  Flights'
<1>1. PICK kind \in Kind :
        /\ hosts' = [p \in DOMAIN hosts \cup {Fresh} |->
                        IF p = Fresh THEN kind ELSE hosts[p]]
        /\ running' = running \cup {[op |-> nextOp, promise |-> Fresh, kind |-> kind,
                                     at |-> "thread", canceled |-> FALSE]}
        /\ promises'[Fresh].op = nextOp
  BY AskedAdds
<1>2. /\ Len(promises) \in Nat /\ DOMAIN hosts \subseteq 1..Len(promises)
      /\ \A p \in 1..Len(promises) : promises'[p] = promises[p]
  BY OneMorePromise DEF Asked, Shape
<1>3. Fresh \notin DOMAIN hosts
  BY <1>2 DEF Fresh
<1> DEFINE n == [op |-> nextOp, promise |-> Fresh, kind |-> kind, at |-> "thread",
                 canceled |-> FALSE]
<1>4. n.op = nextOp /\ n.promise = Fresh /\ n.kind = kind /\ running' = running \cup {n}
  BY <1>1
<1> HIDE DEF n
<1>5. /\ DOMAIN hosts' = DOMAIN hosts \cup {Fresh} /\ hosts'[Fresh] = kind
      /\ \A p \in DOMAIN hosts : hosts'[p] = hosts[p]
  BY <1>1, <1>3
<1>6. \A o : Expected(o) => ExpectedNext(o) /\ o.promise # Fresh
  BY <1>2, <1>3, <1>5 DEF Expected, ExpectedNext
<1>7. /\ n.promise \in DOMAIN hosts' /\ hosts'[n.promise] = n.kind
      /\ promises'[n.promise].op = n.op
  BY <1>1, <1>4, <1>5
<1>8. channel' = channel /\ phase = "live" /\ phase' = phase
  BY DEF Own
<1>9. \A o \in running' : ExpectedNext(o)
  BY <1>4, <1>6, <1>7 DEF Flights, Expected, ExpectedNext
<1>10. \A i \in 1..Len(channel') : ExpectedNext(channel'[i])
  <2>1. \A i \in 1..Len(channel) : Expected(channel[i])
    BY DEF Flights
  <2> QED
    BY <1>2, <1>3, <1>5, <1>8, <2>1 DEF Expected, ExpectedNext
<1>11. \A o, x \in running' : o.promise = x.promise => o = x
  BY <1>4, <1>6 DEF Flights
<1>12. \A o \in running', i \in 1..Len(channel') : o.promise # channel'[i].promise
  BY <1>4, <1>6, <1>8 DEF Flights
<1>13. \A p \in DOMAIN hosts' : \/ \E o \in running' : o.promise = p
                                \/ \E i \in 1..Len(channel') : channel'[i].promise = p
  BY <1>4, <1>5, <1>8 DEF Flights
<1> QED
  BY <1>8, <1>9, <1>10, <1>11, <1>12, <1>13 DEF Flights, Expected, ExpectedNext

(* The head of the channel, and what is behind it.                           *)
LEMMA ChannelIs ==
    ASSUME channel \in Seq(Completion), channel # <<>>, channel' = Tail(channel)
    PROVE  /\ Len(channel) \in Nat \ {0} /\ Len(channel') = Len(channel) - 1
           /\ Head(channel) = channel[1] /\ 1 \in 1..Len(channel)
           /\ \A i \in 1..Len(channel') : i + 1 \in 2..Len(channel) /\ channel'[i] = channel[i + 1]
           /\ \A i \in 1..Len(channel) : i = 1 \/ (/\ i - 1 \in 1..Len(channel')
                                                    /\ channel'[i - 1] = channel[i])
<1>1. Len(channel) \in Nat \ {0} /\ Head(channel) = channel[1]
  BY EmptySeq
<1>2. Len(channel') = Len(channel) - 1 /\ \A i \in 1..Len(channel') : channel'[i] = channel[i + 1]
  BY HeadTailProperties
<1> QED
  BY <1>1, <1>2

(* Taking the head leaves the other completions as they were.                *)
LEMMA FlightsTaken ==
    ASSUME Shape, Flights, channel # <<>>, channel' = Tail(channel), running' = running,
           NEW P, DOMAIN hosts' = DOMAIN hosts \ P, P \subseteq {Head(channel).promise},
           \A p \in DOMAIN hosts' : hosts'[p] = hosts[p],
           \A p \in 1..Len(promises) : promises'[p].op = promises[p].op,
           phase' = "live" => phase = "live" /\ P = {Head(channel).promise}
    PROVE  Flights'
<1> DEFINE c == Head(channel)
<1>1. /\ c = channel[1] /\ 1 \in 1..Len(channel) /\ Len(channel') = Len(channel) - 1
      /\ Len(channel) \in Nat
      /\ \A i \in 1..Len(channel') : i + 1 \in 2..Len(channel) /\ channel'[i] = channel[i + 1]
      /\ \A i \in 1..Len(channel) : i = 1 \/ (/\ i - 1 \in 1..Len(channel')
                                               /\ channel'[i - 1] = channel[i])
  BY ChannelIs DEF Shape
<1>2. DOMAIN hosts \subseteq 1..Len(promises)
  BY DEF Shape
<1> HIDE DEF c
<1>3. \A o : Expected(o) /\ o.promise # c.promise => ExpectedNext(o)
  BY <1>2 DEF Expected, c, ExpectedNext
<1>4. \A o \in running : Expected(o) /\ o.promise # c.promise
  BY <1>1 DEF Flights
<1>5. \A i \in 1..Len(channel') :
         /\ i + 1 \in 1..Len(channel) /\ i + 1 # 1 /\ channel'[i] = channel[i + 1]
         /\ Expected(channel[i + 1]) /\ channel[i + 1].promise # c.promise
  <2> SUFFICES ASSUME NEW i \in 1..Len(channel')
               PROVE  /\ i + 1 \in 1..Len(channel) /\ i + 1 # 1
                      /\ channel'[i] = channel[i + 1]
                      /\ Expected(channel[i + 1]) /\ channel[i + 1].promise # c.promise
    OBVIOUS
  <2>1. i + 1 \in 1..Len(channel) /\ i + 1 # 1 /\ channel'[i] = channel[i + 1]
    BY <1>1
  <2> QED
    BY <1>1, <2>1 DEF Flights
<1>6. \A o \in running' : ExpectedNext(o)
  BY <1>3, <1>4
<1>7. \A i \in 1..Len(channel') : ExpectedNext(channel'[i])
  <2> SUFFICES ASSUME NEW i \in 1..Len(channel') PROVE ExpectedNext(channel'[i])
    OBVIOUS
  <2>1. PICK o : o = channel[i + 1]
    OBVIOUS
  <2>2. ExpectedNext(o) /\ channel'[i] = o
    BY <1>3, <1>5, <2>1
  <2> QED
    BY <2>2 DEF Expected, ExpectedNext
<1>8. \A i, k \in 1..Len(channel') : channel'[i].promise = channel'[k].promise => i = k
  <2> SUFFICES ASSUME NEW i \in 1..Len(channel'), NEW k \in 1..Len(channel'),
                      channel'[i].promise = channel'[k].promise
               PROVE  i = k
    OBVIOUS
  <2>1. i + 1 = k + 1
    BY <1>5 DEF Flights
  <2> QED
    BY <1>1, <2>1
<1>9. \A o \in running', i \in 1..Len(channel') : o.promise # channel'[i].promise
  BY <1>5 DEF Flights
<1>10. ASSUME phase' = "live", NEW p \in DOMAIN hosts'
       PROVE  \/ \E o \in running' : o.promise = p
              \/ \E i \in 1..Len(channel') : channel'[i].promise = p
  <2>1. p \in DOMAIN hosts /\ p # c.promise /\ phase = "live"
    BY <1>10 DEF c
  <2>2. CASE \E o \in running : o.promise = p
    BY <2>2
  <2>3. CASE \E i \in 1..Len(channel) : channel[i].promise = p
    <3>1. PICK i \in 1..Len(channel) : channel[i].promise = p
      BY <2>3
    <3>2. i # 1
      BY <1>1, <2>1, <3>1
    <3> QED
      BY <1>1, <3>1, <3>2
  <2> QED
    BY <2>1, <2>2, <2>3 DEF Flights
<1> QED
  BY <1>6, <1>7, <1>8, <1>9, <1>10 DEF Flights, Expected, ExpectedNext

(* Other threads and the drop: an operation stays what it is.                *)
LEMMA FlightsOutside ==
    ASSUME Shape, Flights, Outside
    PROVE  Flights'
<1>1. UNCHANGED <<hosts, promises>>
  BY DEF Outside, Beside, vmVars
<1>2. \A o : ExpectedNext(o) <=> Expected(o)
  BY <1>1 DEF Expected, ExpectedNext
(* Operations keep number, promise and kind.                                 *)
<1>3. ASSUME channel' = channel, phase' = "live" => phase = "live",
             \A o \in running' : \E x \in running :
                /\ o.op = x.op /\ o.promise = x.promise /\ o.kind = x.kind,
             \A x \in running : \E o \in running' : o.promise = x.promise,
             \A o, x \in running' : o.promise = x.promise => o = x
      PROVE  Flights'
  <2>1. \A o \in running' : ExpectedNext(o)
    BY <1>2, <1>3 DEF Flights, Expected
  <2>2. \A i \in 1..Len(channel') : ExpectedNext(channel'[i])
    BY <1>2, <1>3 DEF Flights
  <2>3. \A o \in running', i \in 1..Len(channel') : o.promise # channel'[i].promise
    BY <1>3 DEF Flights
  <2>4. \A i, k \in 1..Len(channel') : channel'[i].promise = channel'[k].promise => i = k
    BY <1>3 DEF Flights
  <2>5. ASSUME phase' = "live", NEW p \in DOMAIN hosts'
        PROVE  \/ \E o \in running' : o.promise = p
               \/ \E i \in 1..Len(channel') : channel'[i].promise = p
    BY <1>1, <1>3, <2>5 DEF Flights
  <2> QED
    BY <1>3, <2>1, <2>2, <2>3, <2>4, <2>5 DEF Flights, Expected, ExpectedNext
<1>4. ASSUME NEW o \in running, EnterHost(o), phase' = phase PROVE Flights'
  <2> DEFINE n == [o EXCEPT !.at = "inside"]
  <2>1. o \in Operation
    BY DEF Shape
  <2>2. n.op = o.op /\ n.promise = o.promise /\ n.kind = o.kind
    BY <2>1 DEF Operation
  <2>3. running' = (running \ {o}) \cup {n} /\ channel' = channel
    BY <1>4 DEF EnterHost
  <2> HIDE DEF n
  <2>4. \A x, y \in running' : x.promise = y.promise => x = y
    BY <2>2, <2>3 DEF Flights
  <2>5. /\ \A y \in running' : \E x \in running :
              /\ y.op = x.op /\ y.promise = x.promise /\ y.kind = x.kind
        /\ \A x \in running : \E y \in running' : y.promise = x.promise
    BY <2>2, <2>3
  <2> QED
    BY <1>3, <1>4, <2>3, <2>4, <2>5
<1>5. ASSUME NEW o \in running, Complete(o), phase' = phase PROVE Flights'
  <2>1. PICK ok \in BOOLEAN :
           channel' = Append(channel, [op |-> o.op, promise |-> o.promise,
                                       kind |-> o.kind, ok |-> ok])
    BY <1>5 DEF Complete
  <2> DEFINE c == [op |-> o.op, promise |-> o.promise, kind |-> o.kind, ok |-> ok]
  <2>2. c \in Completion /\ c.op = o.op /\ c.promise = o.promise /\ c.kind = o.kind
    BY DEF Shape, Operation, Completion
  <2>3. running' = running \ {o} /\ channel' = Append(channel, c)
    BY <1>5, <2>1 DEF Complete
  <2> HIDE DEF c
  <2>4. /\ Len(channel') = Len(channel) + 1 /\ Len(channel) \in Nat
        /\ \A i \in 1..Len(channel) : channel'[i] = channel[i]
        /\ channel'[Len(channel) + 1] = c
    BY <2>2, <2>3, AppendIs, LenProperties DEF Shape
  <2>5. /\ \A i \in 1..Len(channel') : i \in 1..Len(channel) \/ i = Len(channel) + 1
        /\ 1..Len(channel) \subseteq 1..Len(channel')
        /\ Len(channel) + 1 \in 1..Len(channel')
    BY <2>4
  <2>6. Expected(o) /\ ExpectedNext(c)
    BY <1>2, <2>2 DEF Flights, Expected
  <2>7. \A i \in 1..Len(channel') : ExpectedNext(channel'[i])
    BY <1>2, <2>4, <2>5, <2>6 DEF Flights
  <2>8. \A x \in running' : ExpectedNext(x)
    BY <1>2, <2>3 DEF Flights
  <2>9. \A i, k \in 1..Len(channel') : channel'[i].promise = channel'[k].promise => i = k
    BY <2>2, <2>4, <2>5 DEF Flights
  <2>10. \A x \in running', i \in 1..Len(channel') : x.promise # channel'[i].promise
    BY <2>2, <2>3, <2>4, <2>5 DEF Flights
  <2>11. \A x, y \in running' : x.promise = y.promise => x = y
    BY <2>3 DEF Flights
  <2>12. ASSUME phase' = "live", NEW p \in DOMAIN hosts'
         PROVE  \/ \E x \in running' : x.promise = p
                \/ \E i \in 1..Len(channel') : channel'[i].promise = p
    <3>1. \/ \E x \in running : x.promise = p
          \/ \E i \in 1..Len(channel) : channel[i].promise = p
      BY <1>1, <1>5, <2>12 DEF Flights
    <3>2. CASE \E x \in running : x.promise = p
      BY <2>2, <2>3, <2>4, <2>5, <3>2
    <3>3. CASE \E i \in 1..Len(channel) : channel[i].promise = p
      BY <2>4, <2>5, <3>3
    <3> QED
      BY <3>1, <3>2, <3>3
  <2> QED
    BY <2>7, <2>8, <2>9, <2>10, <2>11, <2>12 DEF Flights, Expected, ExpectedNext
<1>6. CASE DropBegins
  <2> DEFINE f(o) == IF o.kind = "app" THEN o ELSE [o EXCEPT !.canceled = TRUE]
  <2>1. running' = {f(o) : o \in running} /\ channel' = channel /\ phase' = "dropping"
    BY <1>6 DEF DropBegins
  <2>2. \A o \in running : /\ f(o).op = o.op /\ f(o).promise = o.promise
                          /\ f(o).kind = o.kind
    BY DEF Shape, Operation
  <2> HIDE DEF f
  <2>3. \A x, y \in running' : x.promise = y.promise => x = y
    <3> SUFFICES ASSUME NEW x \in running', NEW y \in running', x.promise = y.promise
                 PROVE  x = y
      OBVIOUS
    <3>1. PICK a \in running, b \in running : x = f(a) /\ y = f(b)
      BY <2>1
    <3>2. a = b
      BY <2>2, <3>1 DEF Flights
    <3> QED
      BY <3>1, <3>2
  <2>4. \A y \in running' : \E x \in running :
              /\ y.op = x.op /\ y.promise = x.promise /\ y.kind = x.kind
    BY <2>1, <2>2
  <2>5. \A x \in running : \E y \in running' : y.promise = x.promise
    BY <2>1, <2>2
  <2> QED
    BY <1>3, <2>1, <2>3, <2>4, <2>5
<1>7. CASE DropReceives
  <2>1. /\ channel # <<>> /\ channel' = Tail(channel) /\ running' = running
        /\ phase = "dropping" /\ phase' = phase
    BY <1>7 DEF DropReceives
  <2>2. PICK P : P = {}
    OBVIOUS
  <2>3. DOMAIN hosts' = DOMAIN hosts \ P /\ P \subseteq {Head(channel).promise}
    BY <1>1, <2>2
  <2> QED
    BY <1>1, <2>1, <2>3, FlightsTaken
<1>8. CASE DropEnds
  BY <1>1, <1>8, FlightsKept DEF DropEnds
<1> QED
  BY <1>4, <1>5, <1>6, <1>7, <1>8 DEF Outside, Thread, Drop

(* Every operation on its way is that of the promise it will resolve.        *)
LEMMA FlightsStep ==
    ASSUME IInv, [Next]_vars
    PROVE  Flights'
<1>0. /\ Shape /\ Produced /\ Flights /\ Len(promises) \in Nat /\ <<>> \in Seq(Nat)
      /\ \A p \in 1..Len(promises) : promises[p] \in PromiseRec
  BY ShapeIs, EmptySeq DEF IInv
<1>1. ASSUME Home \/ Still, promises' = promises PROVE Flights'
  BY <1>0, <1>1, FlightsKept DEF Home, Own, Still
<1>2. ASSUME TaskMove PROVE Flights'
  <2>1. PICK t, q : GoesOn(t, q) \/ Dies(t, q) \/ Returns(t, q)
    BY <1>2 DEF TaskMove
  <2>2. CASE Returns(t, q)
    <3>1. Fn(t) /\ Home /\ t \in 1..Len(tasks)
      BY <2>2 DEF Returns, Acts
    <3>2. PICK st \in {"ok", "err"} : Resolved(tasks[t].promise, st, q)
      BY <2>2 DEF Returns
    <3>3. tasks[t].promise \in 1..Len(promises)
      BY <1>0, <3>1 DEF Produced
    <3>4. \A p \in 1..Len(promises) : promises'[p].op = promises[p].op
      BY <1>0, <3>2, <3>3, ZenonT(30) DEF Resolved, PromiseRec
    <3> QED
      BY <1>0, <3>1, <3>4, FlightsKept DEF Home, Own
  <2> QED
    BY <1>1, <2>1, <2>2 DEF GoesOn, Dies
<1>3. ASSUME Suspends PROVE Flights'
  <2>1. \A p \in 1..Len(promises) : promises'[p].op = promises[p].op
    BY <1>3 DEF Suspends
  <2> QED
    BY <1>0, <1>3, <2>1, FlightsKept DEF Suspends, Home, Own
<1>4. ASSUME Own, UNCHANGED <<hosts, running>>, NEW st \in {"pending", "ok", "err"},
             promises' = Append(promises, NewPromise(st, <<>>))
      PROVE  Flights'
  <2>1. \A p \in 1..Len(promises) : promises'[p] = promises[p]
    BY <1>0, <1>4, OneMorePromise
  <2> QED
    BY <1>0, <1>4, <2>1, FlightsKept DEF Own
<1>5. ASSUME Calls PROVE Flights'
  <2>1. \/ promises' = Append(promises, NewPromise("pending", <<>>))
        \/ promises' = promises
    BY <1>5 DEF Calls
  <2> QED
    BY <1>1, <1>4, <1>5, <2>1 DEF Calls, Home
<1>6. ASSUME Sends \/ Notifies \/ Freezes PROVE Flights'
  <2>1. /\ Own /\ (Asked(<<>>) \/ Asked(<<current>>) \/ Refused)
        /\ current \in 1..Len(tasks)
    BY <1>6 DEF Sends, Notifies, Freezes, Steps
  <2>2. <<current>> \in Seq(Nat)
    <3>1. current \in Nat
      BY <1>0, <2>1, ShapeIs
    <3> QED
      BY <3>1, SingletonIs
  <2>3. CASE Refused
    BY <1>4, <2>1, <2>3 DEF Refused
  <2> QED
    BY <1>0, <2>1, <2>2, <2>3, FlightsAsked
<1>7. ASSUME Yields \/ BreaksOff \/ TakesError \/ GetsStuck \/ Still \/ \E t : TakesTask(t)
      PROVE  Flights'
  BY <1>1, <1>7 DEF Yields, BreaksOff, TakesError, GetsStuck, Still, TakesTask, Idle
<1>8. ASSUME Begins PROVE Flights'
  BY <1>0, <1>8, FlightsKept DEF Begins
<1>9. ASSUME Resumes PROVE Flights'
  BY <1>0, <1>9, FlightsKept DEF Resumes
<1>10. ASSUME Takes PROVE Flights'
  <2> DEFINE r == Head(channel).promise
  <2>1. /\ channel # <<>> /\ channel' = Tail(channel) /\ running' = running
        /\ phase = "live" /\ phase' = phase
        /\ DOMAIN hosts' = DOMAIN hosts \ {r}
        /\ \A p \in DOMAIN hosts' : hosts'[p] = hosts[p]
    BY <1>10 DEF Takes
  <2>2. r \in 1..Len(promises)
    <3>1. 1 \in 1..Len(channel) /\ Head(channel) = channel[1]
      BY <1>0, <2>1, EmptySeq DEF Shape
    <3> QED
      BY <1>0, <3>1 DEF Flights, Expected, Shape
  <2>3. PICK st \in {"ok", "err"} : Resolved(r, st, ready)
    BY <1>10 DEF Takes
  <2>4. \A p \in 1..Len(promises) : promises'[p].op = promises[p].op
    BY <1>0, <2>2, <2>3, ZenonT(30) DEF Resolved, PromiseRec
  <2> HIDE DEF r
  <2>5. PICK P : P = {r}
    OBVIOUS
  <2>6. P \subseteq {Head(channel).promise} /\ P = {Head(channel).promise}
    BY <2>5 DEF r
  <2> QED
    BY <1>0, <2>1, <2>4, <2>5, <2>6, FlightsTaken
<1>11. ASSUME Outside PROVE Flights'
  BY <1>0, <1>11, FlightsOutside
<1> QED
  BY <1>2, <1>3, <1>5, <1>6, <1>7, <1>8, <1>9, <1>10, <1>11, StepIs DEF Move

-----------------------------------------------------------------------------
(* Temporary files.                                                          *)

(* Taking the head keeps its file, if it has one.                            *)
LEMMA FilesTaken ==
    ASSUME Shape, FilesOnTheirWay, channel # <<>>, channel' = Tail(channel),
           Head(channel).kind = "temp" /\ Head(channel).ok
              => files' = [files EXCEPT !.kept = @ \cup {Head(channel).op}],
           ~(Head(channel).kind = "temp" /\ Head(channel).ok) => files' = files
    PROVE  /\ files' \in [made : SUBSET Nat, kept : SUBSET Nat]
           /\ \A f \in files'.made \ files'.kept : \E i \in 1..Len(channel') :
                 channel'[i].op = f /\ channel'[i].kind = "temp" /\ channel'[i].ok
<1>0. files \in [made : SUBSET Nat, kept : SUBSET Nat] /\ Head(channel).op \in Nat
  <2>1. Head(channel) \in Completion
    BY ChannelIs, ElementOfSeq DEF Shape
  <2> QED
    BY <2>1 DEF FilesOnTheirWay, Completion
<1>1. files' \in [made : SUBSET Nat, kept : SUBSET Nat]
  BY <1>0
<1>2. SUFFICES ASSUME NEW f \in files'.made \ files'.kept
             PROVE  \E i \in 1..Len(channel') :
                      channel'[i].op = f /\ channel'[i].kind = "temp" /\ channel'[i].ok
  BY <1>1
<1>3. f \in files.made /\ f \notin files.kept
  BY <1>0
<1>4. PICK i \in 1..Len(channel) :
        channel[i].op = f /\ channel[i].kind = "temp" /\ channel[i].ok
  BY <1>3 DEF FilesOnTheirWay
<1>5. i # 1
  <2>1. ASSUME i = 1 PROVE FALSE
    <3>1. Head(channel) = channel[i]
      BY <2>1, ChannelIs DEF Shape
    <3>2. f \in files'.kept
      BY <1>0, <1>4, <3>1
    <3> QED
      BY <3>2
  <2> QED
    BY <2>1
<1>6. i - 1 \in 1..Len(channel') /\ channel'[i - 1] = channel[i]
  BY <1>5, ChannelIs DEF Shape
<1> QED
  BY <1>4, <1>6, <1>1

(* A file that has been made is kept or on its way.                          *)
LEMMA FilesStep ==
    ASSUME IInv, [Next]_vars
    PROVE  FilesOnTheirWay'
<1>0. Shape /\ Flights /\ FilesOnTheirWay
  BY DEF IInv
<1>1. ASSUME phase' = "live", UNCHANGED <<files, channel>>
      PROVE  FilesOnTheirWay'
  BY <1>0, <1>1 DEF FilesOnTheirWay
<1>2. ASSUME TaskMove \/ Yields \/ Suspends \/ Calls \/ Sends \/ Notifies \/ Freezes
             \/ BreaksOff \/ TakesError \/ GetsStuck \/ \E t : TakesTask(t)
      PROVE  FilesOnTheirWay'
  BY <1>1, <1>2
  DEF TaskMove, GoesOn, Dies, Returns, Yields, Suspends, Calls, Sends, Notifies, Freezes,
      BreaksOff, TakesError, GetsStuck, TakesTask, Idle, Home, Own
<1>3. ASSUME Still \/ Resumes PROVE FilesOnTheirWay'
  BY <1>0, <1>3 DEF Still, Resumes, FilesOnTheirWay
<1>4. ASSUME Begins PROVE FilesOnTheirWay'
  BY <1>1, <1>4 DEF Begins
<1>5. ASSUME Takes PROVE FilesOnTheirWay'
  <2>1. /\ files' \in [made : SUBSET Nat, kept : SUBSET Nat]
        /\ \A f \in files'.made \ files'.kept : \E i \in 1..Len(channel') :
              channel'[i].op = f /\ channel'[i].kind = "temp" /\ channel'[i].ok
    BY <1>0, <1>5, FilesTaken DEF Takes
  <2> QED
    BY <1>5, <2>1 DEF Takes, FilesOnTheirWay
<1>6. ASSUME NEW o \in running, EnterHost(o), UNCHANGED <<phase, dropWaits>>
      PROVE  FilesOnTheirWay'
  <2> DEFINE n == [o EXCEPT !.at = "inside"]
  <2>1. o \in Operation
    BY <1>0 DEF Shape
  <2>2. n.promise = o.promise /\ n.kind = o.kind
    BY <2>1 DEF Operation
  <2>3. running' = (running \ {o}) \cup {n} /\ channel' = channel /\ files' = files
    BY <1>6 DEF EnterHost
  <2> HIDE DEF n
  <2>4. phase' # "live" => \A x \in running' : x.kind = "temp" => x.promise \in dropWaits'
    BY <1>0, <1>6, <2>2, <2>3 DEF FilesOnTheirWay
  <2> QED
    BY <1>0, <1>6, <2>3, <2>4 DEF FilesOnTheirWay
<1>7. ASSUME NEW o \in running, Complete(o), UNCHANGED <<phase, dropWaits>>
      PROVE  FilesOnTheirWay'
  <2>1. PICK ok \in BOOLEAN :
           /\ channel' = Append(channel, [op |-> o.op, promise |-> o.promise,
                                          kind |-> o.kind, ok |-> ok])
           /\ files' = IF o.kind = "temp" /\ ok
                       THEN [files EXCEPT !.made = files.made \cup {o.op}] ELSE files
    BY <1>7 DEF Complete
  <2> DEFINE c == [op |-> o.op, promise |-> o.promise, kind |-> o.kind, ok |-> ok]
  <2>2. /\ c \in Completion /\ c.op = o.op /\ c.promise = o.promise /\ c.kind = o.kind
        /\ c.ok = ok /\ o.op \in Nat
    BY <1>0 DEF Shape, Operation, Completion
  <2>3. running' = running \ {o} /\ channel' = Append(channel, c)
    BY <1>7, <2>1 DEF Complete
  <2> HIDE DEF c
  <2>4. /\ Len(channel') = Len(channel) + 1 /\ Len(channel) \in Nat
        /\ \A i \in 1..Len(channel) : channel'[i] = channel[i]
        /\ channel'[Len(channel) + 1] = c
    BY <1>0, <2>2, <2>3, AppendIs, LenProperties DEF Shape
  <2>5. /\ \A i \in 1..Len(channel') : i \in 1..Len(channel) \/ i = Len(channel) + 1
        /\ 1..Len(channel) \subseteq 1..Len(channel')
        /\ Len(channel) + 1 \in 1..Len(channel')
    BY <2>4
  <2>6. files \in [made : SUBSET Nat, kept : SUBSET Nat]
    BY <1>0 DEF FilesOnTheirWay
  <2>7. files' \in [made : SUBSET Nat, kept : SUBSET Nat]
    BY <2>1, <2>2, <2>6
  <2>8. ASSUME NEW f \in files'.made \ files'.kept
        PROVE  \E i \in 1..Len(channel') :
                 channel'[i].op = f /\ channel'[i].kind = "temp" /\ channel'[i].ok
    <3>1. CASE f \in files.made \ files.kept
      <4>1. PICK i \in 1..Len(channel) :
               channel[i].op = f /\ channel[i].kind = "temp" /\ channel[i].ok
        BY <1>0, <3>1 DEF FilesOnTheirWay
      <4> QED
        BY <2>4, <2>5, <4>1
    <3>2. CASE f = o.op /\ o.kind = "temp" /\ ok
      BY <2>2, <2>4, <2>5, <3>2
    <3> QED
      BY <2>1, <2>6, <2>8, <3>1, <3>2
  <2>9. ASSUME phase' # "live"
        PROVE  /\ \A x \in running' : x.kind = "temp" => x.promise \in dropWaits'
               /\ \A i \in 1..Len(channel') :
                     channel'[i].kind = "temp" => channel'[i].promise \in dropWaits'
    <3>1. /\ \A x \in running : x.kind = "temp" => x.promise \in dropWaits
          /\ \A i \in 1..Len(channel) :
                channel[i].kind = "temp" => channel[i].promise \in dropWaits
      BY <1>0, <1>7, <2>9 DEF FilesOnTheirWay
    <3> QED
      BY <1>7, <2>2, <2>3, <2>4, <2>5, <3>1
  <2> QED
    BY <1>0, <1>7, <2>7, <2>8, <2>9 DEF FilesOnTheirWay
<1>8. ASSUME DropBegins, UNCHANGED <<hosts, promises>> PROVE FilesOnTheirWay'
  <2>1. /\ dropWaits' = {p \in DOMAIN hosts : hosts[p] = "temp"} /\ channel' = channel
        /\ files' = files /\ phase' = "dropping"
        /\ running' = {IF o.kind = "app" THEN o ELSE [o EXCEPT !.canceled = TRUE]
                          : o \in running}
    BY <1>8 DEF DropBegins
  <2>2. \A x \in running' : \E o \in running : x.promise = o.promise /\ x.kind = o.kind
    BY <1>0, <2>1 DEF Shape, Operation
  <2>3. \A x \in running' : x.kind = "temp" => x.promise \in dropWaits'
    BY <1>0, <2>1, <2>2 DEF Flights, Expected
  <2>4. \A i \in 1..Len(channel') :
           channel'[i].kind = "temp" => channel'[i].promise \in dropWaits'
    BY <1>0, <2>1 DEF Flights, Expected
  <2> QED
    BY <1>0, <2>1, <2>3, <2>4 DEF FilesOnTheirWay
<1>9. ASSUME DropReceives PROVE FilesOnTheirWay'
  <2> DEFINE c == Head(channel)
  <2>1. /\ phase = "dropping" /\ channel # <<>> /\ channel' = Tail(channel)
        /\ dropWaits' = dropWaits \ {c.promise} /\ running' = running /\ phase' = phase
        /\ files' = IF c.promise \in dropWaits /\ c.kind = "temp" /\ c.ok
                    THEN [files EXCEPT !.kept = files.kept \cup {c.op}] ELSE files
    BY <1>9 DEF DropReceives
  <2>2. /\ c = channel[1] /\ 1 \in 1..Len(channel)
        /\ \A i \in 1..Len(channel') : /\ i + 1 \in 1..Len(channel) /\ i + 1 # 1
                                       /\ channel'[i] = channel[i + 1]
    <3>1. /\ Len(channel) \in Nat \ {0} /\ Len(channel') = Len(channel) - 1
          /\ c = channel[1]
          /\ \A i \in 1..Len(channel') : i + 1 \in 2..Len(channel)
                                         /\ channel'[i] = channel[i + 1]
      BY <1>0, <2>1, ChannelIs DEF Shape
    <3> QED
      BY <3>1
  <2>3. c.kind = "temp" => c.promise \in dropWaits
    BY <1>0, <2>1, <2>2 DEF FilesOnTheirWay
  <2>4. /\ files' \in [made : SUBSET Nat, kept : SUBSET Nat]
        /\ \A f \in files'.made \ files'.kept : \E i \in 1..Len(channel') :
              channel'[i].op = f /\ channel'[i].kind = "temp" /\ channel'[i].ok
    BY <1>0, <2>1, <2>3, FilesTaken
  <2> HIDE DEF c
  <2>5. \A o \in running' : o.kind = "temp" => o.promise \in dropWaits'
    BY <1>0, <2>1, <2>2 DEF FilesOnTheirWay, Flights
  <2>6. ASSUME NEW i \in 1..Len(channel'), channel'[i].kind = "temp"
        PROVE  channel'[i].promise \in dropWaits'
    <3>1. PICK k \in 1..Len(channel) : k # 1 /\ channel'[i] = channel[k]
      BY <2>2
    <3>2. channel[k].promise \in dropWaits /\ channel[k].promise # c.promise
      BY <1>0, <2>1, <2>2, <2>6, <3>1 DEF FilesOnTheirWay, Flights
    <3> QED
      BY <2>1, <3>1, <3>2
  <2> QED
    BY <2>1, <2>4, <2>5, <2>6 DEF FilesOnTheirWay
<1>10. ASSUME DropEnds PROVE FilesOnTheirWay'
  BY <1>0, <1>10 DEF DropEnds, FilesOnTheirWay
<1>11. ASSUME Outside PROVE FilesOnTheirWay'
  BY <1>6, <1>7, <1>8, <1>9, <1>10, <1>11 DEF Outside, Beside, vmVars, Thread, Drop
<1> QED
  BY <1>2, <1>3, <1>4, <1>5, <1>11, StepIs DEF Move

-----------------------------------------------------------------------------
(* Nobody is lost.                                                           *)

(* The events of two tasks differ.                                           *)
LEMMA EventsDiffer ==
    ASSUME NEW t, NEW u, t # u
    PROVE  Task(t) # Task(u)
BY DEF Task

(* Who stood somewhere still does, unless he is the one that acts.           *)
SomewhereNext(t) ==
    \/ Contains(ready', Task(t)) \/ Contains(paused.ready', Task(t))
    \/ \E p \in 1..Len(promises') : Contains(promises'[p].waiters, t)

(* Waiters of a promise that is resolved are in the line, the others stay.   *)
LEMMA ResolvedSomewhere ==
    ASSUME Shape, NEW r \in 1..Len(promises), NEW st, NEW q, Resolved(r, st, q),
           paused' = paused, NEW t, Somewhere(t), Contains(ready, Task(t)) => Contains(q, Task(t))
    PROVE  SomewhereNext(t)
<1>1. CASE Contains(ready, Task(t)) \/ Contains(paused.ready, Task(t))
  BY <1>1 DEF Resolved, SomewhereNext
<1>2. CASE \E p \in 1..Len(promises) : Contains(promises[p].waiters, t)
  <2>1. PICK p \in 1..Len(promises) : Contains(promises[p].waiters, t)
    BY <1>2
  <2>2. CASE p = r
    BY <2>1, <2>2 DEF Resolved, SomewhereNext
  <2>3. CASE p # r
    BY <2>1, <2>3 DEF Resolved, SomewhereNext
  <2> QED
    BY <2>2, <2>3
<1> QED
  BY <1>1, <1>2 DEF Somewhere

(* Where no promise loses a waiter, only the line matters.                   *)
LEMMA WaitersSomewhere ==
    ASSUME Len(promises) \in Nat, Len(promises') \in Nat, Len(promises') >= Len(promises),
           NEW t, Somewhere(t), paused' = paused,
           \A p \in 1..Len(promises) :
              Contains(promises[p].waiters, t) => Contains(promises'[p].waiters, t),
           Contains(ready, Task(t)) => Contains(ready', Task(t))
    PROVE  SomewhereNext(t)
<1>1. 1..Len(promises) \subseteq 1..Len(promises')
  OBVIOUS
<1> QED
  BY <1>1 DEF Somewhere, SomewhereNext

(* A resolved promise has no waiters.                                        *)
Emptied == \A p \in 1..Len(promises') :
              promises'[p].state # "pending" => promises'[p].waiters = <<>>
(* After every step a promise that is not pending has no waiters.            *)
LEMMA EmptiedStep ==
    ASSUME IInv, [Next]_vars
    PROVE  Emptied
<1>0. /\ Shape /\ Produced /\ Flights /\ Len(promises) \in Nat /\ <<>> \in Seq(Nat)
      /\ \A p \in 1..Len(promises) : promises[p] \in PromiseRec
      /\ \A p \in 1..Len(promises) : promises[p].state # "pending" => promises[p].waiters = <<>>
  BY ShapeIs, EmptySeq DEF IInv, NobodyLost, Pending
<1>1. ASSUME promises' = promises PROVE Emptied
  BY <1>0, <1>1 DEF Emptied
<1>2. ASSUME NEW r \in 1..Len(promises), NEW st, NEW q, Resolved(r, st, q) PROVE Emptied
  BY <1>0, <1>2, ZenonT(30) DEF Emptied, Resolved, PromiseRec
<1>3. ASSUME NEW st \in {"pending", "ok", "err"}, NEW ws \in Seq(Nat),
             st # "pending" => ws = <<>>,
             promises' = Append(promises, NewPromise(st, ws))
      PROVE  Emptied
  <2>1. /\ Len(promises') = Len(promises) + 1 /\ promises'[Fresh] = NewPromise(st, ws)
        /\ \A p \in 1..Len(promises) : promises'[p] = promises[p]
    BY <1>0, <1>3, OneMorePromise
  <2>2. NewPromise(st, ws).state = st /\ NewPromise(st, ws).waiters = ws
    BY DEF NewPromise
  <2>3. \A p \in 1..Len(promises') : p \in 1..Len(promises) \/ p = Fresh
    BY <1>0, <2>1 DEF Fresh
  <2> QED
    BY <1>0, <1>3, <2>1, <2>2, <2>3 DEF Emptied
<1>4. ASSUME TaskMove PROVE Emptied
  <2>1. PICK t, q : GoesOn(t, q) \/ Dies(t, q) \/ Returns(t, q)
    BY <1>4 DEF TaskMove
  <2>2. CASE Returns(t, q)
    <3>1. PICK st \in {"ok", "err"} : Resolved(tasks[t].promise, st, q)
      BY <2>2 DEF Returns
    <3>2. tasks[t].promise \in 1..Len(promises)
      BY <1>0, <2>2 DEF Produced, Returns, Acts
    <3> QED
      BY <1>2, <3>1, <3>2
  <2> QED
    BY <1>1, <2>1, <2>2 DEF GoesOn, Dies
<1>5. ASSUME Suspends PROVE Emptied
  BY <1>0, <1>5 DEF Suspends, Emptied, Pending
<1>6. ASSUME Calls PROVE Emptied
  BY <1>0, <1>1, <1>3, <1>6 DEF Calls
<1>7. ASSUME Sends \/ Notifies \/ Freezes PROVE Emptied
  <2>1. Asked(<<>>) \/ Asked(<<current>>) \/ Refused
    BY <1>7 DEF Sends, Notifies, Freezes
  <2>2. <<current>> \in Seq(Nat)
    <3>1. current \in Nat
      BY <1>0, <1>7, ShapeIs DEF Sends, Notifies, Freezes, Steps
    <3> QED
      BY <3>1, SingletonIs
  <2> QED
    BY <1>0, <1>3, <2>1, <2>2 DEF Asked, Refused
<1>8. ASSUME \/ Yields \/ BreaksOff \/ TakesError \/ GetsStuck \/ Still \/ Begins \/ Outside
             \/ \E t : TakesTask(t)
      PROVE  Emptied
  BY <1>1, <1>8 DEF Yields, BreaksOff, TakesError, GetsStuck, Still, TakesTask, Idle, Begins,
                    Outside, Beside, vmVars
<1>9. ASSUME Resumes PROVE Emptied
  BY <1>0, <1>9 DEF Resumes, Emptied
<1>10. ASSUME Takes PROVE Emptied
  <2>1. Head(channel).promise \in 1..Len(promises)
    <3>1. 1 \in 1..Len(channel) /\ Head(channel) = channel[1]
      BY <1>0, <1>10, EmptySeq DEF Takes, Shape
    <3> QED
      BY <1>0, <3>1 DEF Flights, Expected, Shape
  <2>2. PICK st \in {"ok", "err"} : Resolved(Head(channel).promise, st, ready)
    BY <1>10 DEF Takes
  <2> QED
    BY <1>2, <2>1, <2>2
<1> QED
  BY <1>4, <1>5, <1>6, <1>7, <1>8, <1>9, <1>10, StepIs DEF Move

(* A live task that does not run still stands somewhere.                     *)
LEMMA SomewhereStep ==
    ASSUME IInv, [Next]_vars,
           verdict' \notin {"canceled", "terminated", "broken"}, ~canceled',
           NEW t \in 1..Len(tasks'), tasks'[t].live, t \notin {current', paused'.task}
    PROVE  SomewhereNext(t)
<1>0. /\ Shape /\ Produced /\ Flights /\ Turns /\ Len(promises) \in Nat /\ Len(tasks) \in Nat
      /\ <<>> \in Seq(Nat) /\ ready \in Seq(Event) /\ current \in 0..Len(tasks)
      /\ canceled \in BOOLEAN /\ paused.task \in Nat
  BY ShapeIs, EmptySeq DEF IInv, Shape
<1>1. ASSUME NEW u \in 1..Len(tasks), tasks[u].live, u \notin {current, paused.task},
             verdict \notin {"canceled", "terminated", "broken"}, ~canceled
      PROVE  Somewhere(u)
  BY <1>1 DEF IInv, NobodyLost
<1>2. ASSUME TaskMove PROVE SomewhereNext(t)
  <2>1. PICK u, q : GoesOn(u, q) \/ Dies(u, q) \/ Returns(u, q)
    BY <1>2 DEF TaskMove
  <2>2. /\ Acts(u, q) /\ Home /\ u \in 1..Len(tasks) /\ paused' = paused /\ canceled' = canceled
        /\ Holds(q) \/ \E st \in {"ok", "err"} : Fn(u) /\ Resolved(tasks[u].promise, st, q)
        /\ verdict = "none"
    BY <2>1 DEF GoesOn, Dies, Returns, Acts, Home, Own, Holds
  <2>3. AllSame \/ OneEnds(u)
    BY <1>0, <2>1, TasksMove
  <2>4. t # u /\ t \in 1..Len(tasks) /\ tasks[t].live
    BY <2>1, <2>3, TasksMove, <1>0 DEF GoesOn, Dies, Returns, AllSame, OneEnds, Same
  <2>5. t # current /\ (Contains(ready, Task(t)) => Contains(q, Task(t)))
    BY <2>2, <2>4, EventsDiffer DEF Acts
  <2>6. Somewhere(t)
    BY <1>1, <2>2, <2>4, <2>5
  <2>7. CASE Returns(u, q)
    <3>1. PICK st \in {"ok", "err"} : Resolved(tasks[u].promise, st, q)
      BY <2>7 DEF Returns
    <3>2. tasks[u].promise \in 1..Len(promises)
      BY <1>0, <2>2, <2>7 DEF Produced, Returns
    <3> QED
      BY <1>0, <2>2, <2>5, <2>6, <3>1, <3>2, ResolvedSomewhere
  <2>8. CASE promises' = promises /\ Holds(q)
    BY <1>0, <2>2, <2>5, <2>6, <2>8, WaitersSomewhere DEF Holds
  <2>9. CASE GoesOn(u, q)
    BY <2>8, <2>9, <2>2 DEF GoesOn, Holds, Acts
  <2> QED
    BY <2>1, <2>7, <2>8, <2>9 DEF Dies
(* The running task steps, and stays current or stands in the line.          *)
<1>3. ASSUME tasks[current].live, verdict = "none", Own, current \in 1..Len(tasks),
             t \in 1..Len(tasks), Same(t),
             \/ t = current /\ (current' = current \/ Contains(ready', Task(current)))
             \/ t # current,
             promises' = promises \/ \E st, ws : promises' = Append(promises, NewPromise(st, ws))
                /\ st \in {"pending", "ok", "err"} /\ ws \in Seq(Nat),
             Holds(ready)
      PROVE  SomewhereNext(t)
  <2>1. CASE t = current
    BY <1>3, <2>1 DEF SomewhereNext
  <2>2. CASE t # current
    <3>1. Somewhere(t)
      BY <1>1, <1>3, <2>2 DEF Own, Same
    <3>2. /\ Len(promises') \in Nat /\ Len(promises') >= Len(promises)
          /\ \A p \in 1..Len(promises) : promises'[p] = promises[p]
      <4>1. CASE promises' = promises
        BY <1>0, <4>1
      <4>2. CASE \E st, ws : promises' = Append(promises, NewPromise(st, ws))
                   /\ st \in {"pending", "ok", "err"} /\ ws \in Seq(Nat)
        BY <1>0, <4>2, OneMorePromise
      <4> QED
        BY <1>3, <4>1, <4>2
    <3> QED
      BY <1>0, <1>3, <3>1, <3>2, WaitersSomewhere DEF Own, Holds
  <2> QED
    BY <2>1, <2>2
<1>4. ASSUME Yields PROVE SomewhereNext(t)
  <2>1. AllSame
    BY <1>0, <1>4, TasksMove
  <2>2. t \in 1..Len(tasks) /\ Same(t)
    BY <2>1 DEF AllSame
  <2> QED
    BY <1>3, <1>4, <2>2 DEF Yields, Home, Steps
<1>5. ASSUME Calls PROVE SomewhereNext(t)
  <2>1. PICK c \in Seq(Op) : OneMore(c, "promise", Fresh) \/ OneMore(c, "detached", 0)
    BY <1>0, <1>5, TasksMove
  <2>2. CASE t = Len(tasks) + 1
    BY <1>5, <2>2 DEF Calls, SomewhereNext
  <2>3. CASE t \in 1..Len(tasks)
    <3>1. Same(t)
      BY <2>1, <2>3 DEF OneMore
    <3>2. \/ promises' = Append(promises, NewPromise("pending", <<>>))
          \/ promises' = promises
      BY <1>5 DEF Calls
    <3> QED
      BY <1>0, <1>3, <1>5, <2>3, <3>1, <3>2 DEF Calls, Home, Steps
  <2> QED
    BY <1>0, <2>1, <2>2, <2>3 DEF OneMore
<1>6. ASSUME Sends \/ Notifies PROVE SomewhereNext(t)
  <2>1. \/ promises' = Append(promises, NewPromise("pending", <<>>))
        \/ \E st \in {"ok", "err"} : promises' = Append(promises, NewPromise(st, <<>>))
    BY <1>6 DEF Sends, Notifies, Asked, Refused
  <2>2. Own /\ Steps /\ current' = current /\ Holds(ready)
    BY <1>0, <1>6 DEF Sends, Notifies, Stays, Holds
  <2>3. CASE t \in 1..Len(tasks)
    <3>1. Same(t)
      BY <1>0, <1>6, <2>3, TasksMove DEF AllSame, OneMore
    <3> QED
      BY <1>0, <1>3, <2>1, <2>2, <2>3, <3>1 DEF Steps
  <2>4. CASE t \notin 1..Len(tasks)
    <3>1. Notifies
      BY <1>0, <1>6, <2>4, TasksMove DEF AllSame
    <3>2. t = Len(tasks) + 1
      BY <1>0, <2>4, <3>1, TasksMove DEF OneMore
    <3> QED
      BY <3>1, <3>2 DEF Notifies, SomewhereNext
  <2> QED
    BY <2>3, <2>4
<1>7. ASSUME Suspends PROVE SomewhereNext(t)
  <2>1. PICK p \in 1..Len(promises) :
           /\ promises' \in Seq(PromiseRec) /\ Len(promises') = Len(promises)
           /\ \A x \in 1..Len(promises) : x # p => promises'[x] = promises[x]
           /\ Contains(promises'[p].waiters, current)
           /\ \A u : Contains(promises[p].waiters, u) => Contains(promises'[p].waiters, u)
    BY <1>7 DEF Suspends
  <2>2. /\ tasks' = tasks /\ ready' = ready /\ paused' = paused /\ verdict = "none"
        /\ canceled' = canceled
    BY <1>7 DEF Suspends, Home, Own, Steps
  <2>3. CASE t = current
    BY <2>1, <2>3 DEF SomewhereNext
  <2>4. CASE t # current
    <3>1. Somewhere(t)
      BY <1>1, <2>2, <2>4
    <3>2. \A x \in 1..Len(promises) :
             Contains(promises[x].waiters, t) => Contains(promises'[x].waiters, t)
      BY <2>1
    <3> QED
      BY <1>0, <2>1, <2>2, <3>1, <3>2, WaitersSomewhere
  <2> QED
    BY <2>3, <2>4
<1>8. ASSUME Freezes PROVE SomewhereNext(t)
  <2>1. /\ Own /\ Steps /\ tasks' = tasks /\ ready' = ready /\ <<current>> \in Seq(Nat)
        /\ promises' = Append(promises, NewPromise("pending", <<current>>))
    BY <1>0, <1>8, SingletonIs DEF Freezes, Asked, Steps
  <2>2. /\ Len(promises') = Len(promises) + 1
        /\ \A p \in 1..Len(promises) : promises'[p] = promises[p]
        /\ promises'[Fresh].waiters = <<current>>
    <3>1. /\ Len(promises') = Len(promises) + 1
          /\ \A p \in 1..Len(promises) : promises'[p] = promises[p]
          /\ promises'[Fresh] = NewPromise("pending", <<current>>)
      BY <1>0, <2>1, OneMorePromise
    <3>2. NewPromise("pending", <<current>>).waiters = <<current>>
      BY DEF NewPromise
    <3> QED
      BY <3>1, <3>2
  <2>3. CASE t = current
    <3>1. Contains(<<current>>, current)
      BY SingletonIs
    <3>2. Fresh \in 1..Len(promises')
      BY <1>0, <2>2 DEF Fresh
    <3> QED
      BY <2>2, <2>3, <3>1, <3>2 DEF SomewhereNext
  <2>4. CASE t # current
    <3>1. Somewhere(t)
      BY <1>1, <2>1, <2>4 DEF Own, Steps
    <3> QED
      BY <1>0, <2>1, <2>2, <3>1, WaitersSomewhere DEF Own
  <2> QED
    BY <2>3, <2>4
<1>9. ASSUME BreaksOff PROVE FALSE
  BY <1>9 DEF BreaksOff
<1>10. ASSUME TakesError \/ GetsStuck \/ \E u : TakesTask(u) PROVE SomewhereNext(t)
  <2>1. /\ tasks' = tasks /\ promises' = promises /\ paused' = paused /\ canceled' = canceled
        /\ verdict = "none" /\ current = 0
    BY <1>10 DEF TakesError, GetsStuck, TakesTask, Idle, Home, Own
  <2>2. Contains(ready, Task(t)) => Contains(ready', Task(t))
    <3>1. CASE \E u : TakesTask(u)
      <4>1. PICK u : TakesTask(u)
        BY <3>1
      <4>2. t # u
        BY <4>1 DEF TakesTask
      <4> QED
        BY <4>1, <4>2, EventsDiffer DEF TakesTask
    <3> QED
      BY <1>10, <3>1 DEF TakesError, GetsStuck
  <2>3. Somewhere(t)
    BY <1>0, <1>1, <2>1
  <2> QED
    BY <1>0, <2>1, <2>2, <2>3, WaitersSomewhere
<1>11. ASSUME Still \/ Outside PROVE SomewhereNext(t)
  <2>1. /\ UNCHANGED <<tasks, current, ready, promises, paused, verdict>>
        /\ canceled => canceled'
    BY <1>11 DEF Still, Outside, Beside, vmVars
  <2>2. Somewhere(t)
    BY <1>1, <2>1
  <2> QED
    BY <2>1, <2>2 DEF Somewhere, SomewhereNext
<1>12. ASSUME Begins PROVE SomewhereNext(t)
  <2>1. PICK c \in Seq(Op) : OneMore(c, "root", 0)
    BY <1>0, <1>12, TasksMove
  <2>2. /\ paused'.task = current /\ paused'.ready = ready /\ promises' = promises
        /\ Contains(ready', Task(Len(tasks) + 1)) /\ verdict = "none" /\ canceled' = canceled
        /\ paused.ready = <<>> /\ paused.task = 0
    BY <1>12 DEF Begins, Evaluating, NotPaused
  <2>3. CASE t = Len(tasks) + 1
    BY <2>2, <2>3 DEF SomewhereNext
  <2>4. CASE t \in 1..Len(tasks)
    <3>1. Somewhere(t)
      BY <1>1, <2>1, <2>2, <2>4 DEF OneMore, Same
    <3>2. ~Contains(<<>>, Task(t))
      BY DEF Contains
    <3> QED
      BY <2>2, <3>1, <3>2 DEF Somewhere, SomewhereNext
  <2> QED
    BY <1>0, <2>1, <2>3, <2>4 DEF OneMore
<1>13. ASSUME Resumes PROVE SomewhereNext(t)
  <2>1. OneEnds(paused.floor)
    BY <1>0, <1>13, TasksMove
  <2>2. t \in 1..Len(tasks) /\ t # paused.floor /\ tasks[t].live
    BY <2>1 DEF OneEnds, Same
  <2>3. /\ current = 0 /\ t # paused.task /\ canceled' = canceled
        /\ verdict \notin {"canceled", "terminated", "broken"}
    BY <1>0, <1>13 DEF Resumes, Turns
  <2>4. Somewhere(t)
    BY <1>0, <1>1, <2>2, <2>3
  <2>5. Contains(ready, Task(t)) \/ Contains(paused.ready, Task(t))
           => Contains(ready', Task(t))
    BY <1>13, <2>2, EventsDiffer DEF Resumes
  <2>6. \A p \in 1..Len(promises) :
           /\ p \in 1..Len(promises')
           /\ Contains(promises[p].waiters, t) => Contains(promises'[p].waiters, t)
    BY <1>13, <2>2 DEF Resumes
  <2> QED
    BY <2>4, <2>5, <2>6 DEF Somewhere, SomewhereNext
<1>14. ASSUME Takes PROVE SomewhereNext(t)
  <2>1. Head(channel).promise \in 1..Len(promises)
    <3>1. 1 \in 1..Len(channel) /\ Head(channel) = channel[1]
      BY <1>0, <1>14, EmptySeq DEF Takes, Shape
    <3> QED
      BY <1>0, <3>1 DEF Flights, Expected, Shape
  <2>2. PICK st \in {"ok", "err"} : Resolved(Head(channel).promise, st, ready)
    BY <1>14 DEF Takes
  <2>3. Somewhere(t) /\ paused' = paused
    BY <1>1, <1>14 DEF Takes
  <2> QED
    BY <1>0, <2>1, <2>2, <2>3, ResolvedSomewhere
<1> QED
  BY <1>2, <1>4, <1>5, <1>6, <1>7, <1>8, <1>9, <1>10, <1>11, <1>12, <1>13, <1>14, StepIs DEF Move

(* Nothing moves where an execution is stuck.                                *)
LEMMA StuckStep ==
    ASSUME IInv, [Next]_vars, verdict' = "stuck", ~Evaluating', ~canceled'
    PROVE  ready' = <<>> /\ DOMAIN hosts' = {} /\ current' = 0
<1>0. /\ Shape /\ FrozenWaits /\ NobodyLost /\ canceled \in BOOLEAN
      /\ ready \in Seq(Event) /\ DOMAIN ready = 1..Len(ready)
  BY ShapeIs DEF IInv, Shape
<1>1. CASE GetsStuck
  <2>1. /\ Eligible = {} /\ DOMAIN hosts = {} /\ UNCHANGED <<ready, hosts, paused, canceled>>
        /\ current' = 0 /\ ~canceled /\ ~Evaluating
    BY <1>1 DEF GetsStuck, Idle, Home, Own, Evaluating
  <2>2. ~Frozen
    <3> SUFFICES ASSUME Frozen PROVE FALSE
      OBVIOUS
    <3>1. PICK i \in 1..Len(ready) : ready[i] = Task(syncWait.task)
      BY <1>0, <2>1 DEF FrozenWaits, Contains
    <3>2. i \in Eligible
      BY <1>0, <3>1 DEF Eligible
    <3> QED
      BY <2>1, <3>2
  <2>3. DOMAIN ready = {}
    BY <2>1, <2>2 DEF Eligible
  <2>4. Len(ready) = 0
    <3>1. Len(ready) \in Nat
      BY <1>0, LenProperties
    <3>2. 1 \notin 1..Len(ready)
      BY <1>0, <2>3
    <3> QED
      BY <3>1, <3>2
  <2>5. ready = <<>>
    BY <1>0, <2>4, EmptySeq
  <2> QED
    BY <2>1, <2>5
<1>2. CASE Still \/ Outside
  <2>1. /\ UNCHANGED <<ready, hosts, current, paused, verdict>> /\ ~canceled
    BY <1>0, <1>2 DEF Still, Outside, Beside, vmVars
  <2>2. verdict = "stuck" /\ ~Evaluating
    BY <2>1 DEF Evaluating
  <2>3. ready = <<>> /\ DOMAIN hosts = {} /\ current = 0
    BY <1>0, <2>1, <2>2 DEF NobodyLost
  <2> QED
    BY <2>1, <2>3
<1>3. ~(\/ TaskMove \/ Yields \/ Suspends \/ Calls \/ Sends \/ Notifies \/ Freezes \/ BreaksOff
        \/ TakesError \/ Begins \/ Resumes \/ Takes \/ \E t : TakesTask(t))
  BY DEF TaskMove, GoesOn, Dies, Returns, Acts, Yields, Suspends, Calls, Sends, Notifies, Freezes,
         Steps, Stays, Left, BreaksOff, TakesError, Begins, Resumes, Takes, TakesTask
<1> QED
  BY <1>1, <1>2, <1>3, StepIs DEF Move

(* Nobody is lost by a step.                                                 *)
LEMMA LostStep ==
    ASSUME IInv, [Next]_vars
    PROVE  NobodyLost'
<1>1. promises' \in Seq(PromiseRec)
  BY ShapeStep DEF Shape
<1>2. \A p \in 1..Len(promises') : ~PendingNext(p) => promises'[p].waiters = <<>>
  BY <1>1, EmptiedStep, LenProperties DEF Emptied, PendingNext
<1>3. verdict' \notin {"canceled", "terminated", "broken"} /\ ~canceled' =>
          \A t \in 1..Len(tasks') :
             tasks'[t].live /\ t \notin {current', paused'.task} => SomewhereNext(t)
  BY SomewhereStep
<1>4. verdict' = "stuck" /\ ~Evaluating' /\ ~canceled' =>
          ready' = <<>> /\ DOMAIN hosts' = {} /\ current' = 0
  BY StuckStep
<1> QED
  BY <1>2, <1>3, <1>4 DEF NobodyLost, Pending, PendingNext, Somewhere, SomewhereNext

-----------------------------------------------------------------------------
(* Nobody stands in two places.                                              *)

FreeNext(t) == t \in 1..Len(tasks') /\ tasks'[t].live /\ t \notin {current', paused'.task}
LegitNext(e) == IF e.is = "task" THEN FreeNext(e.of)
                ELSE e.of \in 1..Len(tasks') /\ ~tasks'[e.of].live
WaitsNext(t, p) == Contains(promises'[p].waiters, t)

(* No task but x begins or ends to live, and none that is over comes back.   *)
LivesOn(x) ==
    \A u \in 1..Len(tasks) : /\ u \in 1..Len(tasks')
                             /\ u # x => tasks'[u].live = tasks[u].live
                             /\ ~tasks[u].live => ~tasks'[u].live

(* Who waits: those who did, but x and those who come to the line; and x,    *)
(* if it begins to wait for r.                                               *)
WaitersTurn(x, fresh, r) ==
    /\ \A p \in 1..Len(promises') : Single(promises'[p].waiters)
    /\ \A p \in 1..Len(promises') : \A t : WaitsNext(t, p) =>
          \/ p \in 1..Len(promises) /\ WaitsFor(t, p) /\ t # x /\ Task(t) \notin fresh
          \/ t = x /\ p = r /\ FreeNext(x) /\ Task(x) \notin fresh

(* A step in which x is the task that acts, if any does.                     *)
Turned(gone, x, fresh, late, r) ==
    /\ Moved(gone, fresh, late)
    /\ \A e \in fresh : e \in late \/ e \in {Task(current), Task(Len(tasks) + 1)}
    /\ Contains(Line, Task(x)) => gone = Task(x)
    /\ LivesOn(x)
    /\ current' \in {current, paused.task, x, 0}
    /\ paused'.task \in {current, paused.task, x, 0}
    /\ (current # 0 => x = current) \/ current' = current
    /\ \A e \in fresh : LegitNext(e)
    /\ WaitersTurn(x, fresh, r)

OnceNext ==
    /\ Single(Line')
    /\ \A e : Contains(Line', e) => LegitNext(e)
    /\ \A p \in 1..Len(promises') : Single(promises'[p].waiters)
    /\ \A p \in 1..Len(promises') : \A t :
          WaitsNext(t, p) => FreeNext(t) /\ ~Contains(Line', Task(t))
    /\ \A p, r \in 1..Len(promises') : \A t : WaitsNext(t, p) /\ WaitsNext(t, r) => p = r

(* Events come to the line in one of these ways.                             *)
Flow ==
    \E gone, fresh, late :
        /\ Moved(gone, fresh, late)
        /\ \A e \in fresh : e \in late \/ e \in {Task(current), Task(Len(tasks) + 1)}

(* Such a step keeps everybody in one place at most.                         *)
LEMMA OnceKept ==
    ASSUME Shape, Once, NEW gone, NEW x, NEW fresh, NEW late, NEW r,
           Turned(gone, x, fresh, late, r)
    PROVE  OnceNext /\ Flow
<1>1. ASSUME NEW u, Free(u), u # x
      PROVE  FreeNext(u)
  <2>1. u \in 1..Len(tasks) /\ tasks[u].live /\ u # current /\ u # paused.task /\ u # 0
    BY <1>1 DEF Free
  <2> QED
    BY <1>1, <2>1 DEF Turned, LivesOn, FreeNext
<1>2. /\ Single(Line')
      /\ \A e : Contains(Line', e) <=> (Contains(Line, e) /\ e # gone) \/ e \in fresh
  BY DEF Turned, Moved
<1>3. ASSUME NEW e, Contains(Line, e), e # gone
      PROVE  LegitNext(e)
  <2>1. Legit(e)
    BY <1>3 DEF Once
  <2>2. CASE e.is = "task"
    <3>1. Free(e.of)
      BY <2>1, <2>2 DEF Legit
    <3>2. e \in Event
      <4>1. Line \in Seq(Event)
        BY LineIs
      <4> QED
        BY <1>3, <4>1, ElementOfSeq DEF Contains
    <3>3. e = Task(e.of)
      BY <2>2, <3>2 DEF Event, Task
    <3>4. e.of # x
      BY <1>3, <3>3 DEF Turned
    <3> QED
      BY <1>1, <2>2, <3>1, <3>4 DEF LegitNext
  <2>3. CASE e.is # "task"
    BY <2>1, <2>3 DEF Legit, LegitNext, Turned, LivesOn
  <2> QED
    BY <2>2, <2>3
<1>4. \A e : Contains(Line', e) => LegitNext(e)
  BY <1>2, <1>3 DEF Turned
<1>5. WaitersTurn(x, fresh, r)
  BY DEF Turned
<1>6. Contains(Line', Task(x)) => Task(x) \in fresh
  BY <1>2 DEF Turned
<1>7. ASSUME NEW p \in 1..Len(promises'), NEW t, WaitsNext(t, p)
      PROVE  FreeNext(t) /\ ~Contains(Line', Task(t))
  <2>1. CASE p \in 1..Len(promises) /\ WaitsFor(t, p) /\ t # x /\ Task(t) \notin fresh
    <3>1. Free(t) /\ ~Contains(Line, Task(t))
      BY <2>1 DEF Once
    <3> QED
      BY <1>1, <1>2, <2>1, <3>1
  <2>2. CASE t = x /\ FreeNext(x) /\ Task(x) \notin fresh
    BY <1>6, <2>2
  <2> QED
    BY <1>5, <1>7, <2>1, <2>2 DEF WaitersTurn
<1>8. ASSUME NEW p \in 1..Len(promises'), NEW s \in 1..Len(promises'), NEW t,
             WaitsNext(t, p), WaitsNext(t, s)
      PROVE  p = s
  <2>1. CASE t = x
    BY <1>5, <1>8, <2>1 DEF WaitersTurn
  <2>2. CASE t # x
    <3>1. /\ p \in 1..Len(promises) /\ s \in 1..Len(promises)
          /\ WaitsFor(t, p) /\ WaitsFor(t, s)
      BY <1>5, <1>8, <2>2 DEF WaitersTurn
    <3> QED
      BY <3>1 DEF Once
  <2> QED
    BY <2>1, <2>2
<1>9. Flow
  BY DEF Turned, Flow
<1>10. \A p \in 1..Len(promises') : Single(promises'[p].waiters)
  BY <1>5 DEF WaitersTurn
<1> QED
  BY <1>2, <1>4, <1>7, <1>8, <1>9, <1>10 DEF OnceNext

(* The task waits for nothing.                                               *)
Idles(t) == \A p \in 1..Len(promises) : ~WaitsFor(t, p)
(* A task that acts, and one that runs, waits for nothing.                   *)
LEMMA ActorIs ==
    ASSUME Shape, Turns, Once
    PROVE  /\ \A t, q : Acts(t, q) => Idles(t) /\ t # paused.task /\ t # 0
           /\ Steps => Idles(current) /\ current # paused.task /\ current # 0
           /\ Idles(0) /\ Idles(Len(tasks) + 1) /\ Idles(current)
           /\ ~Contains(Line, Task(0)) /\ ~Contains(Line, Task(current))
           /\ paused.task \in 0..Len(tasks) /\ current \in 0..Len(tasks)
           /\ Len(tasks) \in Nat /\ Len(promises) \in Nat
<1>1. /\ Len(tasks) \in Nat /\ Len(promises) \in Nat /\ current \in 0..Len(tasks)
      /\ paused.task \in Nat /\ paused.floor \in Nat
  BY ShapeIs DEF Shape
<1>2. paused.task \in 0..Len(tasks)
  BY <1>1 DEF Turns, Evaluating, NotPaused
<1>3. ASSUME NEW t, t \notin 1..Len(tasks) \/ t = current
      PROVE  Idles(t)
  BY <1>3 DEF Once, Free, Idles
<1>4. ASSUME current # 0
      PROVE  current # paused.task
  BY <1>1, <1>4 DEF Turns, Evaluating, NotPaused
<1>5. ASSUME NEW t, NEW q, Acts(t, q)
      PROVE  Idles(t) /\ t # paused.task /\ t # 0
  <2>1. t \in 1..Len(tasks) /\ t # 0
    BY <1>1, <1>5 DEF Acts
  <2>2. CASE t = current
    BY <1>3, <1>4, <2>1, <2>2
  <2>3. CASE t # current
    <3>1. Contains(ready, Task(t))
      BY <1>5, <2>3 DEF Acts
    <3>2. Contains(Line, Task(t))
      BY <3>1, LineIs
    <3>3. Free(t)
      BY <3>2, NotInLine
    <3> QED
      BY <2>1, <3>2, <3>3 DEF Idles, Once, Free
  <2> QED
    BY <2>2, <2>3
<1>6. Steps => current # 0
  BY <1>1 DEF Steps
<1>7. Idles(0) /\ Idles(Len(tasks) + 1) /\ Idles(current)
  BY <1>1, <1>3
<1> QED
  BY <1>1, <1>2, <1>4, <1>5, <1>6, <1>7, NotInLine

(* What the kinds of changes of the tasks say of their lives.                *)
LEMMA LivesIs ==
    ASSUME Shape
    PROVE  /\ AllSame \/ tasks' = tasks => \A x : LivesOn(x)
           /\ \A c, e, p : OneMore(c, e, p) =>
                 /\ \A x : LivesOn(x)
                 /\ Len(tasks) + 1 \in 1..Len(tasks') /\ tasks'[Len(tasks) + 1].live
           /\ \A x : OneEnds(x) => LivesOn(x)
<1>1. Len(tasks) \in Nat
  BY ShapeIs
<1>2. AllSame \/ tasks' = tasks => \A x : LivesOn(x)
  BY <1>1 DEF AllSame, Same, LivesOn
<1>3. ASSUME NEW c, NEW e, NEW p, OneMore(c, e, p)
      PROVE  /\ \A x : LivesOn(x)
             /\ Len(tasks) + 1 \in 1..Len(tasks') /\ tasks'[Len(tasks) + 1].live
  BY <1>1, <1>3 DEF OneMore, Same, LivesOn, NewTask
<1>4. ASSUME NEW x, OneEnds(x)
      PROVE  LivesOn(x)
  BY <1>1, <1>4 DEF OneEnds, Same, LivesOn
<1> QED
  BY <1>2, <1>3, <1>4

(* Who comes to the line waits for nothing.                                  *)
Strange(x, fresh) == Idles(x) /\ \A t : Task(t) \in fresh => Idles(t)

(* The waiters of promises that nobody changes.                              *)
LEMMA WaitersSame ==
    ASSUME Shape, Once, NEW x, NEW fresh, NEW r, Strange(x, fresh), promises' = promises
    PROVE  WaitersTurn(x, fresh, r)
BY DEF WaitersTurn, WaitsNext, WaitsFor, Strange, Idles, Once

(* A new promise has no waiters.                                             *)
LEMMA WaitersMore ==
    ASSUME Shape, Once, NEW x, NEW fresh, NEW r, Strange(x, fresh),
           NEW st \in {"pending", "ok", "err"},
           promises' = Append(promises, NewPromise(st, <<>>))
    PROVE  WaitersTurn(x, fresh, r)
<1>1. <<>> \in Seq(Nat) /\ Single(<<>>) /\ \A t : ~Contains(<<>>, t)
  BY EmptySeq DEF Single, Contains
<1>2. Len(promises) \in Nat /\ nextOp \in Nat
  BY ShapeIs DEF Shape
<1>3. /\ Len(promises') = Len(promises) + 1 /\ promises'[Fresh] = NewPromise(st, <<>>)
      /\ \A p \in 1..Len(promises) : promises'[p] = promises[p]
  BY <1>1, <1>2, OneMorePromise
<1>4. \A p \in 1..Len(promises') : p \in 1..Len(promises) \/ p = Fresh
  BY <1>2, <1>3 DEF Fresh
<1>5. promises'[Fresh].waiters = <<>>
  <2>1. NewPromise(st, <<>>).waiters = <<>>
    BY DEF NewPromise
  <2> QED
    BY <1>3, <2>1
<1>6. \A p \in 1..Len(promises') : Single(promises'[p].waiters)
  BY <1>1, <1>3, <1>4, <1>5 DEF Once
<1>7. ASSUME NEW p \in 1..Len(promises'), NEW t, WaitsNext(t, p)
      PROVE  p \in 1..Len(promises) /\ WaitsFor(t, p) /\ t # x /\ Task(t) \notin fresh
  <2>1. p \in 1..Len(promises) /\ WaitsFor(t, p)
    BY <1>1, <1>3, <1>4, <1>5, <1>7 DEF WaitsNext, WaitsFor
  <2> QED
    BY <2>1 DEF Strange, Idles
<1> QED
  BY <1>6, <1>7 DEF WaitersTurn

(* The waiters of a promise that is resolved come to the line.               *)
LEMMA WaitersResolved ==
    ASSUME Shape, Once, NEW x, NEW r, Idles(x), NEW p \in 1..Len(promises), NEW st, NEW q,
           Resolved(p, st, q)
    PROVE  WaitersTurn(x, Woken(p), r)
<1>1. Single(<<>>) /\ \A t : ~Contains(<<>>, t)
  BY EmptySeq DEF Single, Contains
<1>2. promises[p] \in PromiseRec /\ promises'[p].waiters = <<>>
  BY PromiseIs DEF Resolved, PromiseRec
<1>3. Len(promises') = Len(promises)
      /\ \A s \in 1..Len(promises) : s # p => promises'[s] = promises[s]
  BY DEF Resolved
<1>4. \A s \in 1..Len(promises') : Single(promises'[s].waiters)
  BY <1>1, <1>2, <1>3 DEF Once
<1>5. ASSUME NEW s \in 1..Len(promises'), NEW t, WaitsNext(t, s)
      PROVE  s \in 1..Len(promises) /\ WaitsFor(t, s) /\ t # x /\ Task(t) \notin Woken(p)
  <2>1. s # p /\ s \in 1..Len(promises) /\ WaitsFor(t, s)
    BY <1>1, <1>2, <1>3, <1>5 DEF WaitsNext, WaitsFor
  <2>2. ASSUME NEW i \in 1..Len(promises[p].waiters), Task(t) = Task(promises[p].waiters[i])
        PROVE  FALSE
    <3>1. t = promises[p].waiters[i]
      BY <2>2, EventsDiffer
    <3>2. WaitsFor(t, p)
      BY <3>1 DEF WaitsFor, Contains
    <3> QED
      BY <2>1, <3>2 DEF Once
  <2> QED
    BY <2>1, <2>2 DEF Woken, Idles
<1> QED
  BY <1>4, <1>5 DEF WaitersTurn

(* Each step is a turn of somebody.                                          *)
LEMMA TurnOfTask ==
    ASSUME IInv, TaskMove
    PROVE  OnceNext /\ Flow
<1>0. Shape /\ Turns /\ Once /\ Produced
  BY DEF IInv
<1>1. PICK t, q : GoesOn(t, q) \/ Dies(t, q) \/ Returns(t, q)
  BY DEF TaskMove
<1>2. /\ Acts(t, q) /\ paused' = paused /\ Rest(Task(t), q) /\ t \in 1..Len(tasks)
      /\ current # 0 => t = current
  BY <1>1 DEF GoesOn, Dies, Returns, Home, Own, Acts
<1>3. Idles(t) /\ t # paused.task /\ t # 0 /\ Len(tasks) \in Nat
  BY <1>0, <1>2, ActorIs
<1>4. LivesOn(t)
  BY <1>0, <1>1, LivesIs, TasksMove
<1>5. current' \in {t, 0}
  BY <1>1 DEF GoesOn, Dies, Returns, Left
<1>6. \A e : /\ Task(t) = Task(t)
             /\ e = Error(t) => e.is # "task" /\ e.of = t /\ \A u : Task(u) # e
  BY DEF Error, Task
<1>7. CASE promises' = promises /\ ready' = q
  <2>1. Moved(Task(t), {}, {})
    BY <1>2, <1>7, MovedNot
  <2>2. WaitersTurn(t, {}, 0)
    BY <1>0, <1>3, <1>7, WaitersSame DEF Strange
  <2>3. Turned(Task(t), t, {}, {}, 0)
    BY <1>2, <1>4, <1>5, <2>1, <2>2 DEF Turned
  <2> QED
    BY <1>0, <2>3, OnceKept
<1>8. CASE Dies(t, q) /\ Moved(Task(t), {Error(t)}, {Error(t)})
  <2>1. Strange(t, {Error(t)})
    BY <1>3, <1>6 DEF Strange
  <2>2. WaitersTurn(t, {Error(t)}, 0)
    BY <1>0, <1>8, <2>1, WaitersSame DEF Dies
  <2>3. LegitNext(Error(t))
    <3>1. OneEnds(t)
      BY <1>0, <1>8, TasksMove
    <3> QED
      BY <1>2, <1>6, <3>1 DEF LegitNext, OneEnds
  <2>4. Turned(Task(t), t, {Error(t)}, {Error(t)}, 0)
    BY <1>2, <1>4, <1>5, <1>8, <2>2, <2>3 DEF Turned
  <2> QED
    BY <1>0, <2>4, OnceKept
<1>9. CASE Returns(t, q)
  <2> DEFINE p == tasks[t].promise
  <2>1. p \in 1..Len(promises)
    BY <1>0, <1>2, <1>9 DEF Returns, Produced
  <2>2. PICK st \in {"ok", "err"} : Resolved(p, st, q)
    BY <1>9 DEF Returns
  <2>3. WaitersTurn(t, Woken(p), 0)
    BY <1>0, <1>3, <2>1, <2>2, WaitersResolved
  <2>4. \A e \in Woken(p) : LegitNext(e)
    <3> SUFFICES ASSUME NEW i \in 1..Len(promises[p].waiters)
                 PROVE  LegitNext(Task(promises[p].waiters[i]))
      BY DEF Woken
    <3>1. PICK w : w = promises[p].waiters[i]
      OBVIOUS
    <3>2. WaitsFor(w, p)
      BY <3>1 DEF WaitsFor, Contains
    <3>3. Free(w) /\ w # t
      BY <1>0, <1>3, <2>1, <3>2 DEF Once, Idles
    <3>4. FreeNext(w)
      BY <1>2, <1>4, <1>5, <1>3, <3>3 DEF Free, FreeNext, LivesOn
    <3> QED
      BY <3>1, <3>4 DEF LegitNext, Task
  <2>5. Moved(Task(t), Woken(p), Woken(p))
    BY <1>9 DEF Returns
  <2>6. Turned(Task(t), t, Woken(p), Woken(p), 0)
    BY <1>2, <1>4, <1>5, <2>3, <2>4, <2>5 DEF Turned
  <2> QED
    BY <1>0, <2>6, OnceKept
<1> QED
  BY <1>1, <1>7, <1>8, <1>9 DEF GoesOn, Dies

(* A task that runs and makes room for others.                               *)
LEMMA TurnOfRunner ==
    ASSUME IInv, Yields \/ Calls \/ Sends \/ Notifies
    PROVE  OnceNext /\ Flow
<1>0. Shape /\ Turns /\ Once
  BY DEF IInv
<1> DEFINE new == Len(tasks) + 1
<1>1. /\ Steps /\ paused' = paused /\ current' \in {current, 0}
      /\ Idles(current) /\ Idles(new) /\ current # paused.task /\ current # 0
      /\ Len(tasks) \in Nat /\ current \in 1..Len(tasks) /\ paused.task \in 0..Len(tasks)
  BY <1>0, ActorIs DEF Yields, Calls, Sends, Notifies, Home, Own, Left, Stays, Steps
<1>2. /\ LivesOn(current)
      /\ Calls \/ Notifies => new \in 1..Len(tasks') /\ tasks'[new].live
  BY <1>0, LivesIs, TasksMove
<1>3. /\ ~Contains(Line, Task(current))
      /\ \A t : Task(t).is = "task" /\ Task(t).of = t
  BY <1>0, NotInLine DEF Task
<1>4. Calls \/ Notifies => FreeNext(new) /\ LegitNext(Task(new))
  <2>1. new # paused.task /\ new # current /\ new # 0
    BY <1>1
  <2> QED
    BY <1>1, <1>2, <1>3, <2>1 DEF FreeNext, LegitNext
<1>5. Yields \/ Calls => FreeNext(current) /\ LegitNext(Task(current))
  <2>1. Yields \/ Calls => current' = 0
    BY DEF Yields, Calls, Left
  <2>2. Yields \/ Calls => tasks'[current].live /\ current \in 1..Len(tasks')
    <3>1. ASSUME AllSame \/ \E c, e, p : OneMore(c, e, p)
          PROVE  tasks'[current].live /\ current \in 1..Len(tasks')
      BY <1>1, <1>2, <3>1 DEF AllSame, OneMore, Same, Steps, LivesOn
    <3> QED
      BY <1>0, <3>1, TasksMove
  <2> QED
    BY <1>1, <1>3, <2>1, <2>2 DEF FreeNext, LegitNext
<1>6. \A t, u : Task(t) = Task(u) => t = u
  BY EventsDiffer
<1>7. /\ Strange(current, {}) /\ Strange(current, {Task(current)})
      /\ Strange(current, {Task(current), Task(new)}) /\ Strange(current, {Task(new)})
  BY <1>1, <1>6 DEF Strange
<1>8. ASSUME NEW fresh, Strange(current, fresh)
      PROVE  WaitersTurn(current, fresh, 0)
  <2>1. \/ promises' = promises
        \/ \E st \in {"pending", "ok", "err"} : promises' = Append(promises, NewPromise(st, <<>>))
    BY DEF Yields, Calls, Sends, Notifies, Asked, Refused
  <2> QED
    BY <1>0, <1>8, <2>1, WaitersSame, WaitersMore
<1> HIDE DEF new
<1>9. ASSUME NEW fresh, NEW late, Moved(Task(current), fresh, late),
             \A e \in fresh : (e \in late \/ e \in {Task(current), Task(new)}) /\ LegitNext(e),
             Strange(current, fresh)
      PROVE  OnceNext /\ Flow
  <2>1. WaitersTurn(current, fresh, 0)
    BY <1>8, <1>9
  <2>2. Turned(Task(current), current, fresh, late, 0)
    BY <1>1, <1>2, <1>9, <2>1 DEF Turned, new
  <2> QED
    BY <1>0, <2>2, OnceKept
<1>10. CASE Yields
  BY <1>5, <1>7, <1>9, <1>10 DEF Yields
<1>11. CASE Calls
  BY <1>4, <1>5, <1>7, <1>9, <1>11 DEF Calls, new
<1>12. CASE Sends
  <2>1. Rest(Task(current), ready)
    BY <1>0, <1>3, RestIs
  <2>2. Moved(Task(current), {}, {})
    BY <1>1, <1>12, <2>1, MovedNot DEF Sends
  <2> QED
    BY <1>7, <1>9, <2>2
<1>13. CASE Notifies
  BY <1>4, <1>7, <1>9, <1>13 DEF Notifies, new
<1> QED
  BY <1>10, <1>11, <1>12, <1>13

(* A task that begins to wait.                                               *)
LEMMA TurnOfWaiter ==
    ASSUME IInv, Suspends \/ Freezes
    PROVE  OnceNext /\ Flow
<1>0. Shape /\ Turns /\ Once
  BY DEF IInv
<1>1. /\ Steps /\ paused' = paused /\ current' = 0 /\ ready' = ready /\ tasks' = tasks
      /\ Idles(current) /\ current # paused.task /\ current # 0
      /\ Len(tasks) \in Nat /\ current \in 1..Len(tasks) /\ Len(promises) \in Nat
      /\ ~Contains(Line, Task(current))
  BY <1>0, ActorIs DEF Suspends, Freezes, Home, Own, Left, Steps
<1>2. LivesOn(current) /\ FreeNext(current)
  BY <1>0, <1>1, LivesIs DEF FreeNext, Steps
<1>3. Moved(Task(current), {}, {})
  BY <1>0, <1>1, RestIs, MovedNot
<1>4. ASSUME NEW r, WaitersTurn(current, {}, r)
      PROVE  OnceNext /\ Flow
  <2>1. Turned(Task(current), current, {}, {}, r)
    BY <1>1, <1>2, <1>3, <1>4 DEF Turned
  <2> QED
    BY <1>0, <2>1, OnceKept
<1>5. CASE Suspends
  <2>1. PICK p \in 1..Len(promises) :
           /\ Len(promises') = Len(promises)
           /\ \A x \in 1..Len(promises) : x # p => promises'[x] = promises[x]
           /\ Single(promises'[p].waiters)
           /\ \A t : Contains(promises'[p].waiters, t)
                        => t = current \/ Contains(promises[p].waiters, t)
    BY <1>5 DEF Suspends
  <2>2. \A x \in 1..Len(promises') : Single(promises'[x].waiters)
    BY <1>0, <2>1 DEF Once
  <2>3. ASSUME NEW x \in 1..Len(promises'), NEW t, WaitsNext(t, x)
        PROVE  \/ x \in 1..Len(promises) /\ WaitsFor(t, x) /\ t # current
               \/ t = current /\ x = p /\ FreeNext(current)
    BY <1>1, <1>2, <2>1, <2>3 DEF WaitsNext, WaitsFor, Idles
  <2>4. WaitersTurn(current, {}, p)
    BY <2>2, <2>3 DEF WaitersTurn
  <2> QED
    BY <1>4, <2>4
<1>6. CASE Freezes
  <2>1. promises' = Append(promises, NewPromise("pending", <<current>>))
    BY <1>6 DEF Freezes, Asked
  <2>2. /\ <<current>> \in Seq(Nat) /\ Single(<<current>>)
        /\ \A t : Contains(<<current>>, t) <=> t = current
    <3>1. current \in Nat
      BY <1>1
    <3> QED
      BY <3>1, FewOrder
  <2>3. /\ Len(promises') = Len(promises) + 1
        /\ promises'[Fresh] = NewPromise("pending", <<current>>)
        /\ \A p \in 1..Len(promises) : promises'[p] = promises[p]
    BY <1>0, <1>1, <2>1, <2>2, OneMorePromise DEF Shape
  <2>4. NewPromise("pending", <<current>>).waiters = <<current>>
    BY DEF NewPromise
  <2>5. \A p \in 1..Len(promises') : p \in 1..Len(promises) \/ p = Fresh
    BY <1>1, <2>3 DEF Fresh
  <2>6. \A x \in 1..Len(promises') : Single(promises'[x].waiters)
    BY <1>0, <2>2, <2>3, <2>4, <2>5 DEF Once
  <2>7. ASSUME NEW x \in 1..Len(promises'), NEW t, WaitsNext(t, x)
        PROVE  \/ x \in 1..Len(promises) /\ WaitsFor(t, x) /\ t # current
               \/ t = current /\ x = Fresh /\ FreeNext(current)
    <3>1. CASE x \in 1..Len(promises)
      BY <1>1, <2>3, <2>7, <3>1 DEF WaitsNext, WaitsFor, Idles
    <3>2. CASE x = Fresh
      BY <1>2, <2>2, <2>3, <2>4, <2>7, <3>2 DEF WaitsNext
    <3> QED
      BY <2>5, <3>1, <3>2
  <2>8. WaitersTurn(current, {}, Fresh)
    BY <2>6, <2>7 DEF WaitersTurn
  <2> QED
    BY <1>4, <2>8
<1> QED
  BY <1>5, <1>6


(* Nobody acts, or an event leaves the line.                                 *)
LEMMA TurnOfLoop ==
    ASSUME IInv, BreaksOff \/ TakesError \/ GetsStuck \/ Still \/ Outside \/ \E t : TakesTask(t)
    PROVE  OnceNext /\ Flow
<1>0. Shape /\ Turns /\ Once
  BY DEF IInv
<1>1. /\ tasks' = tasks /\ promises' = promises /\ paused' = paused
      /\ Idles(0) /\ ~Contains(Line, Task(0))
  BY <1>0, ActorIs
  DEF BreaksOff, TakesError, GetsStuck, Still, Outside, TakesTask, Beside, vmVars, Idle, Home, Own
<1>2. \A x : LivesOn(x)
  BY <1>0, <1>1, LivesIs
<1>3. ASSUME NEW x, NEW gone, Moved(gone, {}, {}), Idles(x),
             Contains(Line, Task(x)) => gone = Task(x),
             current' \in {current, x, 0}, current = 0 \/ x = current \/ current' = current
      PROVE  OnceNext /\ Flow
  <2>1. WaitersTurn(x, {}, 0)
    BY <1>0, <1>1, <1>3, WaitersSame DEF Strange
  <2>2. Turned(gone, x, {}, {}, 0)
    BY <1>1, <1>2, <1>3, <2>1 DEF Turned
  <2> QED
    BY <1>0, <2>2, OnceKept
<1>4. CASE BreaksOff \/ TakesError
  <2>1. PICK gone : Moved(gone, {}, {})
    BY <1>4 DEF BreaksOff, TakesError
  <2>2. current' = 0 /\ Idles(current) /\ ~Contains(Line, Task(current))
    BY <1>0, <1>4, ActorIs DEF BreaksOff, TakesError, Idle
  <2> QED
    BY <1>3, <2>1, <2>2
<1>5. CASE GetsStuck \/ Still \/ Outside
  <2>1. ready' = ready /\ current' \in {current, 0} /\ (current' = current \/ current = 0)
    BY <1>5 DEF GetsStuck, Still, Outside, Beside, vmVars, Idle
  <2>2. Rest(Task(0), ready)
    BY <1>0, <1>1, RestIs
  <2>3. Moved(Task(0), {}, {})
    BY <1>1, <2>1, <2>2, MovedNot
  <2> QED
    BY <1>1, <1>3, <2>1, <2>3
<1>6. CASE \E t : TakesTask(t)
  <2>1. PICK t : TakesTask(t)
    BY <1>6
  <2>2. Contains(Line, Task(t))
    BY <1>0, <2>1, LineIs DEF TakesTask
  <2>3. Idles(t)
    BY <1>0, <2>2 DEF Once, Idles
  <2> QED
    BY <1>3, <2>1, <2>3 DEF TakesTask
<1> QED
  BY <1>4, <1>5, <1>6

(* An evaluation begins or ends, a completion is taken.                      *)
LEMMA TurnOfOthers ==
    ASSUME IInv, Begins \/ Resumes \/ Takes
    PROVE  OnceNext /\ Flow
<1>0. Shape /\ Turns /\ Once
  BY DEF IInv
<1>1. /\ Idles(0) /\ Idles(Len(tasks) + 1) /\ Idles(current)
      /\ ~Contains(Line, Task(0)) /\ ~Contains(Line, Task(current))
      /\ paused.task \in 0..Len(tasks) /\ current \in 0..Len(tasks) /\ Len(tasks) \in Nat
  BY <1>0, ActorIs
<1>2. CASE Begins
  <2> DEFINE new == Len(tasks) + 1
  <2>1. /\ Moved(Task(current), {Task(new)}, {Task(new)})
        /\ current' = 0 /\ paused'.task = current /\ promises' = promises
    BY <1>2 DEF Begins
  <2>2. LivesOn(current) /\ new \in 1..Len(tasks') /\ tasks'[new].live
    BY <1>0, <1>2, LivesIs, TasksMove
  <2>3. LegitNext(Task(new))
    <3>1. new # current /\ new # 0
      BY <1>1
    <3> QED
      BY <2>1, <2>2, <3>1 DEF LegitNext, FreeNext, Task
  <2> HIDE DEF new
  <2>4. Strange(current, {Task(new)})
    BY <1>1, EventsDiffer DEF Strange, new
  <2>5. WaitersTurn(current, {Task(new)}, 0)
    BY <1>0, <2>1, <2>4, WaitersSame
  <2>6. Turned(Task(current), current, {Task(new)}, {Task(new)}, 0)
    BY <2>1, <2>2, <2>3, <2>5 DEF Turned
  <2> QED
    BY <1>0, <2>6, OnceKept
<1>3. CASE Resumes
  <2> DEFINE root == paused.floor
  <2>1. /\ Moved(Task(root), {}, {}) /\ current = 0
        /\ current' = paused.task /\ paused'.task = 0
    BY <1>0, <1>3 DEF Resumes, Turns, NotPaused
  <2>2. LivesOn(root)
    BY <1>0, <1>3, LivesIs, TasksMove
  <2>3. WaitersTurn(root, {}, 0)
    BY <1>3 DEF Resumes, WaitersTurn, WaitsNext, WaitsFor
  <2>4. Turned(Task(root), root, {}, {}, 0)
    BY <2>1, <2>2, <2>3 DEF Turned
  <2> QED
    BY <1>0, <2>4, OnceKept
<1>4. CASE Takes
  <2> DEFINE p == Head(channel).promise
  <2>1. /\ p \in 1..Len(promises) /\ Moved(Task(0), Woken(p), Woken(p))
        /\ tasks' = tasks /\ current' = current /\ current = 0 /\ paused' = paused
    BY <1>4 DEF Takes
  <2>2. PICK st \in {"ok", "err"} : Resolved(p, st, ready)
    BY <1>4 DEF Takes
  <2> HIDE DEF p
  <2>3. WaitersTurn(0, Woken(p), 0)
    BY <1>0, <1>1, <2>1, <2>2, WaitersResolved
  <2>4. \A e \in Woken(p) : LegitNext(e)
    <3> SUFFICES ASSUME NEW i \in 1..Len(promises[p].waiters)
                 PROVE  LegitNext(Task(promises[p].waiters[i]))
      BY DEF Woken
    <3>1. PICK w : w = promises[p].waiters[i]
      OBVIOUS
    <3>2. WaitsFor(w, p)
      BY <3>1 DEF WaitsFor, Contains
    <3>3. Free(w)
      BY <1>0, <2>1, <3>2 DEF Once
    <3>4. FreeNext(w)
      BY <2>1, <3>3 DEF Free, FreeNext
    <3> QED
      BY <3>1, <3>4 DEF LegitNext, Task
  <2>5. LivesOn(0)
    BY <1>0, <2>1, LivesIs
  <2>6. Turned(Task(0), 0, Woken(p), Woken(p), 0)
    BY <1>1, <2>1, <2>3, <2>4, <2>5 DEF Turned
  <2> QED
    BY <1>0, <2>6, OnceKept
<1> QED
  BY <1>2, <1>3, <1>4

(* So it is with every step.                                                 *)
LEMMA OnceStep ==
    ASSUME IInv, [Next]_vars
    PROVE  Once' /\ Flow
<1>1. OnceNext /\ Flow
  BY StepIs, TurnOfTask, TurnOfRunner, TurnOfWaiter, TurnOfLoop, TurnOfOthers DEF Move
<1>2. OnceNext => Once'
  BY DEF OnceNext, Once, LegitNext, Legit, FreeNext, Free, WaitsNext, WaitsFor
<1> QED
  BY <1>1, <1>2

(* The task of a frozen call waits while its answer is pending.              *)
LEMMA AwaitedStep ==
    ASSUME IInv, [Next]_vars
    PROVE  Awaited'
<1>0. /\ Shape /\ Turns /\ FrozenWaits /\ Awaited /\ canceled \in BOOLEAN
      /\ Len(promises) \in Nat /\ Len(tasks) \in Nat
  BY ShapeIs DEF IInv, Shape
<1>1. ASSUME ~(syncWait' # NoWait /\ ~canceled')
      PROVE  Awaited'
  BY <1>1 DEF Awaited, Frozen
<1>2. ASSUME syncWait' = syncWait, canceled' = canceled, current # 0
      PROVE  Awaited'
  BY <1>0, <1>1, <1>2 DEF FrozenWaits, Frozen
<1>3. ASSUME UNCHANGED <<syncWait, promises>>, canceled => canceled'
      PROVE  Awaited'
  BY <1>0, <1>3 DEF Awaited, Frozen, Pending, WaitsFor
<1>4. ASSUME TaskMove PROVE Awaited'
  <2>1. PICK t, q : Acts(t, q) /\ Own
    BY <1>4 DEF TaskMove, GoesOn, Dies, Returns, Home
  <2> QED
    BY <1>1, <1>2, <2>1 DEF Acts, Own
<1>5. ASSUME Yields \/ Suspends \/ Calls \/ Sends \/ Notifies PROVE Awaited'
  BY <1>0, <1>2, <1>5 DEF Yields, Suspends, Calls, Sends, Notifies, Home, Own, Steps
<1>6. ASSUME Freezes PROVE Awaited'
  <2>1. /\ promises' = Append(promises, NewPromise("pending", <<current>>))
        /\ syncWait'.task = current /\ syncWait'.promise = Fresh /\ current \in Nat
    BY <1>0, <1>6 DEF Freezes, Asked, Steps
  <2>2. /\ <<current>> \in Seq(Nat) /\ Contains(<<current>>, current)
    BY <2>1, SingletonIs
  <2>3. promises'[Fresh] = NewPromise("pending", <<current>>)
    BY <1>0, <2>1, <2>2, OneMorePromise DEF Shape
  <2>4. NewPromise("pending", <<current>>).waiters = <<current>>
    BY DEF NewPromise
  <2>5. Contains(promises'[syncWait'.promise].waiters, syncWait'.task)
    BY <2>1, <2>2, <2>3, <2>4
  <2> QED
    BY <2>5 DEF Awaited, WaitsFor
<1>7. ASSUME BreaksOff PROVE Awaited'
  BY <1>1, <1>7 DEF BreaksOff, Frozen, Idle, Home, Own
<1>8. ASSUME TakesError \/ GetsStuck \/ Still \/ Outside \/ \E t : TakesTask(t) PROVE Awaited'
  BY <1>3, <1>8 DEF TakesError, GetsStuck, Still, Outside, TakesTask, Beside, vmVars, Idle, Home,
                    Own
<1>9. ASSUME Begins PROVE Awaited'
  BY <1>0, <1>2, <1>9 DEF Begins
<1>10. ASSUME Resumes PROVE Awaited'
  <2>1. Frozen => canceled
    BY <1>0, <1>10 DEF Resumes, FrozenWaits
  <2>2. Frozen' => Frozen
    BY <1>10 DEF Resumes, Frozen
  <2> QED
    BY <1>1, <1>10, <2>1, <2>2 DEF Resumes, Frozen
<1>11. ASSUME Takes PROVE Awaited'
  <2>1. PICK p \in 1..Len(promises) : \E st \in {"ok", "err"} : Resolved(p, st, ready)
    BY <1>11 DEF Takes
  <2>2. PICK st \in {"ok", "err"} : Resolved(p, st, ready)
    BY <2>1
  <2>3. syncWait' = syncWait /\ canceled' = canceled
    BY <1>11 DEF Takes
  <2> SUFFICES ASSUME Frozen, ~canceled, Pending(syncWait.promise)'
               PROVE  WaitsFor(syncWait.task, syncWait.promise)'
    BY <2>3 DEF Awaited, Frozen
  <2>4. syncWait.promise \in 1..Len(promises') /\ promises'[syncWait.promise].state = "pending"
    <3>1. promises' \in Seq(PromiseRec)
      BY <2>2 DEF Resolved
    <3> QED
      BY <2>3, <3>1, LenProperties DEF Pending
  <2>5. promises[p] \in PromiseRec /\ promises'[p].state = st
    BY <1>0, <2>2, PromiseIs DEF Resolved, PromiseRec
  <2>6. syncWait.promise # p /\ syncWait.promise \in 1..Len(promises)
    BY <2>2, <2>4, <2>5 DEF Resolved
  <2>7. promises'[syncWait.promise] = promises[syncWait.promise]
    BY <2>2, <2>6 DEF Resolved
  <2>8. WaitsFor(syncWait.task, syncWait.promise)
    BY <1>0, <2>4, <2>6, <2>7, PromiseIs DEF Awaited
  <2> QED
    BY <2>3, <2>7, <2>8 DEF WaitsFor
<1> QED
  BY <1>4, <1>5, <1>6, <1>7, <1>8, <1>9, <1>10, <1>11, StepIs DEF Move


(* Numbers stay in range and different.                                      *)
LEMMA NumberedStep ==
    ASSUME IInv, [Next]_vars
    PROVE  Numbered'
<1>0. /\ Shape /\ Turns /\ Once /\ Numbered /\ Kinds /\ nextOp \in Nat /\ nextOp' \in Nat
      /\ Len(promises) \in Nat /\ Len(tasks) \in Nat /\ Fresh = Len(promises) + 1
      /\ \A p \in 1..Len(promises) : promises[p].op \in Nat
      /\ \A t \in 1..Len(tasks) : tasks[t].promise \in Nat
      /\ syncWait.promise \in Nat
  BY ShapeIs, ShapeStep, TasksStep DEF IInv, Shape, Fresh, PromiseRec, TaskRec
<1> DEFINE Ops == /\ \A p \in 1..Len(promises') : promises'[p].op < nextOp'
                  /\ \A p, r \in 1..Len(promises') :
                        promises'[p].op = promises'[r].op => p = r
                  /\ Len(promises') \in Nat /\ Len(promises) <= Len(promises')
           Old == Len(promises') = Len(promises) /\ nextOp <= nextOp'
                  /\ \A p \in 1..Len(promises) : promises'[p].op = promises[p].op
           More(ws) == /\ nextOp' = nextOp + 1
                       /\ \E st \in {"pending", "ok", "err"} :
                             promises' = Append(promises, NewPromise(st, ws))
(* The numbers of operations.                                                *)
<1>1. ASSUME Old PROVE Ops
  <2>1. \A p \in 1..Len(promises) : promises'[p].op < nextOp'
    BY <1>0, <1>1, SMTT(30) DEF Numbered
  <2>2. Len(promises') = Len(promises)
    BY <1>1
  <2>3. \A p, r \in 1..Len(promises) : promises'[p].op = promises'[r].op => p = r
    BY <1>0, <1>1 DEF Numbered
  <2> QED
    BY <1>0, <2>1, <2>2, <2>3
<1>2. ASSUME NEW ws \in Seq(Nat), More(ws) PROVE Ops /\ Len(promises') = Fresh
  <2>1. PICK st \in {"pending", "ok", "err"} : promises' = Append(promises, NewPromise(st, ws))
    BY <1>2
  <2>2. /\ Len(promises') = Len(promises) + 1 /\ promises'[Fresh] = NewPromise(st, ws)
        /\ \A p \in 1..Len(promises) : promises'[p] = promises[p]
    BY <1>0, <2>1, OneMorePromise
  <2>3. NewPromise(st, ws).op = nextOp
    BY DEF NewPromise
  <2>4. \A p \in 1..Len(promises') : p \in 1..Len(promises) \/ p = Fresh
    BY <1>0, <2>2
  <2>5. /\ \A p \in 1..Len(promises) : promises'[p].op = promises[p].op
        /\ promises'[Fresh].op = nextOp /\ nextOp' = nextOp + 1
    BY <1>2, <2>2, <2>3
  <2>6. \A p \in 1..Len(promises) : promises'[p].op \in Nat /\ promises'[p].op < nextOp
    BY <1>0, <2>5 DEF Numbered
  <2>7. \A p \in 1..Len(promises') : promises'[p].op < nextOp'
    <3> SUFFICES ASSUME NEW p \in 1..Len(promises')
                 PROVE  promises'[p].op < nextOp'
      OBVIOUS
    <3> PICK m : m = promises'[p].op
      OBVIOUS
    <3>1. m \in Nat /\ m <= nextOp
      BY <1>0, <2>4, <2>5, <2>6
    <3> QED
      BY <1>0, <2>5, <3>1
  <2>8. /\ \A p, r \in 1..Len(promises) : promises'[p].op = promises'[r].op => p = r
        /\ \A p \in 1..Len(promises) : promises'[p].op # promises'[Fresh].op
    <3>1. \A p, r \in 1..Len(promises) : promises'[p].op = promises'[r].op => p = r
      BY <2>5, <1>0 DEF Numbered
    <3>2. \A p \in 1..Len(promises) : promises'[p].op # promises'[Fresh].op
      BY <1>0, <2>5, <2>6
    <3> QED
      BY <3>1, <3>2
  <2>9. \A p, r \in 1..Len(promises') : promises'[p].op = promises'[r].op => p = r
    BY <2>4, <2>8
  <2> QED
    BY <1>0, <2>2, <2>7, <2>9
<1>3. <<>> \in Seq(Nat)
  BY EmptySeq
<1>4. ASSUME UNCHANGED <<promises, nextOp>> PROVE Ops
  BY <1>0, <1>1, <1>4
<1>5. ASSUME NEW p \in 1..Len(promises), NEW st, NEW q, Resolved(p, st, q), nextOp <= nextOp'
      PROVE  Ops
  <2>1. promises'[p].op = promises[p].op
    BY <1>0, <1>5, PromiseIs DEF Resolved, PromiseRec
  <2> QED
    BY <1>1, <1>5, <2>1 DEF Resolved
<1>6. Asked(<<>>) \/ Refused => More(<<>>)
  BY DEF Asked, Refused, Start
<1> HIDE DEF Ops, Old, More
<1>7. TaskMove => Ops
  <2> SUFFICES ASSUME TaskMove PROVE Ops
    OBVIOUS
  <2>1. PICK t, q : GoesOn(t, q) \/ Dies(t, q) \/ Returns(t, q)
    BY DEF TaskMove
  <2>2. nextOp <= nextOp'
    BY <2>1 DEF GoesOn, Dies, Returns, Home, Own
  <2>3. CASE promises' = promises
    BY <1>0, <1>1, <2>2, <2>3 DEF Old
  <2>4. CASE Returns(t, q)
    <3>1. tasks[t].promise \in 1..Len(promises)
      BY <2>4 DEF Returns, Acts, IInv, Produced
    <3>2. PICK st \in {"ok", "err"} : Resolved(tasks[t].promise, st, q)
      BY <2>4 DEF Returns
    <3> QED
      BY <1>5, <2>2, <3>1, <3>2
  <2> QED
    BY <2>1, <2>3, <2>4 DEF GoesOn, Dies
<1>8. Suspends \/ Resumes => Ops
  <2>1. Suspends => Old
    BY DEF Suspends, Home, Own, Old
  <2>2. Resumes => Old
    BY <1>0 DEF Resumes, Old
  <2> QED
    BY <1>1, <2>1, <2>2
<1>9. Calls => Ops /\ (Len(promises') = Fresh \/ promises' = promises)
  <2>1. Calls => nextOp' = nextOp + 1
                 /\ (promises' = promises
                       \/ promises' = Append(promises, NewPromise("pending", <<>>)))
    BY DEF Calls
  <2>2. Calls /\ promises' = promises => Old
    BY <1>0, <2>1 DEF Old
  <2>3. Calls /\ promises' # promises => More(<<>>)
    BY <2>1 DEF More
  <2> QED
    BY <1>1, <1>2, <1>3, <2>2, <2>3
<1>10. Sends \/ Notifies => Ops /\ Len(promises') = Fresh
  BY <1>2, <1>3, <1>6 DEF Sends, Notifies
<1>11. Freezes => Ops /\ Len(promises') = Fresh
  <2>1. Freezes => <<current>> \in Seq(Nat)
    <3>1. current \in Nat
      BY <1>0 DEF Shape
    <3> QED
      BY <3>1, SingletonIs
  <2>2. Freezes => More(<<current>>)
    BY DEF Freezes, Asked, Start, More
  <2> QED
    BY <1>2, <2>1, <2>2
<1>12. Takes => Ops
  <2> SUFFICES ASSUME Takes PROVE Ops
    OBVIOUS
  <2>1. PICK p \in 1..Len(promises) : \E st \in {"ok", "err"} : Resolved(p, st, ready)
    BY DEF Takes
  <2>2. PICK st \in {"ok", "err"} : Resolved(p, st, ready)
    BY <2>1
  <2>3. nextOp <= nextOp'
    BY <1>0 DEF Takes
  <2> QED
    BY <1>5, <2>2, <2>3
<1>13. (\/ Yields \/ BreaksOff \/ TakesError \/ GetsStuck \/ Still \/ Begins \/ Outside
        \/ \E t : TakesTask(t)) => Old
  <2>1. Yields \/ (\E t : TakesTask(t)) \/ BreaksOff \/ TakesError \/ GetsStuck
           => promises' = promises /\ nextOp <= nextOp'
    BY DEF Yields, TakesTask, BreaksOff, TakesError, GetsStuck, Idle, Home, Own
  <2>2. Still \/ Begins \/ Outside => promises' = promises /\ nextOp' = nextOp
    BY DEF Still, Begins, Outside, Beside, vmVars
  <2>3. promises' = promises /\ nextOp <= nextOp' => Old
    BY DEF Old
  <2>4. promises' = promises /\ nextOp' = nextOp => Old
    BY <1>0 DEF Old
  <2> QED
    BY <2>1, <2>2, <2>3, <2>4
<1>14. Ops
  BY <1>1, <1>7, <1>8, <1>9, <1>10, <1>11, <1>12, <1>13, StepIs DEF Move
(* The numbers of promises.                                                  *)
<1>15. \A t \in 1..Len(tasks) : tasks'[t].promise <= Len(promises')
  BY <1>0, <1>14 DEF Numbered, Kinds, Ops
<1>16. ASSUME NEW c, NEW e, NEW p \in Nat, OneMore(c, e, p), p <= Len(promises')
       PROVE  \A t \in 1..Len(tasks') : tasks'[t].promise <= Len(promises')
  <2>1. Len(tasks') = Len(tasks) + 1 /\ tasks'[Len(tasks) + 1].promise = p
    BY <1>16 DEF OneMore, NewTask
  <2>2. \A t \in 1..Len(tasks') : t \in 1..Len(tasks) \/ t = Len(tasks) + 1
    BY <1>0, <2>1
  <2> QED
    BY <1>15, <1>16, <2>1, <2>2
<1>17. \A t \in 1..Len(tasks') : tasks'[t].promise <= Len(promises')
  <2>1. CASE Len(tasks') = Len(tasks)
    BY <1>15, <2>1
  <2>2. CASE Calls
    <3>1. PICK c \in Seq(Op) : \/ /\ tasks' = Append(Next1(current), NewTask(c, "promise", Fresh))
                                  /\ promises' = Append(promises, NewPromise("pending", <<>>))
                               \/ tasks' = Append(Next1(current), NewTask(c, "detached", 0))
      BY <2>2 DEF Calls
    <3>2. current \in 1..Len(tasks) /\ tasks[current].code # <<>> /\ c \in Seq(Instruction)
      <4>1. c \in Seq(Instruction)
        BY SeqMonotonic DEF Instruction
      <4> QED
        BY <2>2, <4>1 DEF Calls, Steps
    <3>3. CASE promises' = Append(promises, NewPromise("pending", <<>>))
               /\ tasks' = Append(Next1(current), NewTask(c, "promise", Fresh))
      <4>1. OneMore(c, "promise", Fresh)
        BY <1>0, <3>2, <3>3, SpawnMoves
      <4>2. Len(promises') = Fresh
        BY <1>0, <1>3, <3>3, OneMorePromise
      <4> QED
        BY <1>0, <1>16, <4>1, <4>2
    <3>4. CASE tasks' = Append(Next1(current), NewTask(c, "detached", 0))
      <4>1. OneMore(c, "detached", 0)
        BY <1>0, <3>2, <3>4, SpawnMoves
      <4> QED
        BY <1>0, <1>14, <1>16, <4>1 DEF Ops
    <3> QED
      BY <3>1, <3>3, <3>4
  <2>3. CASE Notifies
    <3>1. PICK c \in Seq(Instruction) : OneMore(c, "notification", Fresh)
      BY <1>0, <2>3, TasksMove
    <3> QED
      BY <1>0, <1>10, <1>16, <2>3, <3>1
  <2>4. CASE Begins
    <3>1. PICK c \in Seq(Op) : OneMore(c, "root", 0)
      BY <1>0, <2>4, TasksMove
    <3> QED
      BY <1>0, <1>14, <1>16, <3>1, SMTT(30) DEF Ops
  <2>5. \/ TaskMove \/ Yields \/ Sends \/ Resumes \/ tasks' = tasks
        \/ Calls \/ Notifies \/ Begins
    BY StepIs
    DEF Move, Suspends, Freezes, BreaksOff, TakesError, TakesTask, GetsStuck, Still, Takes,
        Outside, Beside, vmVars, Idle
  <2>6. TaskMove \/ Yields \/ Sends \/ Resumes \/ tasks' = tasks => Len(tasks') = Len(tasks)
    BY <1>0, TasksMove DEF TaskMove, AllSame, OneEnds
  <2> QED
    BY <2>1, <2>2, <2>3, <2>4, <2>5, <2>6
<1>18. syncWait'.promise <= Len(promises')
  <2>1. CASE syncWait' = syncWait
    BY <1>0, <1>14, <2>1 DEF Numbered, Ops
  <2>2. CASE syncWait' = NoWait
    BY <1>14, <2>2 DEF NoWait, Ops
  <2>3. CASE Freezes
    BY <1>0, <1>11, <2>3 DEF Freezes
  <2>4. Freezes \/ syncWait' \in {syncWait, NoWait}
    BY StepIs
    DEF Move, TaskMove, GoesOn, Dies, Returns, Acts, Yields, Suspends, Calls, Sends, Notifies,
        BreaksOff, TakesError, TakesTask, GetsStuck, Still, Takes, Begins, Resumes, Outside, Beside,
        vmVars, Idle
  <2> QED
    BY <2>1, <2>2, <2>3, <2>4
(* What is set aside.                                                        *)
<1>19. (paused' # NotPaused) => \A e : Contains(paused'.ready, e) => e.of < paused'.floor
  <2>1. CASE paused' = paused
    BY <1>0, <2>1 DEF Numbered, Evaluating
  <2>2. CASE Begins
    <3>1. paused'.ready = ready /\ paused'.floor = Len(tasks) + 1
      BY <2>2 DEF Begins
    <3>2. ASSUME NEW e, Contains(ready, e)
          PROVE  e.of < Len(tasks) + 1
      <4>1. Legit(e)
        BY <1>0, <3>2, LineIs DEF Once
      <4>2. e.of \in 1..Len(tasks)
        BY <4>1 DEF Legit, Free
      <4> QED
        BY <1>0, <4>2
    <3> QED
      BY <3>1, <3>2
  <2>3. CASE paused' = NotPaused
    BY <2>3
  <2>4. paused' = paused \/ Begins \/ paused' = NotPaused
    BY StepIs
    DEF Move, TaskMove, GoesOn, Dies, Returns, Yields, Suspends, Calls, Sends, Notifies, Freezes,
        BreaksOff, TakesError, TakesTask, GetsStuck, Still, Takes, Resumes, Outside, Beside,
        vmVars, Idle, Home, Own
  <2> QED
    BY <2>1, <2>2, <2>3, <2>4
<1> QED
  BY <1>14, <1>17, <1>18, <1>19 DEF Numbered, Evaluating, Ops

(* Nothing inside is ever broken.                                            *)
LEMMA RangesStep ==
    ASSUME IInv, [Next]_vars
    PROVE  Ranges'
<1>0. Ranges /\ Turns
  BY DEF IInv
<1>1. verdict' \in Verdict
  <2>1. TaskMove => verdict' \in Verdict
    BY <1>0 DEF TaskMove, GoesOn, Dies, Returns, Left, Ranges, Verdict
  <2>2. Yields \/ Suspends \/ Calls \/ Sends \/ Notifies \/ Freezes => verdict' \in Verdict
    BY <1>0 DEF Yields, Suspends, Calls, Sends, Notifies, Freezes, Left, Stays, Ranges, Verdict
  <2>3. (\/ BreaksOff \/ TakesError \/ GetsStuck \/ Still \/ Begins \/ Resumes \/ Takes \/ Outside
         \/ \E t : TakesTask(t)) => verdict' \in Verdict
    BY <1>0 DEF BreaksOff, TakesError, GetsStuck, Still, TakesTask, Begins, Resumes, Takes, Outside,
                Beside, vmVars, Ranges, Verdict
  <2> QED
    BY <2>1, <2>2, <2>3, StepIs DEF Move
<1>2. draining' \in {"no", "blocked", "more", "nested"}
  <2>1. ASSUME VmStep \/ Leave PROVE draining' \in {"no", "blocked", "more", "nested"}
    <3>1. draining' = draining \/ draining' \in {"no", "blocked", "more", "nested"}
      BY <2>1
      DEF VmStep, PopCanceled, PopError, PopTask, PopFrozen, Block, WaitCanceled, Stuck, Terminate,
          Work, Raise, Enter, Leave, NestedReturns, AwaitValue, AwaitPromise,
          HandleNotification, Done, EndEvaluation, StartAsync, Accept, HostCall,
          HostCallSettles, HostRefuses, SyncCall, Notify
    <3> QED
      BY <1>0, <3>1 DEF Ranges
  <2>2. ASSUME NEW b \in Eval, Evaluate(b) PROVE draining' \in {"no", "blocked", "more", "nested"}
    BY <1>0, <2>2 DEF Evaluate, Ranges
  <2>3. UNCHANGED vmVars \/ UNCHANGED vars => draining' \in {"no", "blocked", "more", "nested"}
    BY <1>0 DEF vmVars, vars, Ranges
  <2> QED
    BY <2>1, <2>2, <2>3 DEF Next
<1> QED
  BY <1>1, <1>2 DEF Ranges


-----------------------------------------------------------------------------
(* The invariant holds.                                                      *)

(* At first there is the root, ready to run.                                 *)
LEMMA InitIInv == Init => IInv
<1> SUFFICES ASSUME Init PROVE IInv
  OBVIOUS
<1>1. PICK b \in Main : tasks = <<NewTask(Code[b], "root", 0)>>
  BY DEF Init
<1>2. Code[b] \in Seq(Op) /\ Code[b] \in Seq(Instruction)
  BY CodeIs, VmAssumption
<1> DEFINE root == NewTask(Code[b], "root", 0)
<1>3. /\ root \in TaskRec /\ root.live /\ root.ends = "root" /\ root.code = Code[b]
  BY <1>2 DEF NewTask, TaskRec
<1> HIDE DEF root
<1>4. tasks \in Seq(TaskRec) /\ Len(tasks) = 1 /\ tasks[1] = root
  <2>1. tasks = <<root>>
    BY <1>1 DEF root
  <2> QED
    BY <1>3, <2>1, SingletonIs
<1>5. Task(1) \in Event
  BY DEF Task, Event
<1>6. ready \in Seq(Event) /\ Contains(ready, Task(1))
  BY <1>5, SingletonIs DEF Init
<1>7. /\ <<>> \in Seq(Event) /\ <<>> \in Seq(PromiseRec) /\ <<>> \in Seq(Completion)
      /\ Len(<<>>) = 0
  BY EmptySeq
<1>8. Shape
  <2>1. NotPaused \in [task : Nat, floor : Nat, ready : Seq(Event)]
    BY <1>7 DEF NotPaused
  <2>2. hosts = <<>> /\ hosts \in [DOMAIN hosts -> Kind] /\ DOMAIN hosts = {}
    BY DEF Init
  <2>3. promises \in Seq(PromiseRec) /\ Len(promises) = 0 /\ channel \in Seq(Completion)
    BY <1>7 DEF Init
  <2>4. slots \in [Slot -> 0..Len(promises)]
    BY <2>3 DEF Init
  <2>5. syncWait \in [task : Nat, promise : Nat]
    BY DEF Init, NoWait
  <2>6. current \in 0..Len(tasks) /\ nextOp \in Nat
    BY <1>4 DEF Init
  <2>7. /\ paused = NotPaused /\ running = {} /\ canceled = FALSE /\ phase = "live"
    BY DEF Init
  <2> QED
    BY <1>4, <1>6, <2>1, <2>2, <2>3, <2>4, <2>5, <2>6, <2>7 DEF Shape
<1>9. Programs /\ Turns /\ FrozenWaits
  BY <1>2, <1>3, <1>4 DEF Init, Programs, Turns, FrozenWaits, Evaluating, Frozen
<1>10. Produced
  BY <1>3, <1>4, <1>7 DEF Init, Produced, Fn
<1>11. Flights /\ FilesOnTheirWay
  BY <1>7 DEF Init, Flights, FilesOnTheirWay
<1>12. NobodyLost
  BY <1>4, <1>6, <1>7 DEF Init, NobodyLost, Somewhere
<1>13. Once
  <2>1. paused.ready = <<>> /\ ready = <<Task(1)>> /\ promises = <<>> /\ paused.task = 0
    BY DEF Init, NotPaused
  <2>2. Line = ready
    BY <1>6, <2>1, ConcatEmptySeq DEF Line
  <2>3. Single(Line) /\ \A e : Contains(Line, e) <=> e = Task(1)
    BY <1>5, <2>1, <2>2, FewOrder
  <2>4. Free(1)
    BY <1>3, <1>4, <2>1 DEF Init, Free
  <2>5. Legit(Task(1))
    BY <2>4 DEF Legit, Task
  <2> QED
    BY <1>7, <2>1, <2>3, <2>5 DEF Once
<1>14. Awaited /\ Numbered /\ Ranges
  <2>1. Awaited /\ Ranges
    BY DEF Init, Awaited, Ranges, Verdict, Frozen
  <2>2. tasks[1].promise = 0
    BY <1>4 DEF root, NewTask
  <2> QED
    BY <1>4, <1>7, <2>1, <2>2 DEF Init, Numbered, NoWait, Evaluating
<1> QED
  BY <1>8, <1>9, <1>10, <1>11, <1>12, <1>13, <1>14 DEF IInv

(* No step breaks it.                                                        *)
LEMMA StepIInv == IInv /\ [Next]_vars => IInv'
  BY ShapeStep, TurnsStep, FrozenStep, ProducedStep, FlightsStep, FilesStep, LostStep, OnceStep,
     AwaitedStep, NumberedStep, RangesStep
  DEF IInv

(* The invariant holds in every reachable state.                             *)
THEOREM Invariant == Spec => []IInv
<1> QED
  BY InitIInv, StepIInv, PTL DEF Spec

(* While the debugger evaluates an expression, no task of the paused         *)
(* execution changes: events of older tasks wait until the evaluation is     *)
(* over (poll_linked, the floor of the evaluation).                          *)
THEOREM EvaluationRunsAlone == Spec => EvaluationIsAlone
<1>1. IInv /\ [Next]_vars =>
         [Evaluating => \A t \in DOMAIN tasks : t < paused.floor => tasks'[t] = tasks[t]]_vars
  <2> SUFFICES ASSUME IInv, [Next]_vars
               PROVE  Evaluating =>
                         \A t \in DOMAIN tasks : t < paused.floor => tasks'[t] = tasks[t]
    OBVIOUS
  <2>1. DOMAIN tasks = 1..Len(tasks)
    BY ShapeIs DEF IInv
  <2> QED
    BY <2>1, TasksStep DEF Alone
<1> QED
  BY <1>1, Invariant, PTL DEF Spec, EvaluationIsAlone

(* When an execution is gone, every temporary file made for it is in the     *)
(* registry (the drop of AsyncState waits for them).                         *)
THEOREM FilesReachTheRegistry == Spec => []FilesAreKept
<1>1. IInv => FilesAreKept
  <2> SUFFICES ASSUME IInv, phase = "gone"
               PROVE  files.made \subseteq files.kept /\ \A o \in running : o.kind # "temp"
    BY DEF FilesAreKept
  <2>1. FilesOnTheirWay /\ dropWaits = {} /\ phase # "live"
    BY DEF IInv, FilesOnTheirWay
  <2>2. \A i \in 1..Len(channel) : channel[i].kind # "temp"
    BY <2>1 DEF FilesOnTheirWay
  <2> QED
    BY <2>1, <2>2 DEF FilesOnTheirWay
<1> QED
  BY <1>1, Invariant, PTL

(* An execution that is reported stuck is stuck in a cycle of functions.     *)
THEOREM StuckIsACycle == Spec => []StuckMeansCycle
<1>1. IInv => StuckMeansCycle
  <2> SUFFICES ASSUME IInv, verdict = "stuck", ~Evaluating, ~canceled,
                      NEW t \in DOMAIN tasks, tasks[t].live
               PROVE  \E p \in DOMAIN promises, u \in DOMAIN tasks :
                         /\ t \in Range(promises[p].waiters)
                         /\ tasks[u].live /\ tasks[u].ends = "promise"
                         /\ tasks[u].promise = p
    BY DEF StuckMeansCycle
  <2>1. /\ t \in 1..Len(tasks) /\ t # 0 /\ Shape /\ Produced /\ NobodyLost
        /\ DOMAIN tasks = 1..Len(tasks) /\ DOMAIN promises = 1..Len(promises)
    BY ShapeIs DEF IInv
  <2>2. /\ ready = <<>> /\ paused.ready = <<>> /\ current = 0 /\ paused.task = 0
        /\ DOMAIN hosts = {}
    BY <2>1 DEF NobodyLost, Evaluating, NotPaused
  <2>3. ~Contains(<<>>, Task(t))
    BY DEF Contains
  <2>4. PICK p \in 1..Len(promises) : Contains(promises[p].waiters, t)
    BY <2>1, <2>2, <2>3 DEF NobodyLost, Somewhere
  <2>5. promises[p].waiters # <<>>
    BY <2>4 DEF Contains
  <2>6. Pending(p)
    BY <2>1, <2>5 DEF NobodyLost
  <2>7. PICK u \in 1..Len(tasks) : Fn(u) /\ tasks[u].promise = p
    BY <2>1, <2>2, <2>6 DEF Produced
  <2>8. tasks[u].live
    BY <2>1, <2>6, <2>7 DEF Produced
  <2>9. t \in Range(promises[p].waiters)
    BY <2>1, <2>4, ShapeIs DEF Contains, Range, PromiseRec
  <2> QED
    BY <2>1, <2>7, <2>8, <2>9 DEF Fn
<1> QED
  BY <1>1, Invariant, PTL

(* The operations and completions of one promise, and that there is at most  *)
(* one.                                                                      *)
LEMMA InFlightIs ==
    ASSUME Shape, Flights
    PROVE  /\ \A o \in InFlight : Expected(o)
           /\ \A o, x \in InFlight : o.promise = x.promise => o = x
           /\ phase = "live" => \A p \in DOMAIN hosts : \E o \in InFlight : o.promise = p
<1> DEFINE sent(c) == [op |-> c.op, promise |-> c.promise, kind |-> c.kind]
<1>1. DOMAIN channel = 1..Len(channel)
  BY LenProperties DEF Shape
<1>2. \A c : sent(c).op = c.op /\ sent(c).promise = c.promise /\ sent(c).kind = c.kind
  OBVIOUS
<1>3. InFlight = running \cup {sent(channel[i]) : i \in 1..Len(channel)}
  BY <1>1 DEF InFlight, Range
<1> HIDE DEF sent
<1>4. \A o \in InFlight : Expected(o)
  BY <1>2, <1>3 DEF Flights, Expected
<1>5. \A o, x \in InFlight : o.promise = x.promise => o = x
  <2> SUFFICES ASSUME NEW o \in InFlight, NEW x \in InFlight, o.promise = x.promise
               PROVE  o = x
    OBVIOUS
  <2>1. CASE o \in running /\ x \in running
    BY <2>1 DEF Flights
  <2>2. ASSUME NEW i \in 1..Len(channel), NEW k \in 1..Len(channel),
               o = sent(channel[i]), x = sent(channel[k])
        PROVE  o = x
    BY <1>2, <2>2 DEF Flights
  <2>3. ASSUME NEW i \in 1..Len(channel), \/ o = sent(channel[i]) /\ x \in running
                                          \/ x = sent(channel[i]) /\ o \in running
        PROVE  FALSE
    BY <1>2, <2>3 DEF Flights
  <2> QED
    BY <1>3, <2>1, <2>2, <2>3
<1>6. ASSUME phase = "live", NEW p \in DOMAIN hosts
      PROVE  \E o \in InFlight : o.promise = p
  BY <1>2, <1>3, <1>6 DEF Flights
<1> QED
  BY <1>4, <1>5, <1>6

(* A pending promise has exactly one producer, an operation on its way or    *)
(* the task of its function, and no other promise has one                    *)
(* (resolve_promise and the numbers that a refused operation gives back).    *)
THEOREM PromisesHaveProducers == Spec => []Producers
<1>1. IInv => Producers
  <2> SUFFICES ASSUME IInv, phase = "live" PROVE
          /\ \A p \in DOMAIN promises :
             LET ops == {o \in InFlight : o.promise = p}
                 fns == {t \in DOMAIN tasks : /\ tasks[t].live
                                              /\ tasks[t].ends = "promise"
                                              /\ tasks[t].promise = p}
             IN /\ Pending(p) <=> Cardinality(ops) + Cardinality(fns) = 1
                /\ ~Pending(p) => ops = {} /\ fns = {}
                /\ p \in DOMAIN hosts <=> ops # {}
                /\ \A o \in ops : o.op = promises[p].op /\ o.kind = hosts[p]
          /\ \A o \in InFlight : o.promise \in DOMAIN promises
    BY DEF Producers
  <2>0. /\ Shape /\ Produced /\ Flights /\ DOMAIN tasks = 1..Len(tasks)
        /\ DOMAIN promises = 1..Len(promises) /\ DOMAIN hosts \subseteq 1..Len(promises)
    BY ShapeIs DEF IInv, Shape
  <2>1. /\ \A o \in InFlight : Expected(o)
        /\ \A o, x \in InFlight : o.promise = x.promise => o = x
        /\ \A p \in DOMAIN hosts : \E o \in InFlight : o.promise = p
    BY <2>0, InFlightIs
  <2>2. \A o \in InFlight : o.promise \in DOMAIN promises
    BY <2>0, <2>1 DEF Expected
  <2>3. Cardinality({}) = 0 /\ \A x : Cardinality({x}) = 1
    BY FS_EmptySet, FS_Singleton
  <2>4. ASSUME NEW p \in DOMAIN promises, NEW ops, NEW fns,
               ops = {o \in InFlight : o.promise = p},
               fns = {t \in DOMAIN tasks : /\ tasks[t].live
                                            /\ tasks[t].ends = "promise"
                                            /\ tasks[t].promise = p}
        PROVE  /\ Pending(p) <=> Cardinality(ops) + Cardinality(fns) = 1
               /\ ~Pending(p) => ops = {} /\ fns = {}
               /\ p \in DOMAIN hosts <=> ops # {}
               /\ \A o \in ops : o.op = promises[p].op /\ o.kind = hosts[p]
    <3>1. \A o \in ops : p \in DOMAIN hosts /\ o.op = promises[p].op /\ o.kind = hosts[p]
      BY <2>1, <2>4 DEF Expected
    <3>2. \A t \in fns : p \notin DOMAIN hosts /\ Pending(p)
      BY <2>0, <2>4 DEF Produced, Fn
    <3>3. CASE p \in DOMAIN hosts
      <4>1. PICK o \in InFlight : o.promise = p
        BY <2>1, <3>3
      <4>2. ops = {o}
        BY <2>1, <2>4, <4>1
      <4>3. fns = {} /\ Pending(p)
        BY <2>0, <3>2, <3>3 DEF Produced
      <4>4. Cardinality(ops) = 1 /\ Cardinality(fns) = 0 /\ ops # {}
        BY <2>3, <4>2, <4>3
      <4> QED
        BY <3>1, <3>3, <4>3, <4>4
    <3>4. CASE p \notin DOMAIN hosts /\ Pending(p)
      <4>1. PICK t \in 1..Len(tasks) : Fn(t) /\ tasks[t].promise = p
        BY <2>0, <3>4 DEF Produced
      <4>2. tasks[t].live
        BY <2>0, <3>4, <4>1 DEF Produced
      <4>3. fns = {t}
        BY <2>0, <2>4, <4>1, <4>2 DEF Produced, Fn
      <4>4. ops = {}
        BY <3>1, <3>4
      <4>5. Cardinality(ops) = 0 /\ Cardinality(fns) = 1
        BY <2>3, <4>3, <4>4
      <4> QED
        BY <3>4, <4>4, <4>5
    <3>5. CASE p \notin DOMAIN hosts /\ ~Pending(p)
      <4>1. fns = {} /\ ops = {}
        BY <3>1, <3>2, <3>5
      <4>2. Cardinality(ops) = 0 /\ Cardinality(fns) = 0
        BY <2>3, <4>1
      <4> QED
        BY <3>5, <4>1, <4>2
    <3> QED
      BY <3>3, <3>4, <3>5
  <2> QED
    BY <2>2, <2>4, ZenonT(30)
<1> QED
  BY <1>1, Invariant, PTL

(* A sequence of different tasks is not longer than there are tasks.         *)
LEMMA FewWaiters ==
    ASSUME NEW n \in Nat, NEW q \in Seq(Nat), Single(q), \A t : Contains(q, t) => t \in 1..n
    PROVE  Len(q) <= n
<1>1. PICK m : m = Len(q)
  OBVIOUS
<1>2. m \in Nat /\ DOMAIN q = 1..m /\ q = [i \in 1..m |-> q[i]]
  BY <1>1, LenProperties
<1>3. q \in [1..m -> 1..n]
  BY <1>1, <1>2 DEF Contains
<1>4. \A i, k \in 1..m : q[i] = q[k] => i = k
  BY <1>1 DEF Single
<1>5. \A k \in Nat : IsFiniteSet(1..k) /\ Cardinality(1..k) = k
  <2> TAKE k \in Nat
  <2>1. /\ IsFiniteSet(1..k)
        /\ Cardinality(1..k) = IF 1 > k THEN 0 ELSE k - 1 + 1
    BY FS_Interval
  <2> QED
    BY <2>1
<1>6. ASSUME n < m PROVE FALSE
  <2>1. Cardinality(1..n) < Cardinality(1..m) /\ IsFiniteSet(1..m) /\ IsFiniteSet(1..n)
    BY <1>2, <1>5, <1>6
  <2>2. \E i, k \in 1..m : i # k /\ q[i] = q[k]
    BY <1>3, <2>1, FS_PigeonHole
  <2> QED
    BY <1>4, <2>2
<1> QED
  BY <1>1, <1>2, <1>6

(* A task that may be woken stands in no more than one place, any other in   *)
(* none.                                                                     *)
LEMMA PlacesIs ==
    ASSUME IInv, NEW t \in 1..Len(tasks)
    PROVE  /\ ~Free(t) => Places(t) = 0
           /\ Somewhere(t) => Places(t) = 1
<1>0. /\ Shape /\ Once /\ Len(tasks) \in Nat /\ DOMAIN promises = 1..Len(promises)
      /\ \A p \in 1..Len(promises) : promises[p].waiters \in Seq(Nat)
      /\ DOMAIN Line = 1..Len(Line) /\ Single(Line)
  <2>1. Line \in Seq(Event)
    BY LineIs DEF IInv
  <2> QED
    BY <2>1, ShapeIs, LenProperties DEF IInv, PromiseRec, Once
<1> DEFINE A == {i \in DOMAIN Line : Line[i] = Task(t)}
           B == {w \in (DOMAIN promises) \X (1..Len(tasks)) :
                    /\ w[2] \in DOMAIN promises[w[1]].waiters
                    /\ promises[w[1]].waiters[w[2]] = t}
<1>1. Places(t) = Cardinality(A) + Cardinality(B)
  BY DEF Places
<1>2. Cardinality({}) = 0 /\ \A x : Cardinality({x}) = 1
  BY FS_EmptySet, FS_Singleton
<1>3. ~Contains(Line, Task(t)) => A = {}
  BY <1>0 DEF Contains
<1>4. Contains(Line, Task(t)) => \E i : A = {i}
  <2> SUFFICES ASSUME Contains(Line, Task(t)) PROVE \E i : A = {i}
    OBVIOUS
  <2>1. PICK i \in 1..Len(Line) : Line[i] = Task(t)
    BY DEF Contains
  <2>2. A = {i}
    BY <1>0, <2>1 DEF Single
  <2> QED
    BY <2>2
<1>5. ASSUME NEW p \in 1..Len(promises)
      PROVE  /\ promises[p].waiters \in Seq(Nat) /\ Single(promises[p].waiters)
             /\ DOMAIN promises[p].waiters = 1..Len(promises[p].waiters)
             /\ \A i \in 1..Len(promises[p].waiters) : i \in 1..Len(tasks)
  <2>1. PICK q : q = promises[p].waiters
    OBVIOUS
  <2>2. q \in Seq(Nat) /\ Single(q)
    BY <1>0, <2>1 DEF Once
  <2>3. \A u : Contains(q, u) => u \in 1..Len(tasks)
    BY <1>0, <2>1 DEF Once, WaitsFor, Free
  <2>4. PICK n \in Nat : n = Len(tasks)
    BY <1>0
  <2>5. Len(q) <= n /\ Len(q) \in Nat /\ DOMAIN q = 1..Len(q)
    BY <2>2, <2>3, <2>4, FewWaiters, LenProperties
  <2> QED
    BY <2>1, <2>2, <2>4, <2>5
<1>6. (\A p \in 1..Len(promises) : ~WaitsFor(t, p)) => B = {}
  BY <1>0, <1>5 DEF WaitsFor, Contains
<1>7. ASSUME NEW p \in 1..Len(promises), WaitsFor(t, p)
      PROVE  \E x : B = {x}
  <2>1. PICK i \in 1..Len(promises[p].waiters) : promises[p].waiters[i] = t
    BY <1>7 DEF WaitsFor, Contains
  <2>2. i \in 1..Len(tasks) /\ i \in DOMAIN promises[p].waiters
    BY <1>5, <2>1
  <2>3. <<p, i>> \in B
    BY <1>0, <2>1, <2>2
  <2>4. ASSUME NEW r \in 1..Len(promises), NEW k \in 1..Len(promises[r].waiters),
               promises[r].waiters[k] = t
        PROVE  r = p /\ k = i
    <3>1. WaitsFor(t, r)
      BY <2>4 DEF WaitsFor, Contains
    <3>2. r = p
      BY <1>0, <1>7, <3>1 DEF Once
    <3> QED
      BY <1>5, <2>1, <2>4, <3>2 DEF Single
  <2>5. ASSUME NEW w \in B
        PROVE  w = <<p, i>>
    <3>1. /\ w = <<w[1], w[2]>> /\ w[1] \in 1..Len(promises)
          /\ w[2] \in DOMAIN promises[w[1]].waiters /\ promises[w[1]].waiters[w[2]] = t
      BY <1>0, <2>5
    <3>2. w[1] = p /\ w[2] = i
      BY <1>5, <2>4, <3>1
    <3> QED
      BY <3>1, <3>2
  <2>6. B = {<<p, i>>}
    BY <2>3, <2>5
  <2> QED
    BY <2>6
<1> HIDE DEF A, B
<1>8. /\ Cardinality(A) = 0 /\ Cardinality(B) = 0 => Places(t) = 0
      /\ Cardinality(A) = 0 /\ Cardinality(B) = 1 => Places(t) = 1
      /\ Cardinality(A) = 1 /\ Cardinality(B) = 0 => Places(t) = 1
  BY <1>1
<1>9. ASSUME ~Free(t) PROVE Places(t) = 0
  <2>1. ~Contains(Line, Task(t)) /\ \A p \in 1..Len(promises) : ~WaitsFor(t, p)
    BY <1>0, <1>9, NotInLine DEF Once
  <2> QED
    BY <1>2, <1>3, <1>6, <1>8, <2>1
<1>10. ASSUME Somewhere(t) PROVE Places(t) = 1
  <2>1. CASE Contains(Line, Task(t))
    <3>1. \A p \in 1..Len(promises) : ~WaitsFor(t, p)
      BY <1>0, <2>1 DEF Once
    <3> QED
      BY <1>2, <1>4, <1>6, <1>8, <2>1, <3>1
  <2>2. CASE \E p \in 1..Len(promises) : WaitsFor(t, p)
    <3>1. ~Contains(Line, Task(t))
      BY <1>0, <2>2 DEF Once
    <3> QED
      BY <1>2, <1>3, <1>7, <1>8, <2>2, <3>1
  <2> QED
    BY <1>0, <1>10, <2>1, <2>2, LineIs DEF Somewhere, WaitsFor
<1> QED
  BY <1>9, <1>10

(* The type invariant of the model.                                          *)
LEMMA TypesHold == IInv => TypeOK
<1> SUFFICES ASSUME IInv PROVE TypeOK
  OBVIOUS
<1>0. /\ Shape /\ Turns /\ Once /\ Numbered /\ Flights /\ NobodyLost /\ Ranges
      /\ Len(tasks) \in Nat /\ Len(promises) \in Nat
      /\ DOMAIN tasks = 1..Len(tasks) /\ DOMAIN promises = 1..Len(promises)
      /\ \A p \in 1..Len(promises) : promises[p] \in PromiseRec
  BY ShapeIs DEF IInv
<1>1. ASSUME NEW q \in Seq(Event), \A e : Contains(q, e) => Contains(Line, e)
      PROVE  q \in Seq(Events)
  <2>1. PICK n \in Nat : n = Len(q)
    BY LenProperties
  <2>2. q = [i \in 1..n |-> q[i]]
    BY <2>1, LenProperties
  <2>3. ASSUME NEW i \in 1..n
        PROVE  q[i] \in Events
    <3>1. q[i] \in Event /\ Contains(q, q[i])
      BY <2>1, ElementOfSeq DEF Contains
    <3>2. Legit(q[i])
      BY <1>0, <1>1, <3>1 DEF Once
    <3>3. q[i].of \in DOMAIN tasks
      BY <1>0, <3>2 DEF Legit, Free
    <3> QED
      BY <3>1, <3>3 DEF Event, Events
  <2>4. q \in [1..n -> Events]
    BY <2>2, <2>3
  <2> QED
    BY <2>4, SeqDef
<1>2. ready \in Seq(Events) /\ paused.ready \in Seq(Events)
  BY <1>0, <1>1, LineIs
<1>3. \A t \in DOMAIN tasks : tasks[t].promise \in 0..Len(promises)
  <2>1. \A t \in 1..Len(tasks) : tasks[t].promise \in Nat
    BY <1>0, ShapeIs DEF TaskRec
  <2> QED
    BY <1>0, <2>1 DEF Numbered
<1>4. ASSUME NEW p \in DOMAIN promises
      PROVE  /\ promises[p].state \in {"pending", "ok", "err"}
             /\ Range(promises[p].waiters) \subseteq DOMAIN tasks
             /\ promises[p].state # "pending" => promises[p].waiters = <<>>
  <2>1. promises[p].state \in {"pending", "ok", "err"} /\ promises[p].waiters \in Seq(Nat)
    BY <1>0 DEF PromiseRec
  <2>2. promises[p].state # "pending" => promises[p].waiters = <<>>
    BY <1>0 DEF NobodyLost, Pending
  <2>3. ASSUME NEW t \in Range(promises[p].waiters)
        PROVE  t \in DOMAIN tasks
    <3>1. WaitsFor(t, p)
      BY <2>1, LenProperties DEF Range, WaitsFor, Contains
    <3> QED
      BY <1>0, <3>1 DEF Once, Free
  <2> QED
    BY <2>1, <2>2, <2>3
<1>5. DOMAIN hosts \subseteq DOMAIN promises /\ \A s \in Slot : slots[s] \in 0..Len(promises)
  BY <1>0 DEF Shape
<1>6. syncWait.promise \in 0..Len(promises)
  BY <1>0 DEF Shape, Numbered
<1>7. \A o, x \in InFlight : o.op = x.op => o.promise = x.promise
  <2>1. \A o \in InFlight : Expected(o)
    BY <1>0, InFlightIs
  <2>2. \A o \in InFlight : o.promise \in 1..Len(promises) /\ promises[o.promise].op = o.op
    BY <1>0, <2>1 DEF Expected, Shape
  <2> QED
    BY <1>0, <2>2 DEF Numbered
<1>8. current \in 0..Len(tasks) /\ (current # 0 => tasks[current].live)
  BY <1>0 DEF Shape, Turns
<1>9. draining \in {"no", "blocked", "more", "nested"}
      /\ verdict \in {"none", "complete", "failed", "canceled", "stuck", "terminated", "broken"}
  BY <1>0 DEF Ranges, Verdict
<1> QED
  BY <1>2, <1>3, <1>4, <1>5, <1>6, <1>7, <1>8, <1>9 DEF TypeOK

(* A live task that does not run stands in exactly one place, the line or    *)
(* the waiters of one promise, and nothing inside is ever broken             *)
(* (AsyncState: resolve_promise, park, the loop of poll_linked).             *)
THEOREM EverybodyHasOnePlace == Spec => []OnePlace
<1>1. IInv => OnePlace
  <2> SUFFICES ASSUME IInv PROVE OnePlace
    OBVIOUS
  <2>1. TypeOK /\ verdict # "broken" /\ DOMAIN tasks = 1..Len(tasks) /\ NobodyLost
    BY TypesHold, ShapeIs DEF IInv, Ranges, Verdict
  <2>2. ASSUME verdict = "none", ~canceled, NEW t \in DOMAIN tasks
        PROVE  Places(t) = IF tasks[t].live /\ t \notin {current, paused.task} THEN 1 ELSE 0
    <3>1. CASE Free(t)
      <4>1. Somewhere(t)
        BY <2>1, <2>2, <3>1 DEF NobodyLost, Free
      <4> QED
        BY <2>1, <3>1, <4>1, PlacesIs DEF Free
    <3>2. CASE ~Free(t)
      BY <2>1, <3>2, PlacesIs DEF Free
    <3> QED
      BY <3>1, <3>2
  <2> QED
    BY <2>1, <2>2 DEF OnePlace
<1> QED
  BY <1>1, Invariant, PTL

(* What stands in the line keeps its order, also over an evaluation; a task  *)
(* that is woken and the error of a procedure come last; only the task that  *)
(* runs and one it has started go to the front (Scheduler::ready).           *)
THEOREM TheLineIsAFifo == Spec => NoOvertaking
<1> DEFINE Fifo ==
        \A e, f \in Range(Line') : f \in Range(Line) =>
            IF e \in Range(Line)
            THEN Before(Line, e, f) => Before(Line', e, f)
            ELSE e.is = "error" \/ (e.of # current /\ e.of \in DOMAIN tasks)
                   => Before(Line', f, e)
<1>1. IInv /\ [Next]_vars => Fifo
  <2> SUFFICES ASSUME IInv, [Next]_vars, NEW e \in Range(Line'), NEW f \in Range(Line'),
                      f \in Range(Line)
               PROVE  IF e \in Range(Line)
                      THEN Before(Line, e, f) => Before(Line', e, f)
                      ELSE e.is = "error" \/ (e.of # current /\ e.of \in DOMAIN tasks)
                             => Before(Line', f, e)
    OBVIOUS
  <2>0. /\ Len(tasks) \in Nat /\ DOMAIN tasks = 1..Len(tasks)
        /\ DOMAIN Line = 1..Len(Line)
    <3>1. Line \in Seq(Event)
      BY LineIs DEF IInv
    <3> QED
      BY <3>1, ShapeIs, LenProperties DEF IInv
  <2>1. DOMAIN Line' = 1..Len(Line')
    <3>1. IInv'
      BY StepIInv
    <3>2. paused.ready' \in Seq(Event) /\ ready' \in Seq(Event)
      BY <3>1 DEF IInv, Shape
    <3>3. Line' \in Seq(Event)
      BY <3>2, ConcatProperties DEF Line
    <3> QED
      BY <3>3, LenProperties
  <2>2. \A x : (x \in Range(Line) <=> Contains(Line, x))
               /\ (x \in Range(Line') <=> Contains(Line', x))
    BY <2>0, <2>1 DEF Range, Contains
  <2>3. Flow
    BY OnceStep
  <2>4. PICK gone : \E fresh, late :
           /\ Moved(gone, fresh, late)
           /\ \A x \in fresh : x \in late \/ x \in {Task(current), Task(Len(tasks) + 1)}
    BY <2>3 DEF Flow
  <2>5. PICK fresh : \E late :
           /\ Moved(gone, fresh, late)
           /\ \A x \in fresh : x \in late \/ x \in {Task(current), Task(Len(tasks) + 1)}
    BY <2>4
  <2>6. PICK late :
           /\ Moved(gone, fresh, late)
           /\ \A x \in fresh : x \in late \/ x \in {Task(current), Task(Len(tasks) + 1)}
    BY <2>5
  <2>7. Contains(Line', e) /\ Contains(Line', f) /\ Contains(Line, f)
    BY <2>2
  <2>8. f # gone
    BY <2>6, <2>7 DEF Moved
  <2>9. CASE Contains(Line, e)
    <3>1. e # gone
      BY <2>6, <2>7, <2>9 DEF Moved
    <3> QED
      BY <2>2, <2>6, <2>8, <2>9, <3>1 DEF Moved
  <2>10. CASE ~Contains(Line, e) /\ (e.is = "error" \/ (e.of # current /\ e.of \in DOMAIN tasks))
    <3>1. e \in fresh
      BY <2>6, <2>7, <2>10 DEF Moved
    <3>2. e # Task(current) /\ e # Task(Len(tasks) + 1)
      BY <2>0, <2>10 DEF Task
    <3>3. e \in late
      BY <2>6, <3>1, <3>2
    <3> QED
      BY <2>2, <2>6, <2>7, <2>8, <2>10, <3>3 DEF Moved
  <2> QED
    BY <2>2, <2>9, <2>10
<1>2. IInv /\ [Next]_vars => [Fifo]_vars
  BY <1>1
<1> QED
  BY <1>2, Invariant, PTL DEF Spec, NoOvertaking
=============================================================================
