---------------------------- MODULE JobPoolProofs ----------------------------
(* Proofs about JobPool, for every program, any number of threads and every  *)
(* combination of faults: a live job is in exactly one place, no wake-up is  *)
(* lost, and the pool implements the lifecycle of a job.                     *)
EXTENDS JobPool, CollectionTheorems

-----------------------------------------------------------------------------
(* Where a job is.                                                           *)
InQueue(j) == \E i \in 1..Len(queue) : queue[i] = j
Resident(j) == \E w \in Worker : \E i \in 1..Len(residents[w]) : residents[w][i].job = j
InFrame(j) == \E w \in Worker : \E i \in 1..Len(stack[w]) : stack[w][i].job = j

(* No job is in two places, and no live job is nowhere.                      *)
QueueOnce == \A i, k \in 1..Len(queue) : queue[i] = queue[k] => i = k
PoolOnce ==
    \A v, w \in Worker :
        \A i \in 1..Len(residents[v]), k \in 1..Len(residents[w]) :
            residents[v][i].job = residents[w][k].job => v = w /\ i = k
FrameOnce ==
    \A v, w \in Worker : \A i \in 1..Len(stack[v]), k \in 1..Len(stack[w]) :
        stack[v][i].job = stack[w][k].job /\ stack[v][i].job \in Job => v = w /\ i = k
Apart ==
    \A j \in Job : /\ ~ (InQueue(j) /\ Resident(j))
                   /\ ~ (InQueue(j) /\ InFrame(j))
                   /\ ~ (Resident(j) /\ InFrame(j))
Kept == \A j \in Job : Live(j) => InQueue(j) \/ Resident(j) \/ InFrame(j)
Placed == QueueOnce /\ PoolOnce /\ FrameOnce /\ Apart /\ Kept

(* What the program counter of a frame says of the status of its job (st)    *)
(* and of its write-set.                                                     *)
Standing(f, st, pub) ==
    /\ f.pc \in {"loop", "asleep"} => f.job = NoJob
    /\ f.pc \notin {"loop", "asleep", "exited"} => f.job \in Job
    /\ f.pc \in {"load", "start"} => st[f.job] \in {"queued"} \cup Terminal
    /\ f.pc \in {"prepare", "poll", "exec", "park", "claim"} =>
          st[f.job] \in {"running"} \cup Terminal
    /\ f.pc \in {"commit", "finish"} => st[f.job] = "committing"
    /\ f.pc = "exited" /\ f.job \in Job => st[f.job] \in Terminal
    /\ f.pc \in {"claim", "commit", "finish"} => f.how \in {"completed", "failed"}
    /\ f.pc = "finish" /\ f.how = "completed" => f.job \in pub

Standings ==
    /\ \A i \in 1..Len(queue) : status[queue[i]] = "queued"
    /\ Closed => \A j \in Job : status[j] # "queued"
    /\ \A w \in Worker : \A i \in 1..Len(residents[w]) :
          status[residents[w][i].job] \in {"running"} \cup Terminal
    /\ \A w \in Worker : \A i \in 1..Len(stack[w]) : Standing(stack[w][i], status, published)

(* The threads: only the top frame is awake, a nested frame serves a wait,   *)
(* and a thread without a catalogue has started nothing.                     *)
Serves(ops) == ops # <<>> /\ Head(ops).op = "wait"
Threads ==
    \A w \in Worker :
        /\ \A i \in 1..Len(stack[w]) - 1 :
              stack[w][i].pc = "exec" /\ Serves(prog[stack[w][i].job])
        /\ Top(w).pc \in {"load", "exited"} => Len(stack[w]) = 1 /\ residents[w] = <<>>
        /\ w \notin loaded => /\ residents[w] = <<>> /\ Len(stack[w]) = 1
                              /\ Top(w).pc \in {"loop", "asleep", "load", "exited"}
        /\ ~At(w, "exited") => panics[w] < PanicLimit

(* Everybody who may sleep over an answer hears of it.                       *)
Stale(w) == \A k \in 1..Len(stack[w]) : stack[w][k].stale
Heard ==
    /\ \A j \in Job : host[j] = "done" => j \in ringing \/ bumped
    /\ \A w \in Worker : \A i \in 1..Len(residents[w]) :
          residents[w][i].waiting /\ host[residents[w][i].job] = "done" =>
              residents[w][i].job \in ringing \/ Stale(w)
    /\ \A w \in Worker :
          At(w, "park") /\ host[Top(w).job] = "done" => Top(w).job \in ringing \/ Stale(w)

IInv == TypeOK /\ Placed /\ Standings /\ Threads
WInv == Heard /\ SleepersHaveNothingToDo /\ QueuedWorkIsSignalled

-----------------------------------------------------------------------------
(* What the operators of the model do.                                       *)

LEMMA StackFacts ==
    ASSUME TypeOK, NEW w \in Worker
    PROVE  /\ stack[w] \in Seq(Frame) /\ Len(stack[w]) \in Nat /\ Len(stack[w]) >= 1
           /\ Depth(w) = Len(stack[w]) /\ Len(stack[w]) \in 1..Len(stack[w])
           /\ Top(w) = stack[w][Len(stack[w])] /\ Top(w) \in Frame
           /\ \A i \in 1..Len(stack[w]) : stack[w][i] \in Frame
<1>1. stack[w] \in Seq(Frame) /\ stack[w] # <<>>
  BY DEF TypeOK
<1>2. Len(stack[w]) \in Nat /\ Len(stack[w]) # 0
  BY <1>1, LenProperties, EmptySeq
<1>3. \A i \in 1..Len(stack[w]) : stack[w][i] \in Frame
  BY <1>1, ElementOfSeq
<1> QED
  BY <1>1, <1>2, <1>3 DEF Depth, Top

(* The pool of a thread is a sequence of jobs with their marks.              *)
LEMMA ResidentFacts ==
    ASSUME TypeOK, NEW w \in Worker
    PROVE  /\ residents[w] \in Seq([job : Job, waiting : BOOLEAN])
           /\ Len(residents[w]) \in Nat /\ DOMAIN residents[w] = 1..Len(residents[w])
           /\ residents[w] = <<>> <=> Len(residents[w]) = 0
           /\ \A i \in 1..Len(residents[w]) :
                 /\ residents[w][i] \in [job : Job, waiting : BOOLEAN]
                 /\ residents[w][i].job \in Job
<1>1. residents[w] \in Seq([job : Job, waiting : BOOLEAN])
  BY DEF TypeOK
<1>2. Len(residents[w]) \in Nat /\ DOMAIN residents[w] = 1..Len(residents[w])
  BY <1>1, LenProperties
<1>3. \A i \in 1..Len(residents[w]) : residents[w][i] \in [job : Job, waiting : BOOLEAN]
  BY <1>1, ElementOfSeq
<1>4. residents[w] = <<>> <=> Len(residents[w]) = 0
  BY <1>1, EmptySeq
<1> QED
  BY <1>1, <1>2, <1>3, <1>4

(* The FIFO is a sequence of jobs.                                           *)
LEMMA QueueFacts ==
    ASSUME TypeOK
    PROVE  /\ queue \in Seq(Job) /\ Len(queue) \in Nat /\ DOMAIN queue = 1..Len(queue)
           /\ queue = <<>> <=> Len(queue) = 0
           /\ \A i \in 1..Len(queue) : queue[i] \in Job
BY LenProperties, EmptySeq, ElementOfSeq DEF TypeOK

(* One frame, the top one of w, becomes f.                                   *)
NewTop(w, f) ==
    /\ stack' \in [Worker -> Seq(Frame)]
    /\ \A v \in Worker : Len(stack'[v]) = Len(stack[v]) /\ stack'[v] # <<>>
    /\ \A v \in Worker : \A i \in 1..Len(stack[v]) :
          stack'[v][i] = IF v = w /\ i = Len(stack[w]) THEN f ELSE stack[v][i]
    /\ \A v \in Worker : Top(v)' = IF v = w THEN f ELSE Top(v)
    /\ \A v \in Worker : v # w => stack'[v] = stack[v]
    /\ \A v \in Worker : Front(stack'[v]) = Front(stack[v])

(* What is left of a stack without its top frame.                            *)
LEMMA FrontIs ==
    ASSUME NEW s \in Seq(Frame), Len(s) >= 1
    PROVE  /\ Front(s) \in Seq(Frame) /\ Len(Front(s)) = Len(s) - 1
           /\ \A i \in 1..Len(s) - 1 : Front(s)[i] = s[i]
<1> DEFINE n == Len(s)
           t == SubSeq(s, 1, n - 1)
<1>1. n \in Nat /\ n >= 1
  BY LenProperties
<1>2. \A i \in 1..n - 1 : s[i] \in Frame
  BY <1>1, ElementOfSeq
<1>3. /\ t \in Seq(Frame)
      /\ Len(t) = IF 1 <= n - 1 THEN n - 1 - 1 + 1 ELSE 0
      /\ \A i \in 1..n - 1 - 1 + 1 : t[i] = s[1 + i - 1]
  BY <1>1, <1>2, SubSeqProperties
<1>4. Front(s) = t
  BY DEF Front
<1> HIDE DEF t, n
<1>5. Len(t) = n - 1
  BY <1>1, <1>3
<1>6. \A i \in 1..n - 1 : t[i] = s[i]
  BY <1>1, <1>3
<1> QED
  BY <1>3, <1>4, <1>5, <1>6 DEF n

(* SetTop changes the top frame of one thread and nothing else.              *)
LEMMA SetTopIs ==
    ASSUME TypeOK, NEW w \in Worker, NEW f \in Frame, SetTop(w, f)
    PROVE  NewTop(w, f)
<1> DEFINE s == [stack[w] EXCEPT ![Len(stack[w])] = f]
<1>1. stack' = [stack EXCEPT ![w] = s]
  BY StackFacts DEF SetTop
<1>2. /\ s \in Seq(Frame) /\ Len(s) = Len(stack[w])
      /\ \A i \in 1..Len(stack[w]) : s[i] = IF i = Len(stack[w]) THEN f ELSE stack[w][i]
  BY StackFacts
<1>3. Front(s) = Front(stack[w])
  <2> DEFINE n == Len(stack[w])
  <2>1. Len(stack[w]) \in Nat /\ Len(stack[w]) >= 1 /\ stack[w] \in Seq(Frame)
    BY StackFacts
  <2> HIDE DEF s
  <2>2. /\ Front(s) \in Seq(Frame) /\ Len(Front(s)) = n - 1
        /\ \A i \in 1..n - 1 : Front(s)[i] = s[i]
    BY <1>2, <2>1, FrontIs
  <2>3. /\ Front(stack[w]) \in Seq(Frame) /\ Len(Front(stack[w])) = n - 1
        /\ \A i \in 1..n - 1 : Front(stack[w])[i] = stack[w][i]
    BY <1>2, <2>1, FrontIs
  <2>4. \A i \in 1..n - 1 : Front(s)[i] = Front(stack[w])[i]
    BY <1>2, <2>1, <2>2, <2>3
  <2> QED
    BY <2>1, <2>2, <2>3, <2>4, SeqEqual
<1>4. stack \in [Worker -> Seq(Frame)] /\ \A v \in Worker : stack[v] # <<>>
  BY DEF TypeOK
<1>5. \A v \in Worker : Len(stack[v]) >= 1 /\ Len(stack[v]) \in Nat
  BY StackFacts
<1> HIDE DEF s
<1>6. \A v \in Worker : stack'[v] = IF v = w THEN s ELSE stack[v]
  BY <1>1, <1>4
<1>7. s # <<>> /\ s[Len(s)] = f
  BY <1>2, <1>5
<1>8. \A v \in Worker : Len(stack'[v]) = Len(stack[v]) /\ stack'[v] # <<>>
  BY <1>2, <1>4, <1>6, <1>7
<1>9. \A v \in Worker : \A i \in 1..Len(stack[v]) :
          stack'[v][i] = IF v = w /\ i = Len(stack[w]) THEN f ELSE stack[v][i]
  BY <1>2, <1>6
<1>10. \A v \in Worker : Top(v)' = IF v = w THEN f ELSE Top(v)
  BY <1>6, <1>7 DEF Top, Depth
<1>11. stack' \in [Worker -> Seq(Frame)]
  BY <1>1, <1>2, <1>4
<1>12. \A v \in Worker : /\ v # w => stack'[v] = stack[v]
                         /\ Front(stack'[v]) = Front(stack[v])
  BY <1>3, <1>6
<1> QED
  BY <1>8, <1>9, <1>10, <1>11, <1>12 DEF NewTop

Statuses == {"new", "queued", "running", "committing"} \cup Terminal

(* The end of some jobs: they are out of the FIFO, the others keep their     *)
(* order and their status.                                                   *)
LEMMA EndIs ==
    ASSUME TypeOK, NEW S, NEW st \in Terminal, End(S, st)
    PROVE  /\ status' \in [Job -> Statuses]
           /\ \A j \in Job : status'[j] = IF j \in S /\ Live(j) THEN st ELSE status[j]
           /\ \A j \in Job : Live(j)' => Live(j) /\ j \notin S /\ status'[j] = status[j]
           /\ published' = published
           /\ queue' \in Seq(Job)
           /\ Len(queue') \in Nat /\ Len(queue) \in Nat /\ Len(queue') <= Len(queue)
           /\ \A i \in 1..Len(queue') : queue'[i] \notin S /\ InQueue(queue'[i])
           /\ QueueOnce => QueueOnce'
           /\ \A j \in Job : j \notin S /\ InQueue(j) => InQueue(j)'
<1>1. /\ queue' = Without(queue, S) /\ published' = published
      /\ status' = [j \in Job |-> IF j \in S /\ Live(j) THEN st ELSE status[j]]
  BY DEF End
<1>2. \A j \in Job : status[j] \in Statuses
  BY DEF TypeOK, Statuses
<1>3. queue \in Seq(Job) /\ Len(queue) \in Nat
  BY QueueFacts
<1>4. /\ queue' \in Seq(Job) /\ Len(queue') <= Len(queue)
      /\ \E m : Keeps(m, queue, Len(queue), S, queue')
  BY <1>1, <1>3, WithoutIs
<1>5. Len(queue') \in Nat
  BY <1>4, LenProperties
<1>6. PICK m : Keeps(m, queue, Len(queue), S, queue')
  BY <1>4
<1>7. /\ \A k \in 1..Len(queue') : m[k] \in 1..Len(queue) /\ queue'[k] = queue[m[k]]
                                   /\ queue'[k] \notin S
      /\ \A k, l \in 1..Len(queue') : k < l => m[k] < m[l]
      /\ \A i \in 1..Len(queue) : queue[i] \notin S => \E k \in 1..Len(queue') : m[k] = i
  BY <1>6 DEF Keeps
<1>8. \A i \in 1..Len(queue') : queue'[i] \notin S /\ InQueue(queue'[i])
  BY <1>7 DEF InQueue
<1>9. ASSUME QueueOnce
      PROVE  QueueOnce'
  <2> SUFFICES ASSUME NEW k \in 1..Len(queue'), NEW l \in 1..Len(queue'),
                      queue'[k] = queue'[l], k < l
               PROVE  FALSE
    BY <1>5 DEF QueueOnce
  <2>1. m[k] < m[l] /\ m[k] \in 1..Len(queue) /\ m[l] \in 1..Len(queue)
    BY <1>7
  <2>2. queue[m[k]] = queue[m[l]]
    BY <1>7
  <2>3. m[k] = m[l]
    BY <1>9, <2>1, <2>2 DEF QueueOnce
  <2> QED
    BY <1>3, <2>1, <2>3
<1>10. ASSUME NEW j \in Job, j \notin S, InQueue(j)
       PROVE  InQueue(j)'
  <2>1. PICK i \in 1..Len(queue) : queue[i] = j
    BY <1>10 DEF InQueue
  <2>2. PICK k \in 1..Len(queue') : m[k] = i
    BY <1>7, <1>10, <2>1
  <2>3. queue'[k] = j
    BY <1>7, <2>1, <2>2
  <2> QED
    BY <2>3 DEF InQueue
<1>11. \A j \in Job : status'[j] = IF j \in S /\ Live(j) THEN st ELSE status[j]
  BY <1>1
<1>12. status' \in [Job -> Statuses]
  BY <1>1, <1>2 DEF Statuses
<1>13. \A j \in Job : Live(j)' => Live(j) /\ j \notin S /\ status'[j] = status[j]
  <2> TAKE j \in Job
  <2>1. st \notin {"queued", "running", "committing"}
    BY DEF Terminal
  <2> QED
    BY <1>11, <2>1 DEF Live
<1> QED
  BY <1>1, <1>3, <1>4, <1>5, <1>8, <1>9, <1>10, <1>11, <1>12, <1>13

(* A job joins the FIFO at its end.                                          *)
LEMMA EnqueueIs ==
    ASSUME TypeOK, NEW j \in Job, Enqueue(j)
    PROVE  /\ status' \in [Job -> Statuses]
           /\ \A k \in Job : status'[k] = IF k = j THEN "queued" ELSE status[k]
           /\ published' = published
           /\ queue' \in Seq(Job) /\ Len(queue) \in Nat /\ Len(queue') = Len(queue) + 1
           /\ \A i \in 1..Len(queue) : queue'[i] = queue[i]
           /\ queue'[Len(queue) + 1] = j
           /\ signals' = [one |-> signals.one + 1, work |-> signals.work, term |-> TRUE]
<1>1. queue \in Seq(Job) /\ Len(queue) \in Nat
  BY QueueFacts
<1>2. /\ queue' = Append(queue, j) /\ status' = [status EXCEPT ![j] = "queued"]
      /\ published' = published
  BY DEF Enqueue
<1>3. /\ queue' \in Seq(Job) /\ Len(queue') = Len(queue) + 1
      /\ \A i \in 1..Len(queue) : queue'[i] = queue[i]
      /\ queue'[Len(queue) + 1] = j
  BY <1>1, <1>2, AppendProperties
<1>4. status \in [Job -> Statuses]
  BY DEF TypeOK, Statuses
<1>5. /\ status' \in [Job -> Statuses]
      /\ \A k \in Job : status'[k] = IF k = j THEN "queued" ELSE status[k]
  BY <1>2, <1>4 DEF Statuses
<1>6. signals' = [one |-> signals.one + 1, work |-> signals.work, term |-> TRUE]
  BY DEF Enqueue, Notify, TypeOK
<1> QED
  BY <1>1, <1>2, <1>3, <1>5, <1>6

(* Every frame hears of the event and changes in nothing else.               *)
LEMMA BumpIs ==
    ASSUME TypeOK, Bump
    PROVE  /\ bumped' = TRUE /\ stack' \in [Worker -> Seq(Frame)]
           /\ \A v \in Worker :
                 /\ Len(stack'[v]) = Len(stack[v]) /\ stack'[v] # <<>>
                 /\ \A i \in 1..Len(stack[v]) :
                       stack'[v][i] = [stack[v][i] EXCEPT !.stale = TRUE]
                 /\ Top(v)' = [Top(v) EXCEPT !.stale = TRUE]
<1>1. /\ bumped' = TRUE
      /\ stack' = [w \in Worker |->
                     [i \in DOMAIN stack[w] |-> [stack[w][i] EXCEPT !.stale = TRUE]]]
  BY DEF Bump
<1>2. ASSUME NEW v \in Worker
      PROVE  /\ stack'[v] \in Seq(Frame)
             /\ Len(stack'[v]) = Len(stack[v]) /\ stack'[v] # <<>>
             /\ \A i \in 1..Len(stack[v]) : stack'[v][i] = [stack[v][i] EXCEPT !.stale = TRUE]
             /\ Top(v)' = [Top(v) EXCEPT !.stale = TRUE]
  <2> DEFINE n == Len(stack[v])
             s == [i \in 1..n |-> [stack[v][i] EXCEPT !.stale = TRUE]]
  <2>1. /\ n \in Nat /\ n >= 1 /\ n \in 1..n /\ DOMAIN stack[v] = 1..n
        /\ Top(v) = stack[v][n]
    BY StackFacts, LenProperties
  <2>2. \A i \in 1..n : [stack[v][i] EXCEPT !.stale = TRUE] \in Frame
    <3> TAKE i \in 1..n
    <3>1. stack[v][i] \in Frame
      BY StackFacts
    <3> QED
      BY <3>1 DEF Frame
  <2>3. stack'[v] = s
    BY <1>1, <2>1
  <2> HIDE DEF n
  <2>4. s \in Seq(Frame)
    <3>1. s \in [1..n -> Frame]
      BY <2>2
    <3> HIDE DEF s
    <3> QED
      BY <2>1, <3>1, SeqDef
  <2>5. Len(s) = n
    <3>1. DOMAIN s = 1..n
      OBVIOUS
    <3> HIDE DEF s
    <3> QED
      BY <2>1, <2>4, <3>1, LenProperties
  <2>6. \A i \in 1..n : s[i] = [stack[v][i] EXCEPT !.stale = TRUE]
    OBVIOUS
  <2> HIDE DEF s
  <2>7. s # <<>>
    BY <2>1, <2>4, <2>5, EmptySeq
  <2>8. Top(v)' = [Top(v) EXCEPT !.stale = TRUE]
    BY <2>1, <2>3, <2>5, <2>6 DEF Top, Depth
  <2> QED
    BY <2>3, <2>4, <2>5, <2>6, <2>7, <2>8 DEF n
<1>3. stack' \in [Worker -> Seq(Frame)]
  <2>1. \A v \in Worker : stack'[v] \in Seq(Frame)
    BY <1>2
  <2> QED
    BY <1>1, <2>1
<1> QED
  BY <1>1, <1>2, <1>3

(* Some sleepers go back to the loop.                                        *)
LEMMA WakeIs ==
    ASSUME TypeOK, NEW S \in SUBSET Worker, Wake(S)
    PROVE  /\ stack' \in [Worker -> Seq(Frame)]
           /\ \A v \in Worker :
                 /\ Len(stack'[v]) = Len(stack[v]) /\ stack'[v] # <<>>
                 /\ \A i \in 1..Len(stack[v]) :
                       stack'[v][i] = IF v \in S /\ i = Len(stack[v])
                                      THEN [Top(v) EXCEPT !.pc = "loop"] ELSE stack[v][i]
                 /\ Top(v)' = IF v \in S THEN [Top(v) EXCEPT !.pc = "loop"] ELSE Top(v)
<1>1. stack' = [w \in Worker |->
                  IF w \in S THEN [stack[w] EXCEPT ![Depth(w)].pc = "loop"] ELSE stack[w]]
  BY DEF Wake
<1>2. ASSUME NEW v \in Worker
      PROVE  /\ stack'[v] \in Seq(Frame)
             /\ Len(stack'[v]) = Len(stack[v]) /\ stack'[v] # <<>>
             /\ \A i \in 1..Len(stack[v]) :
                   stack'[v][i] = IF v \in S /\ i = Len(stack[v])
                                  THEN [Top(v) EXCEPT !.pc = "loop"] ELSE stack[v][i]
             /\ Top(v)' = IF v \in S THEN [Top(v) EXCEPT !.pc = "loop"] ELSE Top(v)
  <2>1. /\ stack[v] \in Seq(Frame) /\ Len(stack[v]) \in Nat /\ Len(stack[v]) >= 1
        /\ Depth(v) = Len(stack[v]) /\ Len(stack[v]) \in 1..Len(stack[v])
        /\ Top(v) = stack[v][Len(stack[v])] /\ Top(v) \in Frame
        /\ stack[v] # <<>>
    BY StackFacts DEF TypeOK
  <2>2. CASE v \in S
    <3> DEFINE f == [Top(v) EXCEPT !.pc = "loop"]
               s == [stack[v] EXCEPT ![Len(stack[v])] = f]
    <3>1. f \in Frame
      BY <2>1 DEF Frame
    <3>2. stack'[v] = s
      BY <1>1, <2>1, <2>2
    <3> HIDE DEF f
    <3>3. /\ s \in Seq(Frame) /\ Len(s) = Len(stack[v])
          /\ \A i \in 1..Len(stack[v]) : s[i] = IF i = Len(stack[v]) THEN f ELSE stack[v][i]
      BY <2>1, <3>1
    <3> HIDE DEF s
    <3>4. s # <<>> /\ s[Len(s)] = f
      BY <2>1, <3>3
    <3>5. Top(v)' = f
      BY <3>2, <3>4 DEF Top, Depth
    <3> QED
      BY <2>2, <3>2, <3>3, <3>4, <3>5 DEF f
  <2>3. CASE v \notin S
    <3>1. stack'[v] = stack[v]
      BY <1>1, <2>3
    <3>2. Top(v)' = Top(v)
      BY <3>1 DEF Top, Depth
    <3> QED
      BY <2>1, <2>3, <3>1, <3>2
  <2> QED
    BY <2>2, <2>3
<1>3. \A v \in Worker : stack'[v] \in Seq(Frame)
  BY <1>2
<1>4. stack' \in [Worker -> Seq(Frame)]
  BY <1>1, <1>3
<1> QED
  BY <1>2, <1>4

(* The top frame of w goes, and the one below becomes f.                     *)
Popped(w, f) ==
    /\ Len(stack[w]) >= 2
    /\ stack' \in [Worker -> Seq(Frame)]
    /\ \A v \in Worker : stack'[v] # <<>> /\ (v # w => stack'[v] = stack[v])
    /\ Len(stack'[w]) = Len(stack[w]) - 1
    /\ \A i \in 1..Len(stack[w]) - 1 :
          stack'[w][i] = IF i = Len(stack[w]) - 1 THEN f ELSE stack[w][i]
    /\ \A v \in Worker : Top(v)' = IF v = w THEN f ELSE Top(v)

(* A stack whose top frame goes while the one below is replaced.             *)
LEMMA PopIs ==
    ASSUME TypeOK, NEW w \in Worker, Helping(w), NEW f \in Frame,
           stack' = [stack EXCEPT ![w] = [Front(stack[w]) EXCEPT ![Depth(w) - 1] = f]]
    PROVE  Popped(w, f)
<1> DEFINE n == Len(stack[w])
           s == [Front(stack[w]) EXCEPT ![n - 1] = f]
<1>1. /\ stack[w] \in Seq(Frame) /\ n \in Nat /\ n >= 1 /\ Depth(w) = n
  BY StackFacts
<1>2. n >= 2
  BY <1>1 DEF Helping
<1>3. /\ Front(stack[w]) \in Seq(Frame) /\ Len(Front(stack[w])) = n - 1
      /\ \A i \in 1..n - 1 : Front(stack[w])[i] = stack[w][i]
  BY <1>1, FrontIs
<1>4. stack' = [stack EXCEPT ![w] = s]
  BY <1>1
<1> HIDE DEF n
<1>5. /\ s \in Seq(Frame) /\ Len(s) = n - 1
      /\ \A i \in 1..n - 1 : s[i] = IF i = n - 1 THEN f ELSE stack[w][i]
  BY <1>1, <1>2, <1>3
<1> HIDE DEF s
<1>6. stack \in [Worker -> Seq(Frame)] /\ \A v \in Worker : stack[v] # <<>>
  BY DEF TypeOK
<1>7. \A v \in Worker : stack'[v] = IF v = w THEN s ELSE stack[v]
  BY <1>4, <1>6
<1>8. s # <<>> /\ s[Len(s)] = f
  BY <1>1, <1>2, <1>5
<1>9. \A v \in Worker : Top(v)' = IF v = w THEN f ELSE Top(v)
  BY <1>7, <1>8 DEF Top, Depth
<1>10. stack' \in [Worker -> Seq(Frame)]
  BY <1>4, <1>5, <1>6
<1>11. /\ \A v \in Worker : stack'[v] # <<>> /\ (v # w => stack'[v] = stack[v])
       /\ Len(stack'[w]) = n - 1
       /\ \A i \in 1..n - 1 : stack'[w][i] = IF i = n - 1 THEN f ELSE stack[w][i]
  BY <1>5, <1>6, <1>7, <1>8
<1> QED
  BY <1>2, <1>9, <1>10, <1>11 DEF n, Popped

(* A nested frame f begins.                                                  *)
Pushed(w, f) ==
    /\ stack' \in [Worker -> Seq(Frame)]
    /\ \A v \in Worker : stack'[v] # <<>> /\ (v # w => stack'[v] = stack[v])
    /\ Len(stack'[w]) = Len(stack[w]) + 1
    /\ \A i \in 1..Len(stack[w]) : stack'[w][i] = stack[w][i]
    /\ stack'[w][Len(stack[w]) + 1] = f
    /\ \A v \in Worker : Top(v)' = IF v = w THEN f ELSE Top(v)

(* A stack that gets one more frame.                                         *)
LEMMA PushIs ==
    ASSUME TypeOK, NEW w \in Worker, NEW f \in Frame,
           stack' = [stack EXCEPT ![w] = Append(@, f)]
    PROVE  Pushed(w, f)
<1> DEFINE n == Len(stack[w])
           s == Append(stack[w], f)
<1>1. stack[w] \in Seq(Frame) /\ n \in Nat /\ n >= 1
  BY StackFacts
<1>2. /\ s \in Seq(Frame) /\ Len(s) = n + 1
      /\ \A i \in 1..n : s[i] = stack[w][i]
      /\ s[n + 1] = f
  BY <1>1, AppendProperties
<1> HIDE DEF n
<1>3. stack \in [Worker -> Seq(Frame)] /\ \A v \in Worker : stack[v] # <<>>
  BY DEF TypeOK
<1>4. stack' = [stack EXCEPT ![w] = s]
  OBVIOUS
<1> HIDE DEF s
<1>5. \A v \in Worker : stack'[v] = IF v = w THEN s ELSE stack[v]
  BY <1>3, <1>4
<1>6. s # <<>>
  BY <1>1, <1>2, EmptySeq
<1>7. s[Len(s)] = f
  BY <1>2
<1>8. \A v \in Worker : Top(v)' = IF v = w THEN f ELSE Top(v)
  BY <1>5, <1>7 DEF Top, Depth
<1>9. stack' \in [Worker -> Seq(Frame)]
  BY <1>2, <1>3, <1>4
<1>10. \A v \in Worker : stack'[v] # <<>> /\ (v # w => stack'[v] = stack[v])
  BY <1>3, <1>5, <1>6
<1> QED
  BY <1>2, <1>5, <1>8, <1>9, <1>10 DEF n, Pushed

(* The frames that the steps make have the type of frames.                   *)
LEMMA FrameTypes ==
    ASSUME TypeOK, NEW w \in Worker
    PROVE  /\ NewFrame \in Frame /\ NewFrame.job = NoJob /\ NewFrame.pc = "loop"
           /\ NewFrame.stale = bumped
           /\ \A f \in Frame :
                 /\ Idle(f) \in Frame /\ Idle(f).job = NoJob /\ Idle(f).pc = "loop"
                 /\ Idle(f).stale = f.stale
                 /\ \A pc \in {"loop", "asleep", "load", "start", "prepare", "poll", "exec",
                               "park", "claim", "commit", "finish", "exited"} :
                       /\ [f EXCEPT !.pc = pc] \in Frame
                       /\ [f EXCEPT !.pc = pc].pc = pc /\ [f EXCEPT !.pc = pc].job = f.job
                       /\ [f EXCEPT !.pc = pc].how = f.how
                       /\ [f EXCEPT !.pc = pc].stale = f.stale
<1>1. /\ NewFrame \in Frame /\ NewFrame.job = NoJob /\ NewFrame.pc = "loop"
      /\ NewFrame.stale = bumped
  BY DEF TypeOK, NewFrame, Frame
<1>2. ASSUME NEW f \in Frame
      PROVE  /\ Idle(f) \in Frame /\ Idle(f).job = NoJob /\ Idle(f).pc = "loop"
             /\ Idle(f).stale = f.stale
  BY DEF Idle, Frame
<1>3. ASSUME NEW f \in Frame,
             NEW pc \in {"loop", "asleep", "load", "start", "prepare", "poll", "exec",
                         "park", "claim", "commit", "finish", "exited"}
      PROVE  /\ [f EXCEPT !.pc = pc] \in Frame
             /\ [f EXCEPT !.pc = pc].pc = pc /\ [f EXCEPT !.pc = pc].job = f.job
             /\ [f EXCEPT !.pc = pc].how = f.how
             /\ [f EXCEPT !.pc = pc].stale = f.stale
  BY DEF Frame
<1> DEFINE AtPc(f, pc) == [f EXCEPT !.pc = pc]
<1>4. ASSUME NEW f \in Frame
      PROVE  /\ Idle(f) \in Frame /\ Idle(f).job = NoJob /\ Idle(f).pc = "loop"
             /\ Idle(f).stale = f.stale
             /\ \A pc \in {"loop", "asleep", "load", "start", "prepare", "poll", "exec",
                           "park", "claim", "commit", "finish", "exited"} :
                   /\ AtPc(f, pc) \in Frame
                   /\ AtPc(f, pc).pc = pc /\ AtPc(f, pc).job = f.job
                   /\ AtPc(f, pc).how = f.how
                   /\ AtPc(f, pc).stale = f.stale
  <2>1. ASSUME NEW pc \in {"loop", "asleep", "load", "start", "prepare", "poll", "exec",
                           "park", "claim", "commit", "finish", "exited"}
        PROVE  /\ AtPc(f, pc) \in Frame
               /\ AtPc(f, pc).pc = pc /\ AtPc(f, pc).job = f.job
               /\ AtPc(f, pc).how = f.how
               /\ AtPc(f, pc).stale = f.stale
    BY <1>3
  <2> HIDE DEF AtPc
  <2> QED
    BY <1>2, <2>1
<1> QED
  BY <1>1, <1>4, Zenon

-----------------------------------------------------------------------------
(* The places of the jobs: how they move.                                    *)

(* Jobs only leave their places; a place that is left was of a job that has  *)
(* ended.                                                                    *)
Shrinks ==
    /\ \A i \in 1..Len(queue') : InQueue(queue'[i])
    /\ QueueOnce'
    /\ \A w \in Worker : residents'[w] = residents[w] \/ residents'[w] = <<>>
    /\ \A w \in Worker : \A i \in 1..Len(stack'[w]) :
          \/ stack'[w][i].job = NoJob
          \/ i \in 1..Len(stack[w]) /\ stack'[w][i].job = stack[w][i].job
    /\ \A j \in Job : Live(j)' =>
          /\ Live(j)
          /\ InQueue(j) => InQueue(j)'
          /\ Resident(j) => Resident(j)'
          /\ InFrame(j) => InFrame(j)'

(* When jobs only leave their places, no job gets two of them.               *)
LEMMA ShrinksKeeps ==
    ASSUME TypeOK, TypeOK', Placed, Shrinks
    PROVE  Placed'
<1>1. QueueOnce'
  BY DEF Shrinks
<1>2. \A w \in Worker : \A i \in 1..Len(residents'[w]) :
          i \in 1..Len(residents[w]) /\ residents'[w][i] = residents[w][i]
  <2> TAKE w \in Worker
  <2>1. Len(<<>>) = 0
    OBVIOUS
  <2> QED
    BY <2>1 DEF Shrinks
<1>3. PoolOnce'
  BY <1>2, SMTT(30) DEF PoolOnce, Placed
<1>4. NoJob \notin Job
  BY PoolAssumption
<1>5. \A w \in Worker : \A i \in 1..Len(stack'[w]) : stack'[w][i].job \in Job =>
          i \in 1..Len(stack[w]) /\ stack'[w][i].job = stack[w][i].job
  BY <1>4 DEF Shrinks
<1>6. FrameOnce'
  BY <1>5 DEF FrameOnce, Placed
<1>7. \A j \in Job : /\ InQueue(j)' => InQueue(j)
                     /\ Resident(j)' => Resident(j)
                     /\ InFrame(j)' => InFrame(j)
  <2> TAKE j \in Job
  <2>1. InQueue(j)' => InQueue(j)
    BY DEF Shrinks, InQueue
  <2>2. Resident(j)' => Resident(j)
    BY <1>2 DEF Resident
  <2>3. InFrame(j)' => InFrame(j)
    BY <1>5 DEF InFrame
  <2> QED
    BY <2>1, <2>2, <2>3
<1>8. Apart'
  BY <1>7 DEF Apart, Placed
<1>9. Kept'
  BY DEF Kept, Placed, Shrinks
<1> QED
  BY <1>1, <1>3, <1>6, <1>8, <1>9 DEF Placed

(* A resident goes into the top frame of its thread.                         *)
Takes(w, i, f) ==
    /\ UNCHANGED <<queue, status>>
    /\ NewTop(w, f) /\ Top(w).job = NoJob /\ f.job = residents[w][i].job
    /\ i \in 1..Len(residents[w])
    /\ \A v \in Worker : v # w => residents'[v] = residents[v]
    /\ Len(residents'[w]) = Len(residents[w]) - 1
    /\ \A k \in 1..Len(residents[w]) - 1 :
          residents'[w][k].job = IF k < i THEN residents[w][k].job
                                 ELSE residents[w][k + 1].job

(* A resident that moves into the top frame is in one place.                 *)
LEMMA TakesKeeps ==
    ASSUME TypeOK, TypeOK', Placed, NEW w \in Worker, NEW i, NEW f \in Frame,
           Takes(w, i, f)
    PROVE  Placed'
<1> DEFINE j == f.job
           Old(k) == IF k < i THEN k ELSE k + 1
           n == Len(residents[w])
           t == Len(stack[w])
<1>1. /\ n \in Nat /\ i \in 1..n /\ j \in Job /\ t \in Nat /\ t \in 1..t
      /\ stack[w][t].job = NoJob /\ NoJob \notin Job /\ j = residents[w][i].job
  BY ResidentFacts, StackFacts, PoolAssumption DEF Takes
<1>2. \A v \in Worker : Len(residents[v]) \in Nat
  BY ResidentFacts
<1>3. \A k \in 1..n - 1 : /\ Old(k) \in 1..n /\ Old(k) # i
                          /\ residents'[w][k].job = residents[w][Old(k)].job
  BY <1>1, SMTT(30) DEF Takes
<1>4. \A k, l \in 1..n - 1 : Old(k) = Old(l) => k = l
  BY <1>1
<1>5. \A k \in 1..n : k # i => \E l \in 1..n - 1 : Old(l) = k
  <2> TAKE k \in 1..n
  <2>1. CASE k < i
    <3>1. k \in 1..n - 1 /\ Old(k) = k
      BY <1>1, <2>1
    <3> QED
      BY <3>1
  <2>2. CASE k > i
    <3>1. k - 1 \in 1..n - 1 /\ Old(k - 1) = k
      BY <1>1, <2>2
    <3> QED
      BY <3>1
  <2> QED
    BY <1>1, <2>1, <2>2
<1>6. /\ \A v \in Worker : v # w => residents'[v] = residents[v]
      /\ Len(residents'[w]) = n - 1 /\ UNCHANGED <<queue, status>>
  BY DEF Takes
<1>7. /\ \A v \in Worker : Len(stack'[v]) = Len(stack[v])
      /\ \A v \in Worker : \A k \in 1..Len(stack[v]) :
            stack'[v][k].job = IF v = w /\ k = t THEN j ELSE stack[v][k].job
  BY DEF Takes, NewTop
<1> HIDE DEF Old, n, t, j
<1>8. QueueOnce'
  BY <1>6 DEF QueueOnce, Placed
<1>9. /\ PoolOnce'
      /\ \A k \in Job : Resident(k)' => Resident(k) /\ k # j
      /\ \A k \in Job : Resident(k) /\ k # j => Resident(k)'
  <2>1. PoolOnce
    BY DEF Placed
  <2>2. ASSUME NEW v \in Worker, NEW k \in 1..Len(residents'[v])
        PROVE  \E o \in 1..Len(residents[v]) :
                  /\ residents'[v][k].job = residents[v][o].job
                  /\ o = (IF v = w THEN Old(k) ELSE k)
                  /\ v = w => o # i
    BY <1>3, <1>6 DEF n
  <2>3. PoolOnce'
    <3> SUFFICES ASSUME NEW u \in Worker, NEW v \in Worker,
                        NEW k \in 1..Len(residents'[u]), NEW l \in 1..Len(residents'[v]),
                        residents'[u][k].job = residents'[v][l].job
                 PROVE  u = v /\ k = l
      BY DEF PoolOnce
    <3>1. PICK o \in 1..Len(residents[u]) :
                  /\ residents'[u][k].job = residents[u][o].job
                  /\ o = (IF u = w THEN Old(k) ELSE k)
      BY <2>2
    <3>2. PICK p \in 1..Len(residents[v]) :
                  /\ residents'[v][l].job = residents[v][p].job
                  /\ p = (IF v = w THEN Old(l) ELSE l)
      BY <2>2
    <3>4. residents[u][o].job = residents[v][p].job
      BY <3>1, <3>2
    <3>3. u = v /\ o = p
      BY <2>1, <3>4 DEF PoolOnce
    <3> QED
      BY <1>4, <1>6, <3>1, <3>2, <3>3
  <2>4. ASSUME NEW k \in Job, Resident(k)'
        PROVE  Resident(k) /\ k # j
    <3>0. PICK v \in Worker : \E x \in 1..Len(residents'[v]) : residents'[v][x].job = k
      BY <2>4 DEF Resident
    <3>1. PICK x \in 1..Len(residents'[v]) : residents'[v][x].job = k
      BY <3>0
    <3>2. PICK o \in 1..Len(residents[v]) :
                  /\ residents'[v][x].job = residents[v][o].job
                  /\ v = w => o # i
      BY <2>2
    <3>3. k # j
      BY <1>1, <2>1, <3>1, <3>2 DEF PoolOnce, n
    <3> QED
      BY <3>1, <3>2, <3>3 DEF Resident
  <2>5. ASSUME NEW k \in Job, Resident(k), k # j
        PROVE  Resident(k)'
    <3>0. PICK v \in Worker : \E x \in 1..Len(residents[v]) : residents[v][x].job = k
      BY <2>5 DEF Resident
    <3>1. PICK x \in 1..Len(residents[v]) : residents[v][x].job = k
      BY <3>0
    <3>2. CASE v # w
      BY <1>6, <3>1, <3>2 DEF Resident
    <3>3. CASE v = w
      <4>1. x # i /\ x \in 1..n
        BY <1>1, <2>5, <3>1, <3>3 DEF n
      <4>2. PICK l \in 1..n - 1 : Old(l) = x
        BY <1>5, <4>1
      <4>3. residents'[w][l].job = k
        BY <1>3, <3>1, <3>3, <4>2
      <4> QED
        BY <1>6, <4>3 DEF Resident
    <3> QED
      BY <3>2, <3>3
  <2> QED
    BY <2>3, <2>4, <2>5
<1>10. Resident(j)
  BY <1>1 DEF Resident, n
<1>11. \A k \in Job : InFrame(k)' <=> InFrame(k) \/ k = j
  <2> TAKE k \in Job
  <2>1. ASSUME InFrame(k)'
        PROVE  InFrame(k) \/ k = j
    BY <1>7, <2>1 DEF InFrame
  <2>2. ASSUME InFrame(k)
        PROVE  InFrame(k)'
    <3>0. PICK v \in Worker : \E x \in 1..Len(stack[v]) : stack[v][x].job = k
      BY <2>2 DEF InFrame
    <3>1. PICK x \in 1..Len(stack[v]) : stack[v][x].job = k
      BY <3>0
    <3>2. stack'[v][x].job = k /\ x \in 1..Len(stack'[v])
      BY <1>1, <1>7, <3>1
    <3> QED
      BY <3>2 DEF InFrame
  <2>3. InFrame(j)'
    <3>1. stack'[w][t].job = j /\ t \in 1..Len(stack'[w])
      BY <1>1, <1>7 DEF t
    <3> QED
      BY <3>1 DEF InFrame
  <2> QED
    BY <2>1, <2>2, <2>3
<1>12. FrameOnce'
  <2> SUFFICES ASSUME NEW u \in Worker, NEW v \in Worker,
                      NEW k \in 1..Len(stack'[u]), NEW l \in 1..Len(stack'[v]),
                      stack'[u][k].job = stack'[v][l].job, stack'[u][k].job \in Job
               PROVE  u = v /\ k = l
    BY DEF FrameOnce
  <2>1. ~InFrame(j)
    BY <1>1, <1>10 DEF Placed, Apart
  <2>2. k \in 1..Len(stack[u]) /\ l \in 1..Len(stack[v])
    BY <1>7
  <2>3. stack[u][k].job # j /\ stack[v][l].job # j
    BY <2>1, <2>2 DEF InFrame
  <2> QED
    BY <1>7, <2>2, <2>3 DEF FrameOnce, Placed
<1>13. \A k \in Job : InQueue(k)' <=> InQueue(k)
  BY <1>6 DEF InQueue
<1>14. Apart'
  BY <1>1, <1>9, <1>10, <1>11, <1>13 DEF Apart, Placed
<1>15. Kept'
  BY <1>6, <1>9, <1>11, <1>13 DEF Kept, Placed, Live
<1> QED
  BY <1>8, <1>9, <1>12, <1>14, <1>15 DEF Placed

(* The oldest job of the FIFO goes into the top frame of a thread.           *)
Pops(w, f) ==
    /\ UNCHANGED <<residents, status>>
    /\ NewTop(w, f) /\ Top(w).job = NoJob /\ f.job = queue[1]
    /\ Len(queue) >= 1 /\ Len(queue') = Len(queue) - 1
    /\ \A k \in 1..Len(queue) - 1 : queue'[k] = queue[k + 1]

(* A popped job that moves into the top frame is in one place.               *)
LEMMA PopsKeeps ==
    ASSUME TypeOK, TypeOK', Placed, NEW w \in Worker, NEW f \in Frame, Pops(w, f)
    PROVE  Placed'
<1> DEFINE j == f.job
           n == Len(queue)
           t == Len(stack[w])
<1>1. /\ n \in Nat /\ n >= 1 /\ j \in Job /\ t \in Nat /\ t \in 1..t
      /\ stack[w][t].job = NoJob /\ NoJob \notin Job /\ j = queue[1]
  BY QueueFacts, StackFacts, PoolAssumption DEF Pops
<1>2. /\ UNCHANGED <<residents, status>> /\ Len(queue') = n - 1
      /\ \A k \in 1..n - 1 : queue'[k] = queue[k + 1]
  BY DEF Pops
<1>3. /\ \A v \in Worker : Len(stack'[v]) = Len(stack[v])
      /\ \A v \in Worker : \A k \in 1..Len(stack[v]) :
            stack'[v][k].job = IF v = w /\ k = t THEN j ELSE stack[v][k].job
  BY DEF Pops, NewTop
<1>4. \A k, l \in 1..n : queue[k] = queue[l] => k = l
  BY DEF QueueOnce, Placed
<1> HIDE DEF n, t, j
<1>5. QueueOnce'
  BY <1>1, <1>2, <1>4 DEF QueueOnce
<1>6. /\ \A k \in Job : InQueue(k)' => InQueue(k) /\ k # j
      /\ \A k \in Job : InQueue(k) /\ k # j => InQueue(k)'
      /\ InQueue(j)
  <2>1. ASSUME NEW k \in Job, InQueue(k)'
        PROVE  InQueue(k) /\ k # j
    <3>1. PICK x \in 1..n - 1 : queue'[x] = k
      BY <1>2, <2>1 DEF InQueue
    <3>2. queue[x + 1] = k /\ x + 1 \in 1..n /\ x + 1 # 1
      BY <1>1, <1>2, <3>1
    <3> QED
      BY <1>1, <1>4, <3>2 DEF InQueue, n
  <2>2. ASSUME NEW k \in Job, InQueue(k), k # j
        PROVE  InQueue(k)'
    <3>1. PICK x \in 1..n : queue[x] = k
      BY <2>2 DEF InQueue, n
    <3>2. x - 1 \in 1..n - 1 /\ queue'[x - 1] = k
      BY <1>1, <1>2, <2>2, <3>1
    <3> QED
      BY <1>2, <3>2 DEF InQueue
  <2>3. InQueue(j)
    BY <1>1 DEF InQueue, n
  <2> QED
    BY <2>1, <2>2, <2>3
<1>7. \A k \in Job : InFrame(k)' <=> InFrame(k) \/ k = j
  <2> TAKE k \in Job
  <2>1. ASSUME InFrame(k)'
        PROVE  InFrame(k) \/ k = j
    BY <1>3, <2>1 DEF InFrame
  <2>2. ASSUME InFrame(k)
        PROVE  InFrame(k)'
    <3>0. PICK v \in Worker : \E x \in 1..Len(stack[v]) : stack[v][x].job = k
      BY <2>2 DEF InFrame
    <3>1. PICK x \in 1..Len(stack[v]) : stack[v][x].job = k
      BY <3>0
    <3>2. stack'[v][x].job = k /\ x \in 1..Len(stack'[v])
      BY <1>1, <1>3, <3>1
    <3> QED
      BY <3>2 DEF InFrame
  <2>3. InFrame(j)'
    <3>1. stack'[w][t].job = j /\ t \in 1..Len(stack'[w])
      BY <1>1, <1>3 DEF t
    <3> QED
      BY <3>1 DEF InFrame
  <2> QED
    BY <2>1, <2>2, <2>3
<1>8. FrameOnce'
  <2> SUFFICES ASSUME NEW u \in Worker, NEW v \in Worker,
                      NEW k \in 1..Len(stack'[u]), NEW l \in 1..Len(stack'[v]),
                      stack'[u][k].job = stack'[v][l].job, stack'[u][k].job \in Job
               PROVE  u = v /\ k = l
    BY DEF FrameOnce
  <2>1. ~InFrame(j)
    BY <1>1, <1>6 DEF Placed, Apart
  <2>2. k \in 1..Len(stack[u]) /\ l \in 1..Len(stack[v])
    BY <1>3
  <2>3. stack[u][k].job # j /\ stack[v][l].job # j
    BY <2>1, <2>2 DEF InFrame
  <2> QED
    BY <1>3, <2>2, <2>3 DEF FrameOnce, Placed
<1>9. PoolOnce' /\ \A k \in Job : Resident(k)' <=> Resident(k)
  BY <1>2 DEF PoolOnce, Placed, Resident
<1>10. Apart'
  BY <1>1, <1>6, <1>7, <1>9 DEF Apart, Placed
<1>11. Kept'
  BY <1>2, <1>6, <1>7, <1>9 DEF Kept, Placed, Live
<1> QED
  BY <1>5, <1>8, <1>9, <1>10, <1>11 DEF Placed

(* The job of the top frame goes to the end of the pool of its thread.       *)
Backs(w, r, f) ==
    /\ UNCHANGED <<queue, status>>
    /\ NewTop(w, f) /\ f.job = NoJob /\ r.job = Top(w).job
    /\ residents' = [residents EXCEPT ![w] = Append(@, r)]

(* A job that goes back to the pool of its thread is in one place.           *)
LEMMA BacksKeeps ==
    ASSUME TypeOK, TypeOK', Placed, NEW w \in Worker,
           NEW r \in [job : Job, waiting : BOOLEAN], NEW f \in Frame, Backs(w, r, f)
    PROVE  Placed'
<1> DEFINE j == r.job
           n == Len(residents[w])
           t == Len(stack[w])
<1>1. /\ n \in Nat /\ j \in Job /\ t \in Nat /\ t \in 1..t
      /\ stack[w][t].job = j /\ NoJob \notin Job
  BY ResidentFacts, StackFacts, PoolAssumption DEF Backs
<1>2. /\ \A v \in Worker : v # w => residents'[v] = residents[v]
      /\ Len(residents'[w]) = n + 1
      /\ \A k \in 1..n : residents'[w][k] = residents[w][k]
      /\ residents'[w][n + 1] = r
  <2> DEFINE s == Append(residents[w], r)
  <2>1. /\ Len(s) = n + 1 /\ \A k \in 1..n : s[k] = residents[w][k]
        /\ s[n + 1] = r
    BY <1>1, ResidentFacts, AppendProperties
  <2>2. residents' = [residents EXCEPT ![w] = s] /\ residents \in [Worker -> Seq([job : Job, waiting : BOOLEAN])]
    BY DEF Backs, TypeOK
  <2> HIDE DEF s, n
  <2>3. residents'[w] = s /\ \A v \in Worker : v # w => residents'[v] = residents[v]
    BY <2>2
  <2> QED
    BY <2>1, <2>3
<1>3. UNCHANGED <<queue, status>>
  BY DEF Backs
<1>4. /\ \A v \in Worker : Len(stack'[v]) = Len(stack[v])
      /\ \A v \in Worker : \A k \in 1..Len(stack[v]) :
            stack'[v][k].job = IF v = w /\ k = t THEN NoJob ELSE stack[v][k].job
  BY DEF Backs, NewTop
<1> HIDE DEF n, t, j
<1>5. InFrame(j) /\ ~Resident(j) /\ ~InQueue(j)
  <2>1. InFrame(j)
    BY <1>1 DEF InFrame, t
  <2> QED
    BY <1>1, <2>1 DEF Placed, Apart
<1>6. QueueOnce' /\ \A k \in Job : InQueue(k)' <=> InQueue(k)
  BY <1>3 DEF QueueOnce, Placed, InQueue
<1>7. /\ FrameOnce'
      /\ \A k \in Job : InFrame(k)' => InFrame(k) /\ k # j
      /\ \A k \in Job : InFrame(k) /\ k # j => InFrame(k)'
  <2>1. FrameOnce
    BY DEF Placed
  <2>2. ASSUME NEW v \in Worker, NEW k \in 1..Len(stack'[v]), stack'[v][k].job \in Job
        PROVE  /\ k \in 1..Len(stack[v]) /\ stack'[v][k].job = stack[v][k].job
               /\ ~(v = w /\ k = t)
    BY <1>1, <1>4, <2>2
  <2>3. FrameOnce'
    BY <2>1, <2>2 DEF FrameOnce
  <2>4. ASSUME NEW k \in Job, InFrame(k)'
        PROVE  InFrame(k) /\ k # j
    <3>1. PICK v \in Worker : \E x \in 1..Len(stack'[v]) : stack'[v][x].job = k
      BY <2>4 DEF InFrame
    <3>2. PICK x \in 1..Len(stack'[v]) : stack'[v][x].job = k
      BY <3>1
    <3>3. /\ x \in 1..Len(stack[v]) /\ stack[v][x].job = k
          /\ ~(v = w /\ x = t)
      BY <2>2, <3>2
    <3>4. k # j
      BY <1>1, <2>1, <3>3 DEF FrameOnce, t
    <3> QED
      BY <3>3, <3>4 DEF InFrame
  <2>5. ASSUME NEW k \in Job, InFrame(k), k # j
        PROVE  InFrame(k)'
    <3>1. PICK v \in Worker : \E x \in 1..Len(stack[v]) : stack[v][x].job = k
      BY <2>5 DEF InFrame
    <3>2. PICK x \in 1..Len(stack[v]) : stack[v][x].job = k
      BY <3>1
    <3>3. stack'[v][x].job = k /\ x \in 1..Len(stack'[v])
      BY <1>1, <1>4, <2>5, <3>2 DEF t
    <3> QED
      BY <3>3 DEF InFrame
  <2> QED
    BY <2>3, <2>4, <2>5
<1>8. \A k \in Job : Resident(k)' <=> Resident(k) \/ k = j
  <2> TAKE k \in Job
  <2>1. ASSUME Resident(k)'
        PROVE  Resident(k) \/ k = j
    <3>1. PICK v \in Worker : \E x \in 1..Len(residents'[v]) : residents'[v][x].job = k
      BY <2>1 DEF Resident
    <3>2. PICK x \in 1..Len(residents'[v]) : residents'[v][x].job = k
      BY <3>1
    <3>3. CASE v # w
      BY <1>2, <3>2, <3>3 DEF Resident
    <3>4. CASE v = w
      <4>1. x \in 1..n \/ x = n + 1
        BY <1>1, <1>2, <3>2, <3>4
      <4> QED
        BY <1>2, <3>2, <3>4, <4>1 DEF Resident, n, j
    <3> QED
      BY <3>3, <3>4
  <2>2. ASSUME Resident(k)
        PROVE  Resident(k)'
    <3>1. PICK v \in Worker : \E x \in 1..Len(residents[v]) : residents[v][x].job = k
      BY <2>2 DEF Resident
    <3>2. PICK x \in 1..Len(residents[v]) : residents[v][x].job = k
      BY <3>1
    <3>3. CASE v # w
      BY <1>2, <3>2, <3>3 DEF Resident
    <3>4. CASE v = w
      <4>1. x \in 1..n + 1 /\ residents'[w][x].job = k
        BY <1>1, <1>2, <3>2, <3>4 DEF n
      <4> QED
        BY <1>2, <4>1 DEF Resident
    <3> QED
      BY <3>3, <3>4
  <2>3. Resident(j)'
    <3>1. n + 1 \in 1..Len(residents'[w]) /\ residents'[w][n + 1].job = r.job
      BY <1>1, <1>2
    <3>2. \E x \in 1..Len(residents'[w]) : residents'[w][x].job = r.job
      BY <3>1
    <3> QED
      BY <3>2 DEF Resident, j
  <2> QED
    BY <2>1, <2>2, <2>3
<1>9. PoolOnce'
  <2> SUFFICES ASSUME NEW u \in Worker, NEW v \in Worker,
                      NEW k \in 1..Len(residents'[u]), NEW l \in 1..Len(residents'[v]),
                      residents'[u][k].job = residents'[v][l].job
               PROVE  u = v /\ k = l
    BY DEF PoolOnce
  <2>1. ASSUME NEW y \in Worker, NEW x \in 1..Len(residents'[y]), ~(y = w /\ x = n + 1)
        PROVE  /\ x \in 1..Len(residents[y]) /\ residents'[y][x] = residents[y][x]
               /\ residents'[y][x].job # j
    <3>1. x \in 1..Len(residents[y]) /\ residents'[y][x] = residents[y][x]
      <4>1. CASE y # w
        BY <1>2, <4>1
      <4>2. CASE y = w
        BY <1>1, <1>2, <2>1, <4>2 DEF n
      <4> QED
        BY <4>1, <4>2
    <3>2. residents[y][x].job # j
      BY <1>5, <3>1 DEF Resident
    <3> QED
      BY <3>1, <3>2
  <2>2. residents'[w][n + 1].job = j
    BY <1>2 DEF j
  <2>3. CASE (u = w /\ k = n + 1) \/ (v = w /\ l = n + 1)
    BY <2>1, <2>2, <2>3
  <2>4. CASE ~(u = w /\ k = n + 1) /\ ~(v = w /\ l = n + 1)
    <3>1. /\ k \in 1..Len(residents[u]) /\ l \in 1..Len(residents[v])
          /\ residents[u][k].job = residents[v][l].job
      BY <2>1, <2>4
    <3> QED
      BY <3>1 DEF PoolOnce, Placed
  <2> QED
    BY <2>3, <2>4
<1>10. Apart'
  BY <1>1, <1>5, <1>6, <1>7, <1>8 DEF Apart, Placed
<1>11. Kept'
  BY <1>3, <1>6, <1>7, <1>8 DEF Kept, Placed, Live
<1> QED
  BY <1>6, <1>7, <1>9, <1>10, <1>11 DEF Placed

(* A new job joins the FIFO.                                                 *)
LEMMA EnqueueKeeps ==
    ASSUME TypeOK, Placed, NEW j \in Job, Enqueue(j),
           ~InQueue(j), ~Resident(j), ~InFrame(j),
           residents' = residents,
           \A v \in Worker : /\ Len(stack'[v]) = Len(stack[v])
                             /\ \A i \in 1..Len(stack[v]) : stack'[v][i].job = stack[v][i].job
    PROVE  Placed'
<1> DEFINE n == Len(queue)
<1>1. /\ \A k \in Job : status'[k] = IF k = j THEN "queued" ELSE status[k]
      /\ n \in Nat /\ Len(queue') = n + 1
      /\ \A i \in 1..n : queue'[i] = queue[i]
      /\ queue'[n + 1] = j
  BY EnqueueIs
<1> HIDE DEF n
<1>2. /\ PoolOnce' /\ FrameOnce'
      /\ \A k \in Job : (Resident(k)' <=> Resident(k)) /\ (InFrame(k)' <=> InFrame(k))
  <2>1. PoolOnce' /\ \A k \in Job : Resident(k)' <=> Resident(k)
    BY DEF PoolOnce, Placed, Resident
  <2>2. FrameOnce'
    BY DEF FrameOnce, Placed
  <2>3. \A k \in Job : InFrame(k)' <=> InFrame(k)
    BY DEF InFrame
  <2> QED
    BY <2>1, <2>2, <2>3
<1>3. \A i \in 1..n : queue[i] # j
  BY DEF InQueue, n
<1>4. QueueOnce'
  <2> SUFFICES ASSUME NEW k \in 1..n + 1, NEW l \in 1..n + 1, queue'[k] = queue'[l]
               PROVE  k = l
    BY <1>1 DEF QueueOnce
  <2>1. CASE k = n + 1 \/ l = n + 1
    BY <1>1, <1>3, <2>1
  <2>2. CASE k # n + 1 /\ l # n + 1
    <3>1. k \in 1..n /\ l \in 1..n
      BY <1>1, <2>2
    <3> QED
      BY <1>1, <3>1 DEF QueueOnce, Placed, n
  <2> QED
    BY <2>1, <2>2
<1>5. \A k \in Job : InQueue(k)' <=> InQueue(k) \/ k = j
  <2> TAKE k \in Job
  <2>1. n + 1 \in 1..n + 1 /\ \A i \in 1..n + 1 : i \in 1..n \/ i = n + 1
    BY <1>1
  <2>2. \A i \in 1..n : i \in 1..n + 1
    BY <1>1
  <2> QED
    BY <1>1, <2>1, <2>2 DEF InQueue, n
<1>6. Apart'
  BY <1>2, <1>5 DEF Apart, Placed
<1>7. Kept'
  BY <1>1, <1>2, <1>5 DEF Kept, Placed, Live
<1> QED
  BY <1>2, <1>4, <1>6, <1>7 DEF Placed

-----------------------------------------------------------------------------
(* The steps of the top frame.                                               *)

(* What holds of a frame keeps holding while its job does not move, or ends  *)
(* before it is committing.                                                  *)
LEMMA StandingKept ==
    ASSUME NEW f, NEW st, NEW pub, NEW to, NEW more,
           Standing(f, st, pub), pub \subseteq more,
           f.job \in Job => \/ to[f.job] = st[f.job]
                            \/ to[f.job] \in Terminal /\ st[f.job] # "committing"
    PROVE  Standing(f, to, more)
BY PoolAssumption DEF Standing

(* The job of a frame is in no other place.                                  *)
LEMMA OnlyHere ==
    ASSUME IInv, NEW w \in Worker, NEW i \in 1..Len(stack[w]), stack[w][i].job \in Job
    PROVE  /\ \A v \in Worker : \A k \in 1..Len(stack[v]) :
                 ~(v = w /\ k = i) => stack[v][k].job # stack[w][i].job
           /\ \A v \in Worker : \A k \in 1..Len(residents[v]) :
                 residents[v][k].job # stack[w][i].job
           /\ \A k \in 1..Len(queue) : queue[k] # stack[w][i].job
<1>1. InFrame(stack[w][i].job)
  BY DEF InFrame
<1>2. ~Resident(stack[w][i].job) /\ ~InQueue(stack[w][i].job)
  BY <1>1 DEF IInv, Placed, Apart
<1>3. \A v \in Worker : \A k \in 1..Len(stack[v]) :
         ~(v = w /\ k = i) => stack[v][k].job # stack[w][i].job
  BY DEF IInv, Placed, FrameOnce
<1> QED
  BY <1>2, <1>3 DEF Resident, InQueue

(* Consuming an operation leaves the other programs alone.                   *)
LEMMA ConsumeIs ==
    ASSUME TypeOK, NEW j \in Job, prog[j] # <<>>, Consume(j)
    PROVE  /\ prog' \in [Job -> Seq(Op)]
           /\ \A k \in Job : k # j => prog'[k] = prog[k]
<1>1. prog \in [Job -> Seq(Op)] /\ prog[j] \in Seq(Op)
  BY DEF TypeOK
<1>2. Tail(prog[j]) \in Seq(Op)
  BY <1>1, HeadTailProperties
<1>3. prog' = [prog EXCEPT ![j] = Tail(prog[j])]
  BY DEF Consume
<1> QED
  BY <1>1, <1>2, <1>3

(* The frame moves on with its job.                                          *)
LEMMA TopStep ==
    ASSUME IInv, TypeOK', NEW w \in Worker, NEW f \in Frame,
           NewTop(w, f), f.job = Top(w).job, Standing(f, status', published'),
           UNCHANGED <<rt, queue, residents, panics>>,
           \A j \in Job : j # f.job => status'[j] = status[j] /\ prog'[j] = prog[j],
           \A j \in Job : /\ Live(j)' => Live(j)
                          /\ status'[j] = "queued" => status[j] = "queued",
           published \subseteq published', loaded \subseteq loaded',
           f.pc \notin {"load", "exited"}, Top(w).pc # "exited",
           w \notin loaded' => f.pc \in {"loop", "asleep"}
    PROVE  IInv'
<1> DEFINE t == Len(stack[w])
<1>1. /\ t \in 1..t /\ Top(w) = stack[w][t] /\ NoJob \notin Job /\ TypeOK
      /\ \A v \in Worker : Len(stack[v]) \in Nat /\ Len(stack[v]) \in 1..Len(stack[v])
      /\ \A v \in Worker : Top(v) = stack[v][Len(stack[v])]
      /\ \A v \in Worker : \A i \in 1..Len(stack[v]) : stack[v][i] \in Frame
  BY StackFacts, PoolAssumption DEF IInv
<1>2. /\ \A v \in Worker : Len(stack'[v]) = Len(stack[v])
      /\ \A v \in Worker : \A i \in 1..Len(stack[v]) :
            stack'[v][i] = IF v = w /\ i = t THEN f ELSE stack[v][i]
      /\ \A v \in Worker : Top(v)' = IF v = w THEN f ELSE Top(v)
  BY DEF NewTop
<1>3. \A v \in Worker : \A i \in 1..Len(stack[v]) : stack'[v][i].job = stack[v][i].job
  BY <1>1, <1>2
<1>4. /\ f.job \in Job =>
            /\ \A v \in Worker : \A k \in 1..Len(residents[v]) : residents[v][k].job # f.job
            /\ \A k \in 1..Len(queue) : queue[k] # f.job
      /\ \A v \in Worker : \A k \in 1..Len(stack[v]) :
            stack[v][k].job \in Job /\ ~(v = w /\ k = t) => stack[v][k].job # f.job
  <2>1. CASE f.job \in Job
    BY <1>1, <2>1, OnlyHere
  <2>2. CASE f.job \notin Job
    BY <2>2
  <2> QED
    BY <2>1, <2>2
<1> HIDE DEF t
<1>5. Placed'
  <2>1. QueueOnce'
    BY DEF QueueOnce, Placed, IInv
  <2>2. \A j \in Job : /\ InQueue(j) => InQueue(j)'
                       /\ Resident(j) => Resident(j)'
    BY DEF InQueue, Resident
  <2>3. \A j \in Job : InFrame(j) => InFrame(j)'
    BY <1>2, <1>3 DEF InFrame
  <2>4. \A i \in 1..Len(queue') : InQueue(queue'[i])
    BY DEF InQueue
  <2>5. \A v \in Worker : \A i \in 1..Len(stack'[v]) :
            i \in 1..Len(stack[v]) /\ stack'[v][i].job = stack[v][i].job
    BY <1>2, <1>3
  <2>6. Shrinks
    BY <2>1, <2>2, <2>3, <2>4, <2>5 DEF Shrinks
  <2> QED
    BY <1>1, <2>6, ShrinksKeeps DEF IInv
<1>6. Standings'
  <2>1. \A i \in 1..Len(queue') : status'[queue'[i]] = "queued"
    <3> TAKE i \in 1..Len(queue')
    <3>1. queue[i] \in Job /\ queue[i] # f.job
      BY <1>1, <1>4, QueueFacts
    <3> QED
      BY <3>1 DEF IInv, Standings
  <2>2. Closed' => \A j \in Job : status'[j] # "queued"
    BY DEF IInv, Standings, Closed
  <2>3. \A v \in Worker : \A i \in 1..Len(residents'[v]) :
           status'[residents'[v][i].job] \in {"running"} \cup Terminal
    <3> TAKE v \in Worker
    <3> TAKE i \in 1..Len(residents'[v])
    <3>1. residents[v][i].job \in Job /\ residents[v][i].job # f.job
      BY <1>1, <1>4, ResidentFacts
    <3> QED
      BY <3>1 DEF IInv, Standings
  <2>4. \A v \in Worker : \A i \in 1..Len(stack'[v]) :
           Standing(stack'[v][i], status', published')
    <3> SUFFICES ASSUME NEW v \in Worker, NEW i \in 1..Len(stack[v])
                 PROVE  Standing(stack'[v][i], status', published')
      BY <1>2
    <3>1. CASE v = w /\ i = t
      BY <1>2, <3>1
    <3>2. CASE ~(v = w /\ i = t)
      <4>1. stack'[v][i] = stack[v][i]
        BY <1>2, <3>2
      <4>2. Standing(stack[v][i], status, published)
        BY DEF IInv, Standings
      <4>3. stack[v][i].job \in Job => status'[stack[v][i].job] = status[stack[v][i].job]
        BY <1>4, <3>2
      <4> QED
        BY <4>1, <4>2, <4>3, StandingKept
    <3> QED
      BY <3>1, <3>2
  <2> QED
    BY <2>1, <2>2, <2>3, <2>4 DEF Standings
<1>7. Threads'
  <2> SUFFICES ASSUME NEW v \in Worker
               PROVE  /\ \A i \in 1..Len(stack'[v]) - 1 :
                            stack'[v][i].pc = "exec" /\ Serves(prog'[stack'[v][i].job])
                      /\ Top(v)'.pc \in {"load", "exited"} =>
                            Len(stack'[v]) = 1 /\ residents'[v] = <<>>
                      /\ v \notin loaded' =>
                            /\ residents'[v] = <<>> /\ Len(stack'[v]) = 1
                            /\ Top(v)'.pc \in {"loop", "asleep", "load", "exited"}
                      /\ Top(v)'.pc # "exited" => panics'[v] < PanicLimit
    BY DEF Threads, At
  <2>1. /\ \A i \in 1..Len(stack[v]) - 1 :
              stack[v][i].pc = "exec" /\ Serves(prog[stack[v][i].job])
        /\ Top(v).pc \in {"load", "exited"} => Len(stack[v]) = 1 /\ residents[v] = <<>>
        /\ v \notin loaded => /\ residents[v] = <<>> /\ Len(stack[v]) = 1
                              /\ Top(v).pc \in {"loop", "asleep", "load", "exited"}
        /\ Top(v).pc # "exited" => panics[v] < PanicLimit
    BY DEF Threads, At, IInv
  <2>2. ASSUME NEW i \in 1..Len(stack[v]) - 1
        PROVE  stack'[v][i].pc = "exec" /\ Serves(prog'[stack'[v][i].job])
    <3>1. i \in 1..Len(stack[v]) /\ ~(v = w /\ i = t)
      BY <1>1 DEF t
    <3>2. stack'[v][i] = stack[v][i] /\ stack[v][i].pc = "exec"
      BY <1>2, <2>1, <3>1
    <3>3. stack[v][i].job \in Job
      BY <3>1, <3>2 DEF IInv, Standings, Standing
    <3>4. stack[v][i].job # f.job
      BY <1>4, <3>1, <3>3
    <3> QED
      BY <2>1, <3>2, <3>3, <3>4
  <2> QED
    BY <1>2, <2>1, <2>2
<1> QED
  BY <1>5, <1>6, <1>7 DEF IInv

(* Notify only adds to what is to be delivered.                              *)
LEMMA NotifyIs ==
    ASSUME TypeOK, NEW K, Notify(K)
    PROVE  /\ signals' \in [one : Nat, work : BOOLEAN, term : BOOLEAN]
           /\ signals'.one >= signals.one
           /\ signals.one \in Nat /\ signals'.one \in Nat
           /\ signals'.work <=> signals.work \/ "work" \in K
           /\ signals'.term <=> signals.term \/ "term" \in K
           /\ "one" \notin K => signals'.one = signals.one
<1> DEFINE n == IF "one" \in K THEN signals.one + 1 ELSE signals.one
           x == signals.work \/ "work" \in K
           y == signals.term \/ "term" \in K
<1>1. signals.one \in Nat /\ signals.work \in BOOLEAN /\ signals.term \in BOOLEAN
  BY DEF TypeOK
<1>2. signals' = [one |-> n, work |-> x, term |-> y]
  BY DEF Notify
<1>3. n \in Nat /\ n >= signals.one /\ ("one" \notin K => n = signals.one)
  BY <1>1
<1>4. x \in BOOLEAN /\ y \in BOOLEAN
  OBVIOUS
<1>5. (x <=> signals.work \/ "work" \in K) /\ (y <=> signals.term \/ "term" \in K)
  OBVIOUS
<1> HIDE DEF n, x, y
<1>6. signals'.one = n /\ signals'.work = x /\ signals'.term = y
  BY <1>2
<1> QED
  BY <1>1, <1>2, <1>3, <1>4, <1>5, <1>6

(* The top frame gives up its job, which has ended.                          *)
LEMMA GiveUp ==
    ASSUME IInv, TypeOK', NEW w \in Worker, NEW f \in Frame, NEW j \in Job,
           NewTop(w, f), f.job = NoJob, f.pc = "loop", j = Top(w).job,
           Top(w).pc \notin {"load", "exited"}, w \in loaded,
           UNCHANGED <<rt, prog, residents, loaded, panics, published>>,
           status'[j] \in Terminal,
           \A k \in Job : k # j => status'[k] = status[k],
           \A i \in 1..Len(queue') : InQueue(queue'[i]),
           QueueOnce',
           \A k \in Job : k # j /\ InQueue(k) => InQueue(k)'
    PROVE  IInv'
<1> DEFINE t == Len(stack[w])
<1>1. /\ t \in Nat /\ t \in 1..t /\ Top(w) = stack[w][t] /\ NoJob \notin Job /\ TypeOK
      /\ \A v \in Worker : Len(stack[v]) \in Nat /\ Len(stack[v]) \in 1..Len(stack[v])
      /\ \A v \in Worker : Top(v) = stack[v][Len(stack[v])]
  BY StackFacts, PoolAssumption DEF IInv
<1>2. /\ \A v \in Worker : Len(stack'[v]) = Len(stack[v])
      /\ \A v \in Worker : \A i \in 1..Len(stack[v]) :
            stack'[v][i] = IF v = w /\ i = t THEN f ELSE stack[v][i]
      /\ \A v \in Worker : Top(v)' = IF v = w THEN f ELSE Top(v)
  BY DEF NewTop
<1>3. /\ \A v \in Worker : \A k \in 1..Len(stack[v]) :
             ~(v = w /\ k = t) => stack[v][k].job # j
      /\ \A v \in Worker : \A k \in 1..Len(residents[v]) : residents[v][k].job # j
      /\ \A k \in 1..Len(queue) : queue[k] # j
  BY <1>1, OnlyHere
<1>4. ~Live(j)' /\ status'[j] # "queued" /\ j = stack[w][t].job
  BY <1>1 DEF Live, Terminal
<1> HIDE DEF t
<1>5. Placed'
  <2>1. ASSUME NEW k \in Job, Live(k)'
        PROVE  /\ Live(k)
               /\ InQueue(k) => InQueue(k)'
               /\ Resident(k) => Resident(k)'
               /\ InFrame(k) => InFrame(k)'
    <3>1. Live(k) /\ k # j
      BY <1>4, <2>1 DEF Live
    <3>2. Resident(k) => Resident(k)'
      BY DEF Resident
    <3>3. ASSUME InFrame(k)
          PROVE  InFrame(k)'
      <4>1. PICK v \in Worker : \E i \in 1..Len(stack[v]) : stack[v][i].job = k
        BY <3>3 DEF InFrame
      <4>2. PICK i \in 1..Len(stack[v]) : stack[v][i].job = k
        BY <4>1
      <4>3. ~(v = w /\ i = t)
        BY <1>4, <3>1, <4>2
      <4>4. stack'[v][i].job = k /\ i \in 1..Len(stack'[v])
        BY <1>2, <4>2, <4>3
      <4> QED
        BY <4>4 DEF InFrame
    <3> QED
      BY <3>1, <3>2, <3>3
  <2>2. \A v \in Worker : \A i \in 1..Len(stack'[v]) :
            \/ stack'[v][i].job = NoJob
            \/ i \in 1..Len(stack[v]) /\ stack'[v][i].job = stack[v][i].job
    BY <1>2
  <2>3. Shrinks
    BY <2>1, <2>2 DEF Shrinks
  <2> QED
    BY <1>1, <2>3, ShrinksKeeps DEF IInv
<1>6. Standings'
  <2>1. \A i \in 1..Len(queue') : status'[queue'[i]] = "queued"
    <3> TAKE i \in 1..Len(queue')
    <3>1. queue'[i] # j /\ queue'[i] \in Job /\ status[queue'[i]] = "queued"
      BY <1>1, <1>3, QueueFacts DEF InQueue, IInv, Standings
    <3> QED
      BY <3>1
  <2>2. Closed' => \A k \in Job : status'[k] # "queued"
    BY <1>4 DEF IInv, Standings, Closed
  <2>3. \A v \in Worker : \A i \in 1..Len(residents'[v]) :
           status'[residents'[v][i].job] \in {"running"} \cup Terminal
    <3> TAKE v \in Worker
    <3> TAKE i \in 1..Len(residents'[v])
    <3>1. residents[v][i].job \in Job /\ residents[v][i].job # j
      BY <1>1, <1>3, ResidentFacts
    <3> QED
      BY <3>1 DEF IInv, Standings
  <2>4. \A v \in Worker : \A i \in 1..Len(stack'[v]) :
           Standing(stack'[v][i], status', published')
    <3> SUFFICES ASSUME NEW v \in Worker, NEW i \in 1..Len(stack[v])
                 PROVE  Standing(stack'[v][i], status', published')
      BY <1>2
    <3>1. CASE v = w /\ i = t
      <4>1. stack'[v][i] = f
        BY <1>2, <3>1
      <4> QED
        BY <1>1, <4>1 DEF Standing
    <3>2. CASE ~(v = w /\ i = t)
      <4>1. stack'[v][i] = stack[v][i] /\ stack[v][i].job # j
        BY <1>2, <1>3, <3>2
      <4>2. Standing(stack[v][i], status, published)
        BY DEF IInv, Standings
      <4> QED
        BY <4>1, <4>2, StandingKept
    <3> QED
      BY <3>1, <3>2
  <2> QED
    BY <2>1, <2>2, <2>3, <2>4 DEF Standings
<1>7. Threads'
  <2> SUFFICES ASSUME NEW v \in Worker
               PROVE  /\ \A i \in 1..Len(stack'[v]) - 1 :
                            stack'[v][i].pc = "exec" /\ Serves(prog'[stack'[v][i].job])
                      /\ Top(v)'.pc \in {"load", "exited"} =>
                            Len(stack'[v]) = 1 /\ residents'[v] = <<>>
                      /\ v \notin loaded' =>
                            /\ residents'[v] = <<>> /\ Len(stack'[v]) = 1
                            /\ Top(v)'.pc \in {"loop", "asleep", "load", "exited"}
                      /\ Top(v)'.pc # "exited" => panics'[v] < PanicLimit
    BY DEF Threads, At
  <2>1. /\ \A i \in 1..Len(stack[v]) - 1 :
              stack[v][i].pc = "exec" /\ Serves(prog[stack[v][i].job])
        /\ Top(v).pc \in {"load", "exited"} => Len(stack[v]) = 1 /\ residents[v] = <<>>
        /\ v \notin loaded => /\ residents[v] = <<>> /\ Len(stack[v]) = 1
                              /\ Top(v).pc \in {"loop", "asleep", "load", "exited"}
        /\ Top(v).pc # "exited" => panics[v] < PanicLimit
    BY DEF Threads, At, IInv
  <2>2. ASSUME NEW i \in 1..Len(stack[v]) - 1
        PROVE  stack'[v][i].pc = "exec" /\ Serves(prog'[stack'[v][i].job])
    <3>1. i \in 1..Len(stack[v]) /\ ~(v = w /\ i = t)
      BY <1>1 DEF t
    <3>2. stack'[v][i] = stack[v][i]
      BY <1>2, <3>1
    <3> QED
      BY <2>1, <3>2
  <2> QED
    BY <1>2, <2>1, <2>2
<1> QED
  BY <1>5, <1>6, <1>7 DEF IInv

-----------------------------------------------------------------------------
(* The actions of a thread.                                                  *)

(* The other variables of a step keep their types.                           *)
LEMMA TopType ==
    ASSUME TypeOK, NEW w \in Worker, NEW f, NewTop(w, f),
           status' \in [Job -> Statuses], published' \subseteq Job,
           prog' \in [Job -> Seq(Op)], host' \in [Job -> {"idle", "pending", "done"}],
           loaded' \subseteq Worker,
           signals' \in [one : Nat, work : BOOLEAN, term : BOOLEAN],
           UNCHANGED <<rt, cancelReq, queue, ringing, residents, progress, panics, bumped, client>>
    PROVE  TypeOK'
BY DEF TypeOK, NewTop, Statuses

(* What is known of the top frame.                                           *)
LEMMA TopFacts ==
    ASSUME IInv, NEW w \in Worker
    PROVE  /\ TypeOK /\ Top(w) \in Frame /\ Standing(Top(w), status, published)
           /\ Top(w).pc \notin {"loop", "asleep", "exited"} => Top(w).job \in Job
           /\ w \notin loaded => Top(w).pc \in {"loop", "asleep", "load", "exited"}
           /\ status \in [Job -> Statuses] /\ published \subseteq Job
           /\ prog \in [Job -> Seq(Op)] /\ host \in [Job -> {"idle", "pending", "done"}]
           /\ loaded \subseteq Worker
           /\ signals \in [one : Nat, work : BOOLEAN, term : BOOLEAN]
<1>1. TypeOK
  BY DEF IInv
<1>2. Standing(Top(w), status, published)
  BY <1>1, StackFacts DEF IInv, Standings
<1> QED
  BY <1>1, <1>2, StackFacts DEF IInv, Threads, At, TypeOK, Statuses, Standing

(* The top frame gives up its job, and with that the job ends.               *)
LEMMA FinishTopKeeps ==
    ASSUME IInv, NEW w \in Worker, NEW st \in Terminal, FinishTop(w, st),
           Top(w).pc \notin {"loop", "asleep", "load", "exited"}
    PROVE  IInv'
<1> DEFINE j == Top(w).job
           f == Idle(Top(w))
<1>1. /\ TypeOK /\ Top(w) \in Frame /\ w \in loaded /\ j \in Job
      /\ status[j] \in {"queued", "running", "committing"} \cup Terminal
  BY TopFacts DEF Standing, Frame
<1>2. f \in Frame /\ f.job = NoJob /\ f.pc = "loop"
  BY <1>1, FrameTypes
<1>3. NewTop(w, f)
  BY <1>1, <1>2, SetTopIs DEF FinishTop
<1>4. /\ UNCHANGED <<rt, cancelReq, prog, host, ringing, residents, loaded, panics, bumped, client>>
      /\ End({j}, st) /\ Notify({"term"}) /\ MarkProgress(w)
  BY DEF FinishTop
<1>5. /\ status' \in [Job -> Statuses]
      /\ \A k \in Job : status'[k] = IF k \in {j} /\ Live(k) THEN st ELSE status[k]
      /\ published' = published
      /\ queue' \in Seq(Job)
      /\ \A i \in 1..Len(queue') : InQueue(queue'[i])
      /\ QueueOnce => QueueOnce'
      /\ \A k \in Job : k \notin {j} /\ InQueue(k) => InQueue(k)'
  BY <1>1, <1>4, EndIs
<1>6. signals' \in [one : Nat, work : BOOLEAN, term : BOOLEAN]
  BY <1>1, <1>4, NotifyIs
<1>7. progress' \subseteq Worker
  BY <1>1, <1>4 DEF MarkProgress, TypeOK
<1>8. TypeOK'
  BY <1>1, <1>3, <1>4, <1>5, <1>6, <1>7 DEF TypeOK, Statuses, NewTop
<1>9. status'[j] \in Terminal
  BY <1>1, <1>5 DEF Live
<1>10. QueueOnce'
  BY <1>5 DEF IInv, Placed
<1> HIDE DEF f
<1> QED
  BY <1>1, <1>2, <1>3, <1>4, <1>5, <1>8, <1>9, <1>10, GiveUp

(* Going to sleep keeps the invariant.                                       *)
LEMMA SleepKeeps ==
    ASSUME IInv, NEW w \in Worker, Sleep(w)
    PROVE  IInv'
<1> DEFINE f == [Top(w) EXCEPT !.pc = "asleep"]
<1>1. Top(w).pc = "loop" /\ SetTop(w, f)
  BY DEF Sleep, Looping, At, Goto
<1>2. f \in Frame /\ f.job = Top(w).job /\ f.pc = "asleep"
  BY TopFacts DEF Frame
<1>9. Standing(f, status, published)
  BY <1>1, <1>2, TopFacts DEF Standing
<1>3. UNCHANGED <<rt, jobVars, cancelReq, prog, host, ringing, loaded, residents, progress,
                  panics, bumped, signals, client>>
  BY DEF Sleep
<1> HIDE DEF f
<1>4. NewTop(w, f)
  BY <1>1, <1>2, TopFacts, SetTopIs
<1>5. TypeOK'
  BY <1>3, <1>4, TopFacts, TopType DEF jobVars
<1> QED
  BY <1>1, <1>2, <1>3, <1>4, <1>5, <1>9, TopStep DEF jobVars, Live

PCs == {"loop", "asleep", "load", "start", "prepare", "poll", "exec", "park", "claim",
        "commit", "finish", "exited"}

(* The top frame of w moves to pc.                                           *)
Moves(w, f, pc) ==
    NewTop(w, f) /\ f.pc = pc /\ f.job = Top(w).job /\ f.stale = Top(w).stale

(* Goto moves the top frame and keeps its job and what it has seen.          *)
LEMMA GotoIs ==
    ASSUME TypeOK, NEW w \in Worker, NEW pc \in PCs, Goto(w, pc)
    PROVE  \E f \in Frame : Moves(w, f, pc) /\ f.how = Top(w).how
<1> DEFINE f == [Top(w) EXCEPT !.pc = pc]
<1>1. SetTop(w, f)
  BY DEF Goto
<1>2. /\ f \in Frame /\ f.pc = pc /\ f.job = Top(w).job /\ f.how = Top(w).how
      /\ f.stale = Top(w).stale
  BY StackFacts DEF Frame, PCs
<1> HIDE DEF f
<1>3. NewTop(w, f)
  BY <1>1, <1>2, SetTopIs
<1> QED
  BY <1>2, <1>3 DEF Moves

(* Loading the catalogue keeps the invariant.                                *)
LEMMA LoadCatalogKeeps ==
    ASSUME IInv, NEW w \in Worker, LoadCatalog(w)
    PROVE  IInv'
<1>1. /\ Top(w).pc = "load" /\ loaded' = loaded \cup {w} /\ Goto(w, "start")
      /\ UNCHANGED <<rt, status, queue, published, cancelReq, prog, host, ringing, residents,
                     progress, panics, bumped, signals, client>>
  BY DEF LoadCatalog, At, jobVars
<1>2. PICK f \in Frame : Moves(w, f, "start")
  BY <1>1, TopFacts, GotoIs DEF PCs
<1>3. NewTop(w, f) /\ f.pc = "start" /\ f.job = Top(w).job
  BY <1>2 DEF Moves
<1>4. Standing(f, status', published')
  BY <1>1, <1>3, TopFacts DEF Standing
<1>5. TypeOK'
  BY <1>1, <1>3, TopFacts, TopType
<1> QED
  BY <1>1, <1>3, <1>4, <1>5, TopStep DEF Live

(* Starting a popped job, or dropping one that has ended, keeps the          *)
(* invariant.                                                                *)
LEMMA StartKeeps ==
    ASSUME IInv, NEW w \in Worker, Start(w)
    PROVE  IInv'
<1> DEFINE j == Top(w).job
<1>1. /\ Top(w).pc = "start"
      /\ UNCHANGED <<rt, queue, published, cancelReq, prog, host, ringing, residents,
                     loaded, progress, panics, bumped, client>>
  BY DEF Start, At
<1>2. j \in Job /\ status[j] \in {"queued"} \cup Terminal /\ w \in loaded /\ TypeOK
  BY <1>1, TopFacts DEF Standing
<1>3. CASE status[j] = "queued" /\ ~Closed
  <2>1. status' = [status EXCEPT ![j] = "running"] /\ Goto(w, "prepare") /\ Notify({"term"})
    BY <1>3 DEF Start
  <2>2. PICK f \in Frame : Moves(w, f, "prepare")
    BY <2>1, TopFacts, GotoIs DEF PCs
  <2>3. NewTop(w, f) /\ f.pc = "prepare" /\ f.job = j
    BY <2>2 DEF Moves
  <2>4. /\ status' \in [Job -> Statuses] /\ status'[j] = "running"
        /\ \A k \in Job : k # j => status'[k] = status[k]
    BY <1>2, <2>1, TopFacts DEF Statuses
  <2>5. Standing(f, status', published')
    BY <1>2, <2>3, <2>4 DEF Standing
  <2>6. signals' \in [one : Nat, work : BOOLEAN, term : BOOLEAN]
    BY <1>2, <2>1, NotifyIs
  <2>7. TypeOK'
    BY <1>1, <2>3, <2>4, <2>6, TopFacts, TopType
  <2>8. \A k \in Job : Live(k)' => Live(k)
    BY <1>3, <2>4 DEF Live
  <2> HIDE DEF j
  <2>9. f.job = Top(w).job
    BY <2>3 DEF j
  <2> QED
    BY <1>1, <1>2, <2>3, <2>4, <2>5, <2>7, <2>8, <2>9, TopStep
<1>4. CASE ~(status[j] = "queued" /\ ~Closed)
  <2> DEFINE f == Idle(Top(w))
  <2>1. SetTop(w, f) /\ UNCHANGED <<status, signals>>
    BY <1>4 DEF Start
  <2>2. f \in Frame /\ f.pc = "loop" /\ f.job = NoJob
    BY TopFacts, FrameTypes
  <2> HIDE DEF f
  <2>3. NewTop(w, f)
    BY <1>2, <2>1, <2>2, SetTopIs
  <2>4. TypeOK'
    BY <1>1, <2>1, <2>3, TopFacts, TopType
  <2>5. status'[j] \in Terminal
    BY <1>2, <1>4, <2>1 DEF IInv, Standings
  <2>6. /\ QueueOnce' /\ \A i \in 1..Len(queue') : InQueue(queue'[i])
        /\ \A k \in Job : InQueue(k) => InQueue(k)'
    BY <1>1 DEF IInv, Placed, QueueOnce, InQueue
  <2> QED
    BY <1>1, <1>2, <2>1, <2>2, <2>3, <2>4, <2>5, <2>6, GiveUp
<1> QED
  BY <1>3, <1>4

(* Preparing a job keeps the invariant.                                      *)
LEMMA PrepareKeeps ==
    ASSUME IInv, NEW w \in Worker, Prepare(w)
    PROVE  IInv'
<1>1. /\ Top(w).pc = "prepare" /\ Goto(w, "poll")
      /\ UNCHANGED <<rt, status, queue, published, cancelReq, prog, host, ringing, residents,
                     loaded, progress, panics, bumped, signals, client>>
  BY DEF Prepare, At, jobVars
<1>2. PICK f \in Frame : Moves(w, f, "poll")
  BY <1>1, TopFacts, GotoIs DEF PCs
<1>3. NewTop(w, f) /\ f.pc = "poll" /\ f.job = Top(w).job
  BY <1>2 DEF Moves
<1>4. Standing(f, status', published') /\ w \in loaded
  BY <1>1, <1>3, TopFacts DEF Standing
<1>5. TypeOK'
  BY <1>1, <1>3, TopFacts, TopType
<1> QED
  BY <1>1, <1>3, <1>4, <1>5, TopStep DEF Live

(* A preparation that fails keeps the invariant.                             *)
LEMMA PrepareFailsKeeps ==
    ASSUME IInv, NEW w \in Worker, PrepareFails(w)
    PROVE  IInv'
BY FinishTopKeeps DEF PrepareFails, At, Terminal

(* The check of the cancel flag keeps the invariant.                         *)
LEMMA PollKeeps ==
    ASSUME IInv, NEW w \in Worker, Poll(w)
    PROVE  IInv'
<1>1. CASE FinishTop(w, "canceled")
  BY <1>1, FinishTopKeeps DEF Poll, At, Terminal
<1>2. CASE ~FinishTop(w, "canceled")
  <2>1. /\ Top(w).pc = "poll" /\ Goto(w, "exec")
        /\ UNCHANGED <<rt, status, queue, published, cancelReq, prog, host, ringing, residents,
                       loaded, progress, panics, bumped, signals, client>>
    BY <1>2 DEF Poll, At, jobVars
  <2>2. PICK f \in Frame : Moves(w, f, "exec")
    BY <2>1, TopFacts, GotoIs DEF PCs
  <2>3. NewTop(w, f) /\ f.pc = "exec" /\ f.job = Top(w).job
    BY <2>2 DEF Moves
  <2>4. Standing(f, status', published') /\ w \in loaded
    BY <2>1, <2>3, TopFacts DEF Standing
  <2>5. TypeOK'
    BY <2>1, <2>3, TopFacts, TopType
  <2> QED
    BY <2>1, <2>3, <2>4, <2>5, TopStep DEF Live
<1> QED
  BY <1>1, <1>2

(* The stack stays as it is.                                                 *)
LEMMA SameTop ==
    ASSUME TypeOK, NEW w \in Worker, UNCHANGED stack
    PROVE  NewTop(w, Top(w))
<1>1. /\ stack \in [Worker -> Seq(Frame)] /\ \A v \in Worker : stack[v] # <<>>
      /\ Top(w) = stack[w][Len(stack[w])]
  BY StackFacts DEF TypeOK
<1>2. \A v \in Worker : Top(v)' = Top(v)
  BY DEF Top, Depth
<1> QED
  BY <1>1, <1>2 DEF NewTop

(* A job that executes stands where it did after one operation.              *)
LEMMA ExecStep ==
    ASSUME IInv, NEW w \in Worker, Top(w).pc = "exec", UNCHANGED stack,
           Consume(Top(w).job), prog[Top(w).job] # <<>>,
           UNCHANGED <<rt, status, queue, published, cancelReq, ringing, residents, loaded,
                       progress, panics, bumped, client, signals>>,
           host' \in [Job -> {"idle", "pending", "done"}]
    PROVE  IInv'
<1> DEFINE j == Top(w).job
<1>1. TypeOK /\ Top(w) \in Frame /\ j \in Job /\ w \in loaded
      /\ Standing(Top(w), status, published)
  BY TopFacts
<1>2. /\ prog' \in [Job -> Seq(Op)]
      /\ \A k \in Job : k # j => prog'[k] = prog[k]
  BY <1>1, ConsumeIs
<1>3. NewTop(w, Top(w))
  BY <1>1, SameTop
<1>4. TypeOK'
  BY <1>1, <1>2, <1>3, TopFacts, TopType
<1>5. \E f \in Frame : f = Top(w)
  BY <1>1
<1>6. PICK f \in Frame : f = Top(w)
  BY <1>5
<1>7. NewTop(w, f) /\ f.job = Top(w).job /\ Standing(f, status', published') /\ f.pc = "exec"
  BY <1>1, <1>3, <1>6
<1> QED
  BY <1>1, <1>2, <1>4, <1>7, TopStep DEF Live

(* A host operation keeps the invariant.                                     *)
LEMMA HostCallKeeps ==
    ASSUME IInv, NEW w \in Worker, HostCall(w)
    PROVE  IInv'
<1> DEFINE j == Top(w).job
<1>1. /\ Top(w).pc = "exec" /\ prog[j] # <<>>
      /\ UNCHANGED <<rt, status, queue, published, cancelReq, ringing, residents, loaded,
                     progress, panics, bumped, signals, client>>
  BY DEF HostCall, Quantum, At, jobVars
<1>2. host \in [Job -> {"idle", "pending", "done"}] /\ j \in Job /\ w \in loaded
  BY <1>1, TopFacts
<1>3. CASE host[j] = "done"
  <2>1. host' = [host EXCEPT ![j] = "idle"] /\ Consume(j) /\ UNCHANGED stack
    BY <1>3 DEF HostCall
  <2>2. host' \in [Job -> {"idle", "pending", "done"}]
    BY <1>2, <2>1
  <2> QED
    BY <1>1, <2>1, <2>2, ExecStep
<1>4. CASE host[j] # "done"
  <2>1. host' = [host EXCEPT ![j] = "pending"] /\ Goto(w, "park") /\ UNCHANGED prog
    BY <1>4 DEF HostCall
  <2>2. PICK f \in Frame : Moves(w, f, "park")
    BY <2>1, TopFacts, GotoIs DEF PCs
  <2>3. NewTop(w, f) /\ f.pc = "park" /\ f.job = Top(w).job
    BY <2>2 DEF Moves
  <2>4. host' \in [Job -> {"idle", "pending", "done"}]
    BY <1>2, <2>1
  <2>5. Standing(f, status', published')
    BY <1>1, <2>3, TopFacts DEF Standing
  <2>6. TypeOK'
    BY <1>1, <2>1, <2>3, <2>4, TopFacts, TopType
  <2> QED
    BY <1>1, <1>2, <2>1, <2>3, <2>5, <2>6, TopStep DEF Live
<1> QED
  BY <1>3, <1>4

(* The end of a program keeps the invariant.                                 *)
LEMMA EndProgramKeeps ==
    ASSUME IInv, NEW w \in Worker, EndProgram(w)
    PROVE  IInv'
<1>1. Top(w).pc = "exec" /\ w \in loaded /\ Top(w) \in Frame /\ TypeOK
  BY TopFacts DEF EndProgram, At
<1>2. CASE FinishTop(w, "aborted")
  BY <1>1, <1>2, FinishTopKeeps DEF Terminal
<1>3. ASSUME NEW how \in Outcome \ {"panic"},
             SetTop(w, [Top(w) EXCEPT !.pc = "claim", !.how = how]),
             UNCHANGED <<rt, jobVars, cancelReq, prog, host, ringing, residents,
                         loaded, progress, panics, bumped, signals, client>>
      PROVE  IInv'
  <2> DEFINE f == [Top(w) EXCEPT !.pc = "claim", !.how = how]
  <2>1. how \in {"completed", "failed"}
    BY PoolAssumption
  <2>2. f \in Frame /\ f.pc = "claim" /\ f.job = Top(w).job /\ f.how = how
    BY <1>1, <2>1 DEF Frame
  <2>3. SetTop(w, f)
    BY <1>3
  <2> HIDE DEF f
  <2>4. NewTop(w, f)
    BY <1>1, <2>2, <2>3, SetTopIs
  <2>5. Standing(f, status', published')
    BY <1>1, <1>3, <2>1, <2>2, TopFacts DEF Standing, jobVars
  <2>6. TypeOK'
    BY <1>3, <2>4, TopFacts, TopType DEF jobVars
  <2> QED
    BY <1>1, <1>3, <2>2, <2>4, <2>5, <2>6, TopStep DEF Live, jobVars
<1> QED
  BY <1>2, <1>3 DEF EndProgram

(* The claim of the terminal status keeps the invariant.                     *)
LEMMA ClaimKeeps ==
    ASSUME IInv, NEW w \in Worker, Claim(w)
    PROVE  IInv'
<1> DEFINE j == Top(w).job
<1>1. /\ Top(w).pc = "claim" /\ w \in loaded /\ j \in Job /\ TypeOK /\ Top(w) \in Frame
      /\ Standing(Top(w), status, published)
  BY TopFacts DEF Claim, At
<1>2. CASE ~Closed /\ status[j] = "running"
  <2>1. /\ status' = [status EXCEPT ![j] = "committing"] /\ Goto(w, "commit")
        /\ UNCHANGED <<rt, queue, published, cancelReq, prog, host, ringing, residents,
                       loaded, progress, panics, bumped, signals, client>>
    BY <1>2 DEF Claim
  <2>2. PICK f \in Frame : Moves(w, f, "commit") /\ f.how = Top(w).how
    BY <1>1, <2>1, GotoIs DEF PCs
  <2>3. NewTop(w, f) /\ f.pc = "commit" /\ f.job = Top(w).job
    BY <2>2 DEF Moves
  <2>4. /\ status' \in [Job -> Statuses] /\ status'[j] = "committing"
        /\ \A k \in Job : k # j => status'[k] = status[k]
    BY <1>1, <2>1, TopFacts DEF Statuses
  <2>5. Standing(f, status', published')
    BY <1>1, <2>2, <2>3, <2>4 DEF Standing
  <2>6. TypeOK'
    BY <2>1, <2>3, <2>4, TopFacts, TopType
  <2>7. \A k \in Job : Live(k)' => Live(k) /\ (status'[k] = "queued" => status[k] = "queued")
    BY <1>2, <2>4 DEF Live
  <2>8. \A k \in Job : status'[k] = "queued" => status[k] = "queued"
    BY <1>2, <2>4
  <2> QED
    BY <1>1, <2>1, <2>3, <2>4, <2>5, <2>6, <2>7, <2>8, TopStep
<1>3. CASE ~(~Closed /\ status[j] = "running")
  <2>1. FinishTop(w, "canceled") \/ FinishTop(w, "aborted")
    BY <1>3 DEF Claim
  <2> QED
    BY <1>1, <2>1, FinishTopKeeps DEF Terminal
<1> QED
  BY <1>2, <1>3

(* Publishing the write-set keeps the invariant.                             *)
LEMMA CommitKeeps ==
    ASSUME IInv, NEW w \in Worker, Commit(w)
    PROVE  IInv'
<1> DEFINE j == Top(w).job
<1>1. /\ Top(w).pc = "commit" /\ w \in loaded /\ j \in Job /\ TypeOK /\ Top(w) \in Frame
      /\ Standing(Top(w), status, published)
      /\ UNCHANGED <<rt, status, queue, cancelReq, prog, host, ringing, residents,
                     loaded, progress, panics, bumped, signals, client>>
  BY TopFacts DEF Commit, At
<1>2. CASE published' = published \cup {j} /\ Goto(w, "finish")
  <2>1. PICK f \in Frame : Moves(w, f, "finish") /\ f.how = Top(w).how
    BY <1>1, <1>2, GotoIs DEF PCs
  <2>2. NewTop(w, f) /\ f.pc = "finish" /\ f.job = Top(w).job
    BY <2>1 DEF Moves
  <2>3. Standing(f, status', published')
    BY <1>1, <1>2, <2>1, <2>2 DEF Standing
  <2>4. published' \subseteq Job /\ published \subseteq published'
    BY <1>1, <1>2 DEF TypeOK
  <2>5. TypeOK'
    BY <1>1, <2>2, <2>4, TopFacts, TopType
  <2> QED
    BY <1>1, <2>2, <2>3, <2>4, <2>5, TopStep DEF Live
<1>3. CASE SetTop(w, [Top(w) EXCEPT !.pc = "finish", !.how = "failed"]) /\ UNCHANGED published
  <2> DEFINE f == [Top(w) EXCEPT !.pc = "finish", !.how = "failed"]
  <2>1. f \in Frame /\ f.pc = "finish" /\ f.job = Top(w).job /\ f.how = "failed"
    BY <1>1 DEF Frame
  <2>2. SetTop(w, f)
    BY <1>3
  <2> HIDE DEF f
  <2>3. NewTop(w, f)
    BY <1>1, <2>1, <2>2, SetTopIs
  <2>4. Standing(f, status', published')
    BY <1>1, <2>1 DEF Standing
  <2>5. TypeOK'
    BY <1>1, <1>3, <2>3, TopFacts, TopType
  <2> QED
    BY <1>1, <1>3, <2>1, <2>3, <2>4, <2>5, TopStep DEF Live
<1> QED
  BY <1>2, <1>3 DEF Commit

(* The end of a committed job keeps the invariant.                           *)
LEMMA FinishKeeps ==
    ASSUME IInv, NEW w \in Worker, Finish(w)
    PROVE  IInv'
<1>1. Top(w).pc = "finish" /\ FinishTop(w, Top(w).how)
  BY DEF Finish, At
<1>2. Top(w).how \in Terminal
  BY <1>1, TopFacts DEF Standing, Terminal
<1> QED
  BY <1>1, <1>2, FinishTopKeeps

-----------------------------------------------------------------------------
(* A job moves between the FIFO, the pool of a thread and its top frame.     *)

LEMMA TopRest ==
    ASSUME IInv, NEW w \in Worker, NEW f, NewTop(w, f),
           UNCHANGED <<rt, status, published, loaded, panics>>,
           \A j \in Job : j # Top(w).job => prog'[j] = prog[j],
           Standing(f, status, published), f.pc # "exited", Top(w).pc # "exited",
           f.pc = "load" => Len(stack[w]) = 1 /\ residents'[w] = <<>>,
           w \notin loaded => f.pc \in {"loop", "asleep", "load"} /\ residents'[w] = <<>>,
           \A v \in Worker : v # w => residents'[v] = residents[v],
           \A i \in 1..Len(queue') : InQueue(queue'[i]),
           \A i \in 1..Len(residents'[w]) :
              status[residents'[w][i].job] \in {"running"} \cup Terminal
    PROVE  Standings' /\ Threads'
<1> DEFINE t == Len(stack[w])
<1>1. /\ TypeOK
      /\ \A v \in Worker : Len(stack[v]) \in Nat /\ Len(stack[v]) \in 1..Len(stack[v])
      /\ \A v \in Worker : Top(v) = stack[v][Len(stack[v])]
  BY StackFacts DEF IInv
<1>2. /\ \A v \in Worker : Len(stack'[v]) = Len(stack[v])
      /\ \A v \in Worker : \A i \in 1..Len(stack[v]) :
            stack'[v][i] = IF v = w /\ i = t THEN f ELSE stack[v][i]
      /\ \A v \in Worker : Top(v)' = IF v = w THEN f ELSE Top(v)
  BY DEF NewTop
<1> HIDE DEF t
<1>3. Standings'
  <2>1. \A i \in 1..Len(queue') : status'[queue'[i]] = "queued"
    BY DEF InQueue, IInv, Standings
  <2>2. Closed' => \A k \in Job : status'[k] # "queued"
    BY DEF IInv, Standings, Closed
  <2>3. \A v \in Worker : \A i \in 1..Len(residents'[v]) :
           status'[residents'[v][i].job] \in {"running"} \cup Terminal
    BY DEF IInv, Standings
  <2>4. \A v \in Worker : \A i \in 1..Len(stack'[v]) :
           Standing(stack'[v][i], status', published')
    BY <1>2 DEF IInv, Standings
  <2> QED
    BY <2>1, <2>2, <2>3, <2>4 DEF Standings
<1>4. Threads'
  <2> SUFFICES ASSUME NEW v \in Worker
               PROVE  /\ \A i \in 1..Len(stack'[v]) - 1 :
                            stack'[v][i].pc = "exec" /\ Serves(prog'[stack'[v][i].job])
                      /\ Top(v)'.pc \in {"load", "exited"} =>
                            Len(stack'[v]) = 1 /\ residents'[v] = <<>>
                      /\ v \notin loaded' =>
                            /\ residents'[v] = <<>> /\ Len(stack'[v]) = 1
                            /\ Top(v)'.pc \in {"loop", "asleep", "load", "exited"}
                      /\ Top(v)'.pc # "exited" => panics'[v] < PanicLimit
    BY DEF Threads, At
  <2>1. /\ \A i \in 1..Len(stack[v]) - 1 :
              stack[v][i].pc = "exec" /\ Serves(prog[stack[v][i].job])
        /\ Top(v).pc \in {"load", "exited"} => Len(stack[v]) = 1 /\ residents[v] = <<>>
        /\ v \notin loaded => /\ residents[v] = <<>> /\ Len(stack[v]) = 1
                              /\ Top(v).pc \in {"loop", "asleep", "load", "exited"}
        /\ Top(v).pc # "exited" => panics[v] < PanicLimit
    BY DEF Threads, At, IInv
  <2>2. ASSUME NEW i \in 1..Len(stack[v]) - 1
        PROVE  stack'[v][i].pc = "exec" /\ Serves(prog'[stack'[v][i].job])
    <3>1. i \in 1..Len(stack[v]) /\ ~(v = w /\ i = t)
      BY <1>1 DEF t
    <3>2. stack'[v][i] = stack[v][i] /\ stack[v][i].pc = "exec"
      BY <1>2, <2>1, <3>1
    <3>3. stack[v][i].job \in Job
      BY <3>1, <3>2 DEF IInv, Standings, Standing
    <3>4. stack[v][i].job # Top(w).job
      BY <1>1, <3>1, <3>3 DEF IInv, Placed, FrameOnce, t
    <3> QED
      BY <2>1, <3>2, <3>3, <3>4
  <2> QED
    BY <1>2, <2>1, <2>2
<1> QED
  BY <1>3, <1>4

(* A thread that looks for work.                                             *)
LEMMA LoopingFacts ==
    ASSUME IInv, NEW w \in Worker, Looping(w)
    PROVE  /\ Top(w).pc = "loop" /\ Top(w).job = NoJob /\ ~Closed
           /\ w \notin loaded => residents[w] = <<>> /\ ~Helping(w) /\ Len(stack[w]) = 1
BY TopFacts, StackFacts DEF Looping, At, Standing, IInv, Threads, Helping

(* The first runnable resident is one of them.                               *)
LEMMA FirstRunnableIs ==
    ASSUME TypeOK, NEW w \in Worker, Runnable(w) # {}
    PROVE  FirstRunnable(w) \in 1..Len(residents[w])
<1> DEFINE R == Runnable(w)
<1>1. R \in SUBSET (1..Len(residents[w])) /\ R # {} /\ Len(residents[w]) \in Nat
  BY ResidentFacts DEF Runnable
<1>2. R \in SUBSET Nat
  BY <1>1
<1> HIDE DEF R
<1>3. \E k \in R : \A m \in R : k <= m
  BY <1>1, <1>2, WellOrdered
<1> QED
  BY <1>1, <1>3 DEF FirstRunnable, R

(* Taking a runnable resident keeps the invariant.                           *)
LEMMA PickResidentKeeps ==
    ASSUME IInv, NEW w \in Worker, PickResident(w)
    PROVE  IInv'
<1> DEFINE i == FirstRunnable(w)
           f == [Top(w) EXCEPT !.pc = "poll", !.job = residents[w][i].job]
<1>1. /\ Looping(w) /\ Runnable(w) # {}
      /\ SetTop(w, f) /\ residents' = [residents EXCEPT ![w] = RemoveAt(@, i)]
      /\ UNCHANGED <<rt, status, queue, published, cancelReq, prog, host, ringing, loaded,
                     progress, panics, bumped, signals, client>>
  BY DEF PickResident, jobVars
<1>2. i \in 1..Len(residents[w])
  BY <1>1, TopFacts, FirstRunnableIs
<1>3. /\ TypeOK /\ residents[w][i].job \in Job /\ Top(w) \in Frame
      /\ residents[w] \in Seq([job : Job, waiting : BOOLEAN])
      /\ status[residents[w][i].job] \in {"running"} \cup Terminal
  BY <1>2, TopFacts, ResidentFacts DEF IInv, Standings
<1> HIDE DEF i
<1>4. f \in Frame /\ f.pc = "poll" /\ f.job = residents[w][i].job
  BY <1>3 DEF Frame
<1> HIDE DEF f
<1>5. NewTop(w, f)
  BY <1>1, <1>3, <1>4, SetTopIs
<1> DEFINE s == RemoveAt(residents[w], i)
<1>6. /\ s \in Seq([job : Job, waiting : BOOLEAN]) /\ Len(s) = Len(residents[w]) - 1
      /\ \A k \in 1..Len(residents[w]) - 1 :
            s[k] = IF k < i THEN residents[w][k] ELSE residents[w][k + 1]
  BY <1>2, <1>3, RemoveAtIs
<1>7. residents' = [residents EXCEPT ![w] = s]
  BY <1>1
<1> HIDE DEF s
<1>8. residents \in [Worker -> Seq([job : Job, waiting : BOOLEAN])]
  BY <1>3 DEF TypeOK
<1>9. /\ residents' \in [Worker -> Seq([job : Job, waiting : BOOLEAN])]
      /\ residents'[w] = s /\ \A v \in Worker : v # w => residents'[v] = residents[v]
  BY <1>6, <1>7, <1>8
<1>10. TypeOK'
  BY <1>1, <1>3, <1>5, <1>9 DEF TypeOK, NewTop
<1>11. Takes(w, i, f)
  <2>1. \A k \in 1..Len(residents[w]) - 1 :
          residents'[w][k].job = IF k < i THEN residents[w][k].job
                                 ELSE residents[w][k + 1].job
    BY <1>6, <1>9
  <2> QED
    BY <1>1, <1>2, <1>4, <1>5, <1>6, <1>9, <2>1, LoopingFacts DEF Takes
<1>12. Placed'
  BY <1>3, <1>4, <1>10, <1>11, TakesKeeps DEF IInv
<1>13. Standings' /\ Threads'
  <2>1. Standing(f, status, published)
    BY <1>3, <1>4 DEF Standing
  <2>2. \A k \in 1..Len(residents'[w]) :
           status[residents'[w][k].job] \in {"running"} \cup Terminal
    <3> TAKE k \in 1..Len(residents'[w])
    <3>1. Len(residents[w]) \in Nat /\ i \in 1..Len(residents[w])
      BY <1>2, <1>3, ResidentFacts
    <3>2. /\ k \in 1..Len(residents[w]) - 1 /\ k \in 1..Len(residents[w])
          /\ k + 1 \in 1..Len(residents[w])
      BY <1>6, <1>9, <3>1
    <3>3. residents'[w][k] = residents[w][k] \/ residents'[w][k] = residents[w][k + 1]
      BY <1>6, <1>9, <3>2
    <3> QED
      BY <3>2, <3>3 DEF IInv, Standings
  <2>3. \A k \in 1..Len(queue') : InQueue(queue'[k])
    BY <1>1 DEF InQueue
  <2>4. w \in loaded
    <3>1. residents[w] # <<>>
      BY <1>2, <1>3, ResidentFacts
    <3> QED
      BY <1>1, <3>1, LoopingFacts
  <2>5. Top(w).pc # "exited"
    BY <1>1, LoopingFacts
  <2> QED
    BY <1>1, <1>4, <1>5, <1>9, <2>1, <2>2, <2>3, <2>4, <2>5, TopRest
<1> QED
  BY <1>10, <1>12, <1>13 DEF IInv

(* Looking again at every waiting resident keeps the invariant.              *)
LEMMA RecheckKeeps ==
    ASSUME IInv, NEW w \in Worker, Recheck(w)
    PROVE  IInv'
<1> DEFINE f == [Top(w) EXCEPT !.pc = "poll", !.stale = FALSE, !.job = residents[w][1].job]
           n == Len(residents[w])
           s == [i \in 1..n - 1 |-> [job |-> residents[w][i + 1].job, waiting |-> FALSE]]
<1>1. /\ Looping(w) /\ residents[w] # <<>>
      /\ SetTop(w, f) /\ residents' = [residents EXCEPT ![w] = s]
      /\ UNCHANGED <<rt, status, queue, published, cancelReq, prog, host, ringing, loaded,
                     progress, panics, bumped, signals, client>>
  BY DEF Recheck, jobVars
<1>2. /\ TypeOK /\ n \in Nat /\ 1 \in 1..n /\ Top(w) \in Frame
      /\ residents[w][1].job \in Job
      /\ \A k \in 1..n : residents[w][k].job \in Job
      /\ status[residents[w][1].job] \in {"running"} \cup Terminal
  BY <1>1, TopFacts, ResidentFacts, SMTT(30) DEF IInv, Standings
<1>4. f \in Frame /\ f.pc = "poll" /\ f.job = residents[w][1].job
  BY <1>2 DEF Frame
<1> HIDE DEF f
<1>5. NewTop(w, f)
  BY <1>1, <1>2, <1>4, SetTopIs
<1>6. /\ s \in Seq([job : Job, waiting : BOOLEAN]) /\ Len(s) = n - 1
      /\ \A k \in 1..n - 1 : s[k].job = residents[w][k + 1].job
  <2> HIDE DEF n
  <2>1. \A k \in 1..n - 1 : [job |-> residents[w][k + 1].job, waiting |-> FALSE]
                               \in [job : Job, waiting : BOOLEAN]
    <3> TAKE k \in 1..n - 1
    <3>1. k + 1 \in 1..n
      BY <1>2
    <3> QED
      BY <1>2, <3>1
  <2>2. s \in [1..n - 1 -> [job : Job, waiting : BOOLEAN]]
    BY <2>1
  <2>3. n - 1 \in Nat /\ DOMAIN s = 1..n - 1
    BY <1>2
  <2>4. \A k \in 1..n - 1 : s[k].job = residents[w][k + 1].job
    OBVIOUS
  <2> HIDE DEF s
  <2>5. s \in Seq([job : Job, waiting : BOOLEAN])
    BY <2>2, <2>3, SeqDef
  <2>6. Len(s) = n - 1
    BY <2>3, <2>5, LenProperties
  <2> QED
    BY <2>4, <2>5, <2>6
<1> HIDE DEF s
<1>8. residents \in [Worker -> Seq([job : Job, waiting : BOOLEAN])]
  BY <1>2 DEF TypeOK
<1>9. /\ residents' \in [Worker -> Seq([job : Job, waiting : BOOLEAN])]
      /\ residents'[w] = s /\ \A v \in Worker : v # w => residents'[v] = residents[v]
  BY <1>1, <1>6, <1>8
<1>10. TypeOK'
  BY <1>1, <1>2, <1>5, <1>9 DEF TypeOK, NewTop
<1>11. Takes(w, 1, f)
  <2>1. \A k \in 1..n - 1 :
          residents'[w][k].job = IF k < 1 THEN residents[w][k].job
                                 ELSE residents[w][k + 1].job
    <3> HIDE DEF n
    <3> TAKE k \in 1..n - 1
    <3>1. ~(k < 1)
      BY <1>2
    <3>2. residents'[w][k].job = residents[w][k + 1].job
      BY <1>6, <1>9
    <3> QED
      BY <3>1, <3>2
  <2> QED
    BY <1>1, <1>2, <1>4, <1>5, <1>6, <1>9, <2>1, LoopingFacts DEF Takes
<1>12. Placed'
  BY <1>2, <1>4, <1>10, <1>11, TakesKeeps DEF IInv
<1>13. Standings' /\ Threads'
  <2>1. Standing(f, status, published)
    BY <1>2, <1>4 DEF Standing
  <2>2. \A k \in 1..Len(residents'[w]) :
           status[residents'[w][k].job] \in {"running"} \cup Terminal
    <3> TAKE k \in 1..Len(residents'[w])
    <3>1. k \in 1..n - 1 /\ k + 1 \in 1..n
      BY <1>2, <1>6, <1>9
    <3>2. residents'[w][k].job = residents[w][k + 1].job
      BY <1>6, <1>9, <3>1
    <3> QED
      BY <3>1, <3>2 DEF IInv, Standings
  <2>3. \A k \in 1..Len(queue') : InQueue(queue'[k])
    BY <1>1 DEF InQueue
  <2>4. w \in loaded /\ Top(w).pc # "exited"
    BY <1>1, LoopingFacts
  <2> QED
    BY <1>1, <1>4, <1>5, <1>9, <2>1, <2>2, <2>3, <2>4, TopRest
<1> QED
  BY <1>10, <1>12, <1>13 DEF IInv

(* Taking the oldest job of the FIFO keeps the invariant.                    *)
LEMMA PopQueueKeeps ==
    ASSUME IInv, NEW w \in Worker, PopQueue(w)
    PROVE  IInv'
<1> DEFINE pc == IF Helping(w) \/ w \in loaded THEN "start" ELSE "load"
           f == [Top(w) EXCEPT !.job = Head(queue), !.pc = pc]
<1>1. /\ Looping(w) /\ queue # <<>> /\ SetTop(w, f) /\ queue' = Tail(queue)
      /\ UNCHANGED <<rt, status, published, cancelReq, prog, host, ringing, residents, loaded,
                     progress, panics, bumped, signals, client>>
  BY DEF PopQueue
<1>2. /\ TypeOK /\ Top(w) \in Frame /\ queue \in Seq(Job) /\ Len(queue) \in Nat
      /\ Len(queue) >= 1 /\ queue[1] \in Job /\ Head(queue) = queue[1]
      /\ status[queue[1]] = "queued"
  <2>1. TypeOK /\ queue \in Seq(Job) /\ Len(queue) \in Nat /\ Len(queue) # 0
    BY <1>1, TopFacts, QueueFacts
  <2>2. 1 \in 1..Len(queue) /\ Head(queue) = queue[1]
    BY <1>1, <2>1, HeadTailProperties
  <2> QED
    BY <2>1, <2>2, TopFacts, QueueFacts DEF IInv, Standings
<1>3. /\ Len(queue') = Len(queue) - 1 /\ queue' \in Seq(Job)
      /\ \A k \in 1..Len(queue) - 1 : queue'[k] = queue[k + 1]
  BY <1>1, <1>2, HeadTailProperties
<1>4. pc \in {"start", "load"}
  OBVIOUS
<1>5. f \in Frame /\ f.pc = pc /\ f.job = queue[1]
  <2> HIDE DEF pc
  <2> QED
    BY <1>2, <1>4 DEF Frame
<1> HIDE DEF f
<1>6. NewTop(w, f)
  BY <1>1, <1>2, <1>5, SetTopIs
<1>7. TypeOK'
  BY <1>1, <1>2, <1>3, <1>6 DEF TypeOK, NewTop
<1>8. Pops(w, f)
  BY <1>1, <1>2, <1>3, <1>5, <1>6, LoopingFacts DEF Pops
<1>9. Placed'
  BY <1>2, <1>5, <1>7, <1>8, PopsKeeps DEF IInv
<1>10. Standings' /\ Threads'
  <2>1. Standing(f, status, published)
    BY <1>2, <1>4, <1>5 DEF Standing
  <2>2. \A k \in 1..Len(residents'[w]) :
           status[residents'[w][k].job] \in {"running"} \cup Terminal
    BY <1>1 DEF IInv, Standings
  <2>3. \A k \in 1..Len(queue') : InQueue(queue'[k])
    <3> TAKE k \in 1..Len(queue')
    <3>1. k + 1 \in 1..Len(queue) /\ queue'[k] = queue[k + 1]
      BY <1>2, <1>3
    <3> QED
      BY <3>1 DEF InQueue
  <2>4. /\ Top(w).pc # "exited" /\ f.pc # "exited"
        /\ w \notin loaded => residents'[w] = <<>> /\ f.pc = "load"
        /\ f.pc = "load" => w \notin loaded
        /\ w \notin loaded => Len(stack[w]) = 1
    BY <1>1, <1>5, LoopingFacts
  <2> QED
    BY <1>1, <1>6, <2>1, <2>2, <2>3, <2>4, TopRest
<1> QED
  BY <1>7, <1>9, <1>10 DEF IInv

(* A job leaves the top frame for the pool of its thread, after one operation *)
(* or none.                                                                   *)
LEMMA BackStep ==
    ASSUME IInv, NEW w \in Worker, NEW r \in [job : Job, waiting : BOOLEAN],
           r.job = Top(w).job, Top(w).pc \in {"exec", "park"},
           SetTop(w, Idle(Top(w))), residents' = [residents EXCEPT ![w] = Append(@, r)],
           prog' \in [Job -> Seq(Op)], \A k \in Job : k # r.job => prog'[k] = prog[k],
           UNCHANGED <<rt, status, queue, published, cancelReq, host, ringing, loaded,
                       progress, panics, bumped, signals, client>>
    PROVE  IInv'
<1> DEFINE f == Idle(Top(w))
           s == Append(residents[w], r)
           n == Len(residents[w])
<1>1. /\ TypeOK /\ Top(w) \in Frame /\ Top(w).job \in Job /\ w \in loaded
      /\ status[r.job] \in {"running"} \cup Terminal
      /\ residents[w] \in Seq([job : Job, waiting : BOOLEAN]) /\ n \in Nat
  BY TopFacts, ResidentFacts DEF Standing
<1>2. f \in Frame /\ f.job = NoJob /\ f.pc = "loop"
  BY <1>1, FrameTypes
<1> HIDE DEF f
<1>3. NewTop(w, f)
  BY <1>1, <1>2, SetTopIs DEF f
<1>4. /\ s \in Seq([job : Job, waiting : BOOLEAN]) /\ Len(s) = n + 1
      /\ \A k \in 1..n : s[k] = residents[w][k]
      /\ s[n + 1] = r
  BY <1>1, AppendProperties
<1>5. residents' = [residents EXCEPT ![w] = s]
  OBVIOUS
<1> HIDE DEF s, n
<1>6. /\ residents' \in [Worker -> Seq([job : Job, waiting : BOOLEAN])]
      /\ residents'[w] = s /\ \A v \in Worker : v # w => residents'[v] = residents[v]
  <2>1. residents \in [Worker -> Seq([job : Job, waiting : BOOLEAN])]
    BY <1>1 DEF TypeOK
  <2> QED
    BY <1>4, <1>5, <2>1
<1>7. TypeOK'
  BY <1>1, <1>3, <1>6 DEF TypeOK, NewTop
<1>8. Backs(w, r, f)
  BY <1>2, <1>3 DEF Backs
<1>9. Placed'
  BY <1>1, <1>2, <1>7, <1>8, BacksKeeps DEF IInv
<1>10. Standings' /\ Threads'
  <2>1. Standing(f, status, published)
    BY <1>2, PoolAssumption DEF Standing
  <2>2. \A k \in 1..Len(residents'[w]) :
           status[residents'[w][k].job] \in {"running"} \cup Terminal
    <3> TAKE k \in 1..Len(residents'[w])
    <3>1. k \in 1..n \/ k = n + 1
      BY <1>1, <1>4, <1>6
    <3>2. CASE k \in 1..n
      <4>1. residents'[w][k] = residents[w][k]
        BY <1>4, <1>6, <3>2
      <4> QED
        BY <3>2, <4>1 DEF IInv, Standings, n
    <3>3. CASE k = n + 1
      BY <1>1, <1>4, <1>6, <3>3
    <3> QED
      BY <3>1, <3>2, <3>3
  <2>3. \A k \in 1..Len(queue') : InQueue(queue'[k])
    BY DEF InQueue
  <2>4. \A k \in Job : k # Top(w).job => prog'[k] = prog[k]
    OBVIOUS
  <2> QED
    BY <1>1, <1>2, <1>3, <1>6, <2>1, <2>2, <2>3, <2>4, TopRest
<1> QED
  BY <1>7, <1>9, <1>10 DEF IInv

(* A job that has used up its budget goes back to the pool.                  *)
LEMMA EndQuantumKeeps ==
    ASSUME IInv, NEW w \in Worker, EndQuantum(w)
    PROVE  IInv'
<1> DEFINE r == [job |-> Top(w).job, waiting |-> FALSE]
<1>1. /\ Top(w).pc = "exec" /\ prog[Top(w).job] # <<>> /\ Consume(Top(w).job)
      /\ SetTop(w, Idle(Top(w))) /\ residents' = [residents EXCEPT ![w] = Append(@, r)]
      /\ UNCHANGED <<rt, status, queue, published, cancelReq, host, ringing, loaded,
                     progress, panics, bumped, signals, client>>
  BY DEF EndQuantum, Quantum, At, jobVars
<1>2. TypeOK /\ Top(w).job \in Job
  BY <1>1, TopFacts
<1>3. r \in [job : Job, waiting : BOOLEAN] /\ r.job = Top(w).job
  BY <1>2
<1>4. prog' \in [Job -> Seq(Op)] /\ \A k \in Job : k # Top(w).job => prog'[k] = prog[k]
  BY <1>1, <1>2, ConsumeIs
<1> HIDE DEF r
<1> QED
  BY <1>1, <1>3, <1>4, BackStep

(* A job that waits for its host goes back to the pool.                      *)
LEMMA ParkKeeps ==
    ASSUME IInv, NEW w \in Worker, Park(w)
    PROVE  IInv'
<1> DEFINE r == [job |-> Top(w).job, waiting |-> TRUE]
<1>1. /\ Top(w).pc = "park"
      /\ SetTop(w, Idle(Top(w))) /\ residents' = [residents EXCEPT ![w] = Append(@, r)]
      /\ UNCHANGED <<rt, status, queue, published, cancelReq, prog, host, ringing, loaded,
                     progress, panics, bumped, signals, client>>
  BY DEF Park, At, jobVars
<1>2. Top(w).job \in Job /\ prog \in [Job -> Seq(Op)]
  BY <1>1, TopFacts
<1>3. r \in [job : Job, waiting : BOOLEAN] /\ r.job = Top(w).job
  BY <1>2
<1> HIDE DEF r
<1> QED
  BY <1>1, <1>2, <1>3, BackStep

-----------------------------------------------------------------------------
(* New jobs.                                                                 *)

LEMMA NewIsNowhere ==
    ASSUME IInv, NEW j \in Job, status[j] = "new"
    PROVE  ~InQueue(j) /\ ~Resident(j) /\ ~InFrame(j)
<1>1. ~InQueue(j)
  BY DEF InQueue, IInv, Standings
<1>2. ~Resident(j)
  BY DEF Resident, IInv, Standings, Terminal
<1>3. ~InFrame(j)
  <2> SUFFICES ASSUME NEW w \in Worker, NEW i \in 1..Len(stack[w]), stack[w][i].job = j
               PROVE  FALSE
    BY DEF InFrame
  <2>1. Standing(stack[w][i], status, published) /\ stack[w][i] \in Frame
    BY StackFacts DEF IInv, Standings
  <2> QED
    BY <2>1, PoolAssumption DEF Standing, Terminal, Frame
<1> QED
  BY <1>1, <1>2, <1>3

(* A new job in the FIFO keeps the invariant.                                *)
LEMMA EnqueueStep ==
    ASSUME IInv, NEW j \in Job, status[j] = "new", ~Closed, Enqueue(j),
           UNCHANGED <<rt, cancelReq, host, ringing, residents, stack, loaded, progress,
                       panics, bumped, client>>,
           prog' \in [Job -> Seq(Op)],
           \A w \in Worker : \A i \in 1..Len(stack[w]) - 1 :
              prog'[stack[w][i].job] = prog[stack[w][i].job]
    PROVE  IInv'
<1>1. TypeOK
  BY DEF IInv
<1>2. /\ status' \in [Job -> Statuses]
      /\ \A k \in Job : status'[k] = IF k = j THEN "queued" ELSE status[k]
      /\ published' = published
      /\ queue' \in Seq(Job) /\ Len(queue) \in Nat /\ Len(queue') = Len(queue) + 1
      /\ \A i \in 1..Len(queue) : queue'[i] = queue[i]
      /\ queue'[Len(queue) + 1] = j
      /\ signals' = [one |-> signals.one + 1, work |-> signals.work, term |-> TRUE]
  BY <1>1, EnqueueIs
<1>3. signals' \in [one : Nat, work : BOOLEAN, term : BOOLEAN]
  BY <1>1, <1>2 DEF TypeOK
<1>4. TypeOK'
  BY <1>1, <1>2, <1>3 DEF TypeOK, Statuses
<1>5. ~InQueue(j) /\ ~Resident(j) /\ ~InFrame(j)
  BY NewIsNowhere
<1>6. Placed'
  BY <1>1, <1>5, EnqueueKeeps DEF IInv
<1>7. Standings'
  <2>1. \A i \in 1..Len(queue') : status'[queue'[i]] = "queued"
    <3> TAKE i \in 1..Len(queue')
    <3>1. i \in 1..Len(queue) \/ i = Len(queue) + 1
      BY <1>2
    <3>2. CASE i \in 1..Len(queue)
      <4>1. queue[i] \in Job /\ queue[i] # j /\ status[queue[i]] = "queued"
        BY <1>1, <1>5, <3>2, QueueFacts DEF InQueue, IInv, Standings
      <4> QED
        BY <1>2, <3>2, <4>1
    <3>3. CASE i = Len(queue) + 1
      BY <1>2, <3>3
    <3> QED
      BY <3>1, <3>2, <3>3
  <2>2. ~Closed'
    BY DEF Closed
  <2>3. \A v \in Worker : \A i \in 1..Len(residents'[v]) :
           status'[residents'[v][i].job] \in {"running"} \cup Terminal
    <3> TAKE v \in Worker
    <3> TAKE i \in 1..Len(residents'[v])
    <3>1. residents[v][i].job \in Job /\ residents[v][i].job # j
      BY <1>1, <1>5, ResidentFacts DEF Resident
    <3> QED
      BY <1>2, <3>1 DEF IInv, Standings
  <2>4. \A v \in Worker : \A i \in 1..Len(stack'[v]) :
           Standing(stack'[v][i], status', published')
    <3> TAKE v \in Worker
    <3> TAKE i \in 1..Len(stack'[v])
    <3>1. stack[v][i].job # j /\ Standing(stack[v][i], status, published)
      BY <1>5 DEF InFrame, IInv, Standings
    <3>2. stack[v][i].job \in Job => status'[stack[v][i].job] = status[stack[v][i].job]
      BY <1>2, <3>1
    <3> QED
      BY <1>2, <3>1, <3>2, StandingKept
  <2> QED
    BY <2>1, <2>2, <2>3, <2>4 DEF Standings
<1>8. Threads'
  <2>1. \A v \in Worker : Top(v)' = Top(v)
    BY DEF Top, Depth
  <2> QED
    BY <2>1 DEF IInv, Threads, At
<1> QED
  BY <1>4, <1>6, <1>7, <1>8 DEF IInv

(* What a job that is about to execute an operation has before it.           *)
LEMMA QuantumFacts ==
    ASSUME IInv, NEW w \in Worker, NEW op, Quantum(w, op)
    PROVE  /\ Top(w).pc = "exec" /\ Top(w).job \in Job /\ w \in loaded
           /\ prog[Top(w).job] # <<>> /\ Head(prog[Top(w).job]) \in Op
           /\ Head(prog[Top(w).job]).op = op
           /\ op = "spawn" => Head(prog[Top(w).job]).job \in Job
           /\ op = "wait" => Head(prog[Top(w).job]).jobs \in SUBSET Job
<1> DEFINE o == Head(prog[Top(w).job])
<1>1. Top(w).pc = "exec" /\ prog[Top(w).job] # <<>> /\ o.op = op
  BY DEF Quantum, At
<1>2. Top(w).job \in Job /\ w \in loaded /\ prog[Top(w).job] \in Seq(Op)
  BY <1>1, TopFacts
<1>3. o \in Op
  BY <1>1, <1>2, HeadTailProperties
<1> HIDE DEF o
<1>4. op = "spawn" => o.job \in Job
  BY <1>1, <1>3 DEF Op
<1>5. op = "wait" => o.jobs \in SUBSET Job
  BY <1>1, <1>3 DEF Op
<1> QED
  BY <1>1, <1>2, <1>3, <1>4, <1>5 DEF o

(* A job that submits another one keeps the invariant.                       *)
LEMMA SpawnKeeps ==
    ASSUME IInv, NEW w \in Worker, Spawn(w)
    PROVE  IInv'
<1> DEFINE j == Top(w).job
           k == Head(prog[j]).job
<1>1. /\ Quantum(w, "spawn") /\ Consume(j)
      /\ UNCHANGED <<rt, cancelReq, host, ringing, residents, stack, loaded,
                     progress, panics, bumped, client>>
      /\ IF Closed \/ status[k] # "new" THEN UNCHANGED <<jobVars, signals>> ELSE Enqueue(k)
  BY DEF Spawn
<1>2. Top(w).pc = "exec" /\ j \in Job /\ prog[j] # <<>> /\ k \in Job /\ TypeOK
  BY <1>1, QuantumFacts, TopFacts
<1>3. CASE Closed \/ status[k] # "new"
  <2>1. UNCHANGED <<status, queue, published, signals>>
    BY <1>1, <1>3 DEF jobVars
  <2>2. host' \in [Job -> {"idle", "pending", "done"}]
    BY <1>1, TopFacts
  <2> QED
    BY <1>1, <1>2, <2>1, <2>2, ExecStep
<1>4. CASE ~Closed /\ status[k] = "new"
  <2>1. Enqueue(k)
    BY <1>1, <1>4
  <2>2. prog' \in [Job -> Seq(Op)] /\ \A m \in Job : m # j => prog'[m] = prog[m]
    BY <1>1, <1>2, ConsumeIs
  <2>3. \A v \in Worker : \A i \in 1..Len(stack[v]) - 1 :
           prog'[stack[v][i].job] = prog[stack[v][i].job]
    <3> TAKE v \in Worker
    <3> TAKE i \in 1..Len(stack[v]) - 1
    <3>1. /\ Len(stack[v]) \in Nat /\ Top(w) = stack[w][Len(stack[w])]
          /\ Len(stack[w]) \in 1..Len(stack[w])
      BY <1>2, StackFacts
    <3>2. i \in 1..Len(stack[v]) /\ ~(v = w /\ i = Len(stack[w]))
      BY <3>1
    <3>3. stack[v][i].job \in Job
      BY <3>2 DEF IInv, Threads, Standings, Standing
    <3>4. stack[v][i].job # j
      BY <1>2, <3>1, <3>2, OnlyHere
    <3> QED
      BY <2>2, <3>3, <3>4
  <2> HIDE DEF k
  <2> QED
    BY <1>1, <1>2, <1>4, <2>1, <2>2, <2>3, EnqueueStep
<1> QED
  BY <1>3, <1>4

(* A submission of the foreground keeps the invariant.                       *)
LEMMA SubmitKeeps ==
    ASSUME IInv, NEW j \in Job, Submit(j)
    PROVE  IInv'
<1>1. prog' \in [Job -> Seq(Op)]
  BY DEF Submit, IInv, TypeOK
<1> QED
  BY <1>1, EnqueueStep DEF Submit

-----------------------------------------------------------------------------
(* Nested frames.                                                            *)

LEMMA WaitKeeps ==
    ASSUME IInv, NEW w \in Worker, Wait(w)
    PROVE  IInv'
<1> DEFINE j == Top(w).job
           n == Len(stack[w])
           o == Head(prog[j])
<1>1. /\ Quantum(w, "wait")
      /\ UNCHANGED <<rt, status, queue, published, cancelReq, host, ringing, residents, loaded,
                     progress, panics, bumped, signals, client>>
  BY DEF Wait, jobVars
<1>2. /\ Top(w).pc = "exec" /\ j \in Job /\ prog[j] # <<>> /\ TypeOK /\ w \in loaded
      /\ Serves(prog[j])
      /\ n \in Nat /\ n \in 1..n /\ Top(w) = stack[w][n]
  BY <1>1, QuantumFacts, TopFacts, StackFacts DEF Serves
<1>3. CASE Closed \/ \E k \in o.jobs : status[k] = "new"
  <2>1. Consume(j) /\ UNCHANGED stack
    BY <1>3 DEF Wait
  <2>2. host' \in [Job -> {"idle", "pending", "done"}]
    BY <1>1, TopFacts
  <2> QED
    BY <1>1, <1>2, <2>1, <2>2, ExecStep
<1>4. CASE ~(Closed \/ \E k \in o.jobs : status[k] = "new")
  <2> DEFINE f == NewFrame
  <2>1. stack' = [stack EXCEPT ![w] = Append(@, f)] /\ UNCHANGED prog
    BY <1>4 DEF Wait
  <2>2. f \in Frame /\ f.job = NoJob /\ f.pc = "loop"
    BY <1>2, FrameTypes
  <2> HIDE DEF f
  <2>3. Pushed(w, f)
    BY <1>2, <2>1, <2>2, PushIs
  <2>4. /\ stack' \in [Worker -> Seq(Frame)]
        /\ \A v \in Worker : stack'[v] # <<>> /\ (v # w => stack'[v] = stack[v])
        /\ Len(stack'[w]) = n + 1
        /\ \A i \in 1..n : stack'[w][i] = stack[w][i]
        /\ stack'[w][n + 1] = f
        /\ \A v \in Worker : Top(v)' = IF v = w THEN f ELSE Top(v)
    BY <2>3 DEF Pushed
  <2> HIDE DEF n
  <2>5. \A v \in Worker : \A i \in 1..Len(stack'[v]) :
            \/ v = w /\ i = n + 1 /\ stack'[v][i] = f
            \/ i \in 1..Len(stack[v]) /\ stack'[v][i] = stack[v][i]
    <3> TAKE v \in Worker
    <3> TAKE i \in 1..Len(stack'[v])
    <3>1. CASE v # w
      BY <2>4, <3>1
    <3>2. CASE v = w
      <4>1. i \in 1..n \/ i = n + 1
        BY <1>2, <2>4, <3>2
      <4> QED
        BY <2>4, <3>2, <4>1 DEF n
    <3> QED
      BY <3>1, <3>2
  <2>6. TypeOK'
    BY <1>1, <1>2, <2>1, <2>4 DEF TypeOK
  <2>7. Shrinks
    <3>1. \A k \in Job : InFrame(k) => InFrame(k)'
      <4> SUFFICES ASSUME NEW v \in Worker, NEW i \in 1..Len(stack[v])
                   PROVE  /\ i \in 1..Len(stack'[v]) /\ stack'[v][i].job = stack[v][i].job
        BY DEF InFrame
      <4>1. CASE v # w
        BY <2>4, <4>1
      <4>2. CASE v = w
        BY <1>2, <2>4, <4>2 DEF n
      <4> QED
        BY <4>1, <4>2
    <3>2. /\ \A k \in Job : InQueue(k) => InQueue(k)'
          /\ \A i \in 1..Len(queue') : InQueue(queue'[i])
          /\ QueueOnce'
      BY <1>1 DEF InQueue, QueueOnce, Placed, IInv
    <3>3. \A k \in Job : Resident(k) => Resident(k)'
      BY <1>1 DEF Resident
    <3>4. \A k \in Job : Live(k)' => Live(k)
      BY <1>1 DEF Live
    <3>5. \A v \in Worker : \A i \in 1..Len(stack'[v]) :
            \/ stack'[v][i].job = NoJob
            \/ i \in 1..Len(stack[v]) /\ stack'[v][i].job = stack[v][i].job
      BY <2>2, <2>5
    <3> QED
      BY <1>1, <3>1, <3>2, <3>3, <3>4, <3>5 DEF Shrinks
  <2>8. Placed'
    BY <1>2, <2>6, <2>7, ShrinksKeeps DEF IInv
  <2>9. Standings'
    <3>1. Standing(f, status, published)
      BY <2>2, PoolAssumption DEF Standing
    <3>2. \A v \in Worker : \A i \in 1..Len(stack'[v]) :
              Standing(stack'[v][i], status', published')
      BY <1>1, <2>5, <3>1 DEF IInv, Standings
    <3> QED
      BY <1>1, <3>2 DEF IInv, Standings, Closed
  <2>10. Threads'
    <3> SUFFICES ASSUME NEW v \in Worker
                 PROVE  /\ \A i \in 1..Len(stack'[v]) - 1 :
                              stack'[v][i].pc = "exec" /\ Serves(prog'[stack'[v][i].job])
                        /\ Top(v)'.pc \in {"load", "exited"} =>
                              Len(stack'[v]) = 1 /\ residents'[v] = <<>>
                        /\ v \notin loaded' =>
                              /\ residents'[v] = <<>> /\ Len(stack'[v]) = 1
                              /\ Top(v)'.pc \in {"loop", "asleep", "load", "exited"}
                        /\ Top(v)'.pc # "exited" => panics'[v] < PanicLimit
      BY DEF Threads, At
    <3>1. /\ \A i \in 1..Len(stack[v]) - 1 :
                stack[v][i].pc = "exec" /\ Serves(prog[stack[v][i].job])
          /\ Top(v).pc \in {"load", "exited"} => Len(stack[v]) = 1 /\ residents[v] = <<>>
          /\ v \notin loaded => /\ residents[v] = <<>> /\ Len(stack[v]) = 1
                                /\ Top(v).pc \in {"loop", "asleep", "load", "exited"}
          /\ Top(v).pc # "exited" => panics[v] < PanicLimit
      BY DEF Threads, At, IInv
    <3>2. CASE v # w
      BY <1>1, <2>1, <2>4, <3>1, <3>2
    <3>3. CASE v = w
      <4>1. \A i \in 1..n : stack[w][i].pc = "exec" /\ Serves(prog[stack[w][i].job])
        <5> TAKE i \in 1..n
        <5>1. i \in 1..n - 1 \/ i = n
          BY <1>2
        <5> QED
          BY <1>2, <3>1, <3>3, <5>1 DEF n
      <4>2. \A i \in 1..Len(stack'[w]) - 1 : i \in 1..n
        BY <1>2, <2>4
      <4> QED
        BY <1>1, <1>2, <2>1, <2>2, <2>4, <3>1, <3>3, <4>1, <4>2
    <3> QED
      BY <3>2, <3>3
  <2> QED
    BY <2>6, <2>8, <2>9, <2>10 DEF IInv
<1> QED
  BY <1>3, <1>4

(* A nested frame goes; the one below keeps its job, or both jobs end.       *)
LEMMA PopStep ==
    ASSUME IInv, TypeOK', NEW w \in Worker, NEW f \in Frame, NEW p \in Job, NEW q,
           Popped(w, f), p = stack[w][Len(stack[w]) - 1].job, q = Top(w).job,
           Standing(f, status', published'), f.pc \notin {"load", "exited"},
           UNCHANGED <<rt, residents, loaded, panics, published>>,
           q \in Job => status'[q] \in Terminal,
           \/ f.job = p /\ status'[p] = status[p]
           \/ f.job = NoJob /\ status'[p] \in Terminal,
           \A k \in Job : k # p => prog'[k] = prog[k],
           \A k \in Job : k # p /\ k # q => status'[k] = status[k],
           \A i \in 1..Len(queue') : InQueue(queue'[i]),
           QueueOnce',
           \A k \in Job : k # p /\ k # q /\ InQueue(k) => InQueue(k)'
    PROVE  IInv'
<1> DEFINE n == Len(stack[w])
<1>1. /\ n \in Nat /\ n >= 2 /\ n \in 1..n /\ n - 1 \in 1..n /\ Top(w) = stack[w][n]
      /\ NoJob \notin Job /\ TypeOK
      /\ \A v \in Worker : Len(stack[v]) \in Nat
  BY StackFacts, PoolAssumption DEF Popped, IInv
<1>2. /\ Len(stack'[w]) = n - 1
      /\ \A v \in Worker : v # w => stack'[v] = stack[v]
      /\ \A i \in 1..n - 1 : stack'[w][i] = IF i = n - 1 THEN f ELSE stack[w][i]
      /\ \A v \in Worker : Top(v)' = IF v = w THEN f ELSE Top(v)
  BY DEF Popped
<1>3. /\ \A v \in Worker : \A k \in 1..Len(stack[v]) :
             ~(v = w /\ k = n - 1) => stack[v][k].job # p
      /\ \A v \in Worker : \A k \in 1..Len(residents[v]) : residents[v][k].job # p
      /\ \A k \in 1..Len(queue) : queue[k] # p
  BY <1>1, OnlyHere
<1>4. q \in Job =>
         /\ \A v \in Worker : \A k \in 1..Len(stack[v]) :
               ~(v = w /\ k = n) => stack[v][k].job # q
         /\ \A v \in Worker : \A k \in 1..Len(residents[v]) : residents[v][k].job # q
         /\ \A k \in 1..Len(queue) : queue[k] # q
  BY <1>1, OnlyHere
<1>5. p = stack[w][n - 1].job /\ q = stack[w][n].job
  BY <1>1
<1> HIDE DEF n
<1>6. \A v \in Worker : \A i \in 1..Len(stack'[v]) :
         \/ v = w /\ i = n - 1 /\ stack'[v][i] = f
         \/ /\ i \in 1..Len(stack[v]) /\ stack'[v][i] = stack[v][i]
            /\ stack[v][i].job # p
            /\ q \in Job => stack[v][i].job # q
  <2> TAKE v \in Worker
  <2> TAKE i \in 1..Len(stack'[v])
  <2>1. CASE v # w
    BY <1>2, <1>3, <1>4, <2>1
  <2>2. CASE v = w
    <3>1. i \in 1..n - 1 /\ i # n /\ i \in 1..n
      BY <1>1, <1>2, <2>2
    <3>2. i # n - 1 => stack[w][i].job # p
      BY <1>3, <3>1 DEF n
    <3>3. q \in Job => stack[w][i].job # q
      BY <1>4, <3>1 DEF n
    <3> QED
      BY <1>2, <2>2, <3>1, <3>2, <3>3 DEF n
  <2> QED
    BY <2>1, <2>2
<1>7. Placed'
  <2>1. ASSUME NEW k \in Job, Live(k)'
        PROVE  /\ Live(k)
               /\ InQueue(k) => InQueue(k)'
               /\ Resident(k) => Resident(k)'
               /\ InFrame(k) => InFrame(k)'
    <3>1. status'[k] \notin Terminal
      BY <2>1 DEF Live, Terminal
    <3>2. k # q /\ (k = p => f.job = p)
      BY <3>1
    <3>3. Live(k)
      BY <2>1, <3>1, <3>2 DEF Live
    <3>4. InQueue(k) => InQueue(k)'
      BY <1>3, <3>2 DEF InQueue
    <3>5. Resident(k) => Resident(k)'
      BY DEF Resident
    <3>6. ASSUME InFrame(k)
          PROVE  InFrame(k)'
      <4>1. PICK v \in Worker : \E i \in 1..Len(stack[v]) : stack[v][i].job = k
        BY <3>6 DEF InFrame
      <4>2. PICK i \in 1..Len(stack[v]) : stack[v][i].job = k
        BY <4>1
      <4>3. CASE v # w
        <5>1. i \in 1..Len(stack'[v]) /\ stack'[v][i].job = k
          BY <1>2, <4>2, <4>3
        <5> QED
          BY <5>1 DEF InFrame
      <4>4. CASE v = w
        <5>1. i # n
          BY <1>5, <3>2, <4>2, <4>4
        <5>2. i \in 1..n - 1 /\ i \in 1..Len(stack'[w])
          BY <1>1, <1>2, <4>2, <4>4, <5>1 DEF n
        <5>3. stack'[w][i].job = k
          BY <1>2, <1>5, <3>2, <4>2, <4>4, <5>2
        <5> QED
          BY <5>2, <5>3 DEF InFrame
      <4> QED
        BY <4>3, <4>4
    <3> QED
      BY <3>3, <3>4, <3>5, <3>6
  <2>2. \A v \in Worker : \A i \in 1..Len(stack'[v]) :
            \/ stack'[v][i].job = NoJob
            \/ i \in 1..Len(stack[v]) /\ stack'[v][i].job = stack[v][i].job
    <3> TAKE v \in Worker
    <3> TAKE i \in 1..Len(stack'[v])
    <3>1. CASE v = w /\ i = n - 1 /\ stack'[v][i] = f
      <4>1. n - 1 \in 1..Len(stack[w])
        BY <1>1 DEF n
      <4> QED
        BY <1>5, <3>1, <4>1
    <3> QED
      BY <1>6, <3>1
  <2>3. Shrinks
    BY <2>1, <2>2 DEF Shrinks
  <2> QED
    BY <1>1, <2>3, ShrinksKeeps DEF IInv
<1>8. Standings'
  <2>1. \A i \in 1..Len(queue') : status'[queue'[i]] = "queued"
    <3> TAKE i \in 1..Len(queue')
    <3>1. /\ queue'[i] \in Job /\ status[queue'[i]] = "queued"
          /\ queue'[i] # p /\ queue'[i] # q
      BY <1>1, <1>3, <1>4, QueueFacts DEF InQueue, IInv, Standings
    <3> QED
      BY <3>1
  <2>2. Closed' => \A k \in Job : status'[k] # "queued"
    BY DEF IInv, Standings, Closed, Terminal
  <2>3. \A v \in Worker : \A i \in 1..Len(residents'[v]) :
           status'[residents'[v][i].job] \in {"running"} \cup Terminal
    <3> TAKE v \in Worker
    <3> TAKE i \in 1..Len(residents'[v])
    <3>1. residents[v][i].job \in Job /\ residents[v][i].job # p /\ residents[v][i].job # q
      BY <1>1, <1>3, <1>4, ResidentFacts
    <3> QED
      BY <3>1 DEF IInv, Standings
  <2>4. \A v \in Worker : \A i \in 1..Len(stack'[v]) :
           Standing(stack'[v][i], status', published')
    <3> TAKE v \in Worker
    <3> TAKE i \in 1..Len(stack'[v])
    <3>1. CASE stack'[v][i] = f
      BY <3>1
    <3>2. CASE /\ i \in 1..Len(stack[v]) /\ stack'[v][i] = stack[v][i]
               /\ stack[v][i].job # p
               /\ q \in Job => stack[v][i].job # q
      <4>1. Standing(stack[v][i], status, published)
        BY <3>2 DEF IInv, Standings
      <4>2. stack[v][i].job \in Job => status'[stack[v][i].job] = status[stack[v][i].job]
        BY <3>2
      <4> QED
        BY <3>2, <4>1, <4>2, StandingKept
    <3> QED
      BY <1>6, <3>1, <3>2
  <2> QED
    BY <2>1, <2>2, <2>3, <2>4 DEF Standings
<1>9. Threads'
  <2> SUFFICES ASSUME NEW v \in Worker
               PROVE  /\ \A i \in 1..Len(stack'[v]) - 1 :
                            stack'[v][i].pc = "exec" /\ Serves(prog'[stack'[v][i].job])
                      /\ Top(v)'.pc \in {"load", "exited"} =>
                            Len(stack'[v]) = 1 /\ residents'[v] = <<>>
                      /\ v \notin loaded' =>
                            /\ residents'[v] = <<>> /\ Len(stack'[v]) = 1
                            /\ Top(v)'.pc \in {"loop", "asleep", "load", "exited"}
                      /\ Top(v)'.pc # "exited" => panics'[v] < PanicLimit
    BY DEF Threads, At
  <2>1. /\ \A i \in 1..Len(stack[v]) - 1 :
              stack[v][i].pc = "exec" /\ Serves(prog[stack[v][i].job])
        /\ Top(v).pc \in {"load", "exited"} => Len(stack[v]) = 1 /\ residents[v] = <<>>
        /\ v \notin loaded => /\ residents[v] = <<>> /\ Len(stack[v]) = 1
                              /\ Top(v).pc \in {"loop", "asleep", "load", "exited"}
        /\ Top(v).pc # "exited" => panics[v] < PanicLimit
    BY DEF Threads, At, IInv
  <2>2. ASSUME NEW i \in 1..Len(stack'[v]) - 1
        PROVE  stack'[v][i].pc = "exec" /\ Serves(prog'[stack'[v][i].job])
    <3>1. i \in 1..Len(stack[v]) - 1 /\ i \in 1..Len(stack'[v]) /\ ~(v = w /\ i = n - 1)
      <4>1. CASE v # w
        BY <1>1, <1>2, <4>1
      <4>2. CASE v = w
        BY <1>1, <1>2, <4>2 DEF n
      <4> QED
        BY <4>1, <4>2
    <3>2. stack'[v][i] = stack[v][i] /\ stack[v][i].pc = "exec" /\ stack[v][i].job # p
      BY <1>6, <2>1, <3>1
    <3>3. stack[v][i].job \in Job
      <4>1. i \in 1..Len(stack[v])
        BY <1>1, <3>1
      <4> QED
        BY <3>2, <4>1 DEF IInv, Standings, Standing
    <3> QED
      BY <2>1, <3>1, <3>2, <3>3
  <2>3. CASE v # w
    BY <1>2, <2>1, <2>2, <2>3
  <2>4. CASE v = w
    <3>1. w \in loaded /\ Top(w).pc # "exited"
      BY <1>1, <2>1, <2>4 DEF n
    <3> QED
      BY <1>2, <2>1, <2>2, <2>4, <3>1
  <2> QED
    BY <2>3, <2>4
<1> QED
  BY <1>7, <1>8, <1>9 DEF IInv

(* The frame below a nested one executes a wait of its job.                  *)
LEMMA ParentFacts ==
    ASSUME IInv, NEW w \in Worker, Helping(w)
    PROVE  /\ Len(stack[w]) \in Nat /\ Len(stack[w]) >= 2 /\ Depth(w) = Len(stack[w])
           /\ Len(stack[w]) - 1 \in 1..Len(stack[w])
           /\ stack[w][Len(stack[w]) - 1] \in Frame
           /\ stack[w][Len(stack[w]) - 1].pc = "exec"
           /\ Standing(stack[w][Len(stack[w]) - 1], status, published)
           /\ Parent(w) = stack[w][Len(stack[w]) - 1].job
           /\ Parent(w) \in Job /\ Parent(w) # Top(w).job /\ prog[Parent(w)] # <<>>
           /\ status[Parent(w)] \in {"running"} \cup Terminal
           /\ Awaited(w).op = "wait" /\ Awaited(w).jobs \in SUBSET Job
<1> DEFINE n == Len(stack[w])
           f == stack[w][n - 1]
<1>1. n \in Nat /\ n >= 2 /\ Depth(w) = n /\ Top(w) = stack[w][n]
  BY StackFacts DEF IInv, Helping
<1> HIDE DEF n
<1>2. n - 1 \in 1..n /\ n \in 1..n /\ n - 1 \in 1..n - 1 /\ n - 1 # n
  BY <1>1
<1>3. /\ f \in Frame /\ f.pc = "exec" /\ Standing(f, status, published)
      /\ Serves(prog[f.job]) /\ Parent(w) = f.job
  BY <1>1, <1>2, StackFacts DEF n, Parent, IInv, Threads, Standings
<1>4. f.job \in Job /\ status[f.job] \in {"running"} \cup Terminal
  BY <1>3 DEF Standing
<1>5. f.job # Top(w).job
  BY <1>1, <1>2, <1>4 DEF IInv, Placed, FrameOnce, n
<1>6. /\ prog[f.job] # <<>> /\ Head(prog[f.job]).op = "wait"
      /\ prog[f.job] \in Seq(Op)
  BY <1>3, <1>4 DEF Serves, IInv, TypeOK
<1>7. Head(prog[f.job]) \in Op
  BY <1>6, HeadTailProperties
<1>8. Head(prog[f.job]).jobs \in SUBSET Job
  BY <1>6, <1>7 DEF Op
<1>9. Awaited(w) = Head(prog[f.job])
  BY <1>3 DEF Awaited
<1> HIDE DEF f
<1>10. f = stack[w][Len(stack[w]) - 1]
  BY DEF f, n
<1> QED
  BY <1>1, <1>2, <1>3, <1>4, <1>5, <1>6, <1>8, <1>9, <1>10 DEF n

(* A nested frame returns to the one below it, unchanged or sent to the check *)
(* of the cancel flag.                                                        *)
LEMMA ReturnIs ==
    ASSUME IInv, NEW w \in Worker, Return(w)
    PROVE  \E f \in Frame :
              /\ Popped(w, f) /\ f.job = Parent(w) /\ f.pc \in {"poll", "exec"}
              /\ f.stale = stack[w][Len(stack[w]) - 1].stale
<1> DEFINE n == Len(stack[w])
           g == stack[w][n - 1]
           p == Parent(w)
           q == Top(w).job
           below == Front(stack[w])
           f == IF p \in cancelReq THEN [g EXCEPT !.pc = "poll"] ELSE g
<1>1. /\ Helping(w) /\ Top(w).pc \in {"loop", "asleep"} /\ Consume(p)
      /\ stack' = [stack EXCEPT ![w] = IF p \in cancelReq
                                       THEN [below EXCEPT ![Len(below)].pc = "poll"]
                                       ELSE below]
      /\ UNCHANGED <<rt, status, queue, published, cancelReq, host, ringing, residents, loaded,
                     progress, panics, bumped, signals, client>>
  BY DEF Return, At, jobVars
<1>2. /\ n \in Nat /\ n >= 2 /\ Depth(w) = n /\ g \in Frame /\ g.pc = "exec"
      /\ Standing(g, status, published) /\ p = g.job /\ p \in Job /\ prog[p] # <<>>
      /\ status[p] \in {"running"} \cup Terminal
  BY <1>1, ParentFacts
<1>3. TypeOK /\ q = NoJob /\ NoJob \notin Job /\ stack[w] \in Seq(Frame)
  BY <1>1, TopFacts, StackFacts, PoolAssumption DEF Standing
<1>4. f \in Frame /\ f.job = p /\ f.pc \in {"poll", "exec"} /\ f.stale = g.stale
  BY <1>2 DEF Frame
<1>5. /\ below \in Seq(Frame) /\ Len(below) = n - 1
      /\ \A i \in 1..n - 1 : below[i] = stack[w][i]
  BY <1>2, <1>3, FrontIs
<1>6. stack' = [stack EXCEPT ![w] = [below EXCEPT ![n - 1] = f]]
  <2>1. n - 1 \in 1..n - 1
    BY <1>2
  <2>2. below[n - 1] = g
    BY <1>5, <2>1
  <2> HIDE DEF n, below, g
  <2>3. CASE p \in cancelReq
    <3>1. f = [g EXCEPT !.pc = "poll"]
      BY <2>3
    <3>2. [below EXCEPT ![n - 1].pc = "poll"] = [below EXCEPT ![n - 1] = f]
      BY <2>2, <3>1
    <3> QED
      BY <1>1, <1>5, <2>3, <3>2
  <2>4. CASE p \notin cancelReq
    <3> DEFINE s == [below EXCEPT ![n - 1] = below[n - 1]]
    <3>1. /\ s \in Seq(Frame) /\ Len(s) = n - 1
          /\ \A i \in 1..n - 1 : s[i] = below[i]
      BY <1>2, <1>4, <1>5, <2>1, <2>2, <2>4
    <3>2. f = below[n - 1]
      BY <2>2, <2>4
    <3>3. [below EXCEPT ![n - 1] = f] = s
      BY <3>2
    <3> HIDE DEF s, f
    <3>4. s = below
      BY <1>5, <3>1, SeqEqual
    <3> QED
      BY <1>1, <2>4, <3>3, <3>4
  <2> QED
    BY <2>3, <2>4
<1> HIDE DEF f
<1>7. Popped(w, f)
  BY <1>1, <1>2, <1>3, <1>4, <1>6, PopIs
<1> QED
  BY <1>4, <1>7

(* The return of a nested frame keeps the invariant.                         *)
LEMMA ReturnKeeps ==
    ASSUME IInv, NEW w \in Worker, Return(w)
    PROVE  IInv'
<1> DEFINE p == Parent(w)
           q == Top(w).job
<1>1. /\ Helping(w) /\ Top(w).pc \in {"loop", "asleep"} /\ Consume(p)
      /\ UNCHANGED <<rt, status, queue, published, cancelReq, host, ringing, residents, loaded,
                     progress, panics, bumped, signals, client>>
  BY DEF Return, At, jobVars
<1>2. /\ p \in Job /\ prog[p] # <<>> /\ p = stack[w][Len(stack[w]) - 1].job
      /\ status[p] \in {"running"} \cup Terminal
  BY <1>1, ParentFacts
<1>3. TypeOK /\ q = NoJob /\ NoJob \notin Job
  BY <1>1, TopFacts, PoolAssumption DEF Standing
<1>4. PICK f \in Frame : Popped(w, f) /\ f.job = p /\ f.pc \in {"poll", "exec"}
  BY ReturnIs
<1>8. prog' \in [Job -> Seq(Op)] /\ \A k \in Job : k # p => prog'[k] = prog[k]
  BY <1>1, <1>2, <1>3, ConsumeIs
<1>9. TypeOK'
  BY <1>1, <1>3, <1>4, <1>8 DEF TypeOK, Popped
<1>10. Standing(f, status', published')
  BY <1>1, <1>2, <1>4 DEF Standing
<1>11. /\ QueueOnce' /\ \A i \in 1..Len(queue') : InQueue(queue'[i])
       /\ \A k \in Job : InQueue(k) => InQueue(k)'
  BY <1>1 DEF IInv, Placed, QueueOnce, InQueue
<1> HIDE DEF q, p
<1>12. p = stack[w][Len(stack[w]) - 1].job /\ q = Top(w).job
  BY <1>2 DEF p, q
<1> QED
  BY <1>1, <1>2, <1>3, <1>4, <1>8, <1>9, <1>10, <1>11, <1>12, PopStep

(* A panic in a nested frame leaves the frame below idle.                    *)
LEMMA NestedPanicIs ==
    ASSUME IInv, NEW w \in Worker, Panic(w), Helping(w)
    PROVE  \E f \in Frame :
              /\ Popped(w, f) /\ f.job = NoJob /\ f.pc = "loop"
              /\ f.stale = stack[w][Len(stack[w]) - 1].stale
<1> DEFINE n == Len(stack[w])
           g == stack[w][n - 1]
           p == Parent(w)
           q == Top(w).job
           below == Front(stack[w])
           f == Idle(g)
<1>1. /\ Top(w).pc \in {"load", "prepare"}
      /\ End({q, p}, "aborted") /\ Notify({"term"})
      /\ stack' = [stack EXCEPT ![w] = [below EXCEPT ![Len(below)] = Idle(Last(below))]]
      /\ progress' = IF Depth(w) = 2 THEN progress \cup {w} ELSE progress
      /\ UNCHANGED <<rt, residents, loaded, panics, cancelReq, prog, host, ringing, bumped,
                     client>>
  BY DEF Panic
<1>2. /\ n \in Nat /\ n >= 2 /\ Depth(w) = n /\ g \in Frame /\ g.pc = "exec"
      /\ p = g.job /\ p \in Job /\ p # q
      /\ status[p] \in {"running"} \cup Terminal
  BY ParentFacts
<1>3. /\ TypeOK /\ q \in Job /\ stack[w] \in Seq(Frame)
      /\ status[q] \in {"queued", "running"} \cup Terminal
  BY <1>1, TopFacts, StackFacts DEF Standing
<1>4. f \in Frame /\ f.job = NoJob /\ f.pc = "loop" /\ f.stale = g.stale
  BY <1>2, <1>3, FrameTypes
<1>5. stack' = [stack EXCEPT ![w] = [Front(stack[w]) EXCEPT ![Depth(w) - 1] = f]]
  <2>1. below \in Seq(Frame) /\ Len(below) = n - 1 /\ \A i \in 1..n - 1 : below[i] = stack[w][i]
    <3>1. Len(stack[w]) >= 1
      BY <1>2
    <3> QED
      BY <1>3, <3>1, FrontIs
  <2>2. n - 1 \in 1..n - 1
    BY <1>2
  <2>3. Last(below) = g
    BY <2>1, <2>2 DEF Last
  <2> HIDE DEF n, g, below
  <2>4. stack' = [stack EXCEPT ![w] = [below EXCEPT ![Depth(w) - 1] = f]]
    BY <1>1, <1>2, <2>1, <2>3
  <2> QED
    BY <2>4 DEF below
<1> HIDE DEF f
<1>6. Popped(w, f)
  BY <1>3, <1>4, <1>5, PopIs
<1> QED
  BY <1>4, <1>6

(* A panic in a nested frame ends its job and the job that waits.            *)
LEMMA NestedPanicKeeps ==
    ASSUME IInv, NEW w \in Worker, Panic(w), Helping(w)
    PROVE  IInv'
<1> DEFINE p == Parent(w)
           q == Top(w).job
<1>1. /\ Top(w).pc \in {"load", "prepare"}
      /\ End({q, p}, "aborted") /\ Notify({"term"})
      /\ progress' = IF Depth(w) = 2 THEN progress \cup {w} ELSE progress
      /\ UNCHANGED <<rt, residents, loaded, panics, cancelReq, prog, host, ringing, bumped,
                     client>>
  BY DEF Panic
<1>2. /\ p \in Job /\ p # q /\ p = stack[w][Len(stack[w]) - 1].job
      /\ status[p] \in {"running"} \cup Terminal
  BY ParentFacts
<1>3. /\ TypeOK /\ q \in Job
      /\ status[q] \in {"queued", "running"} \cup Terminal
  BY <1>1, TopFacts DEF Standing
<1>4. PICK f \in Frame : Popped(w, f) /\ f.job = NoJob /\ f.pc = "loop"
  BY NestedPanicIs
<1>7. /\ status' \in [Job -> Statuses]
      /\ \A k \in Job : status'[k] = IF k \in {q, p} /\ Live(k) THEN "aborted" ELSE status[k]
      /\ published' = published /\ queue' \in Seq(Job)
      /\ \A i \in 1..Len(queue') : queue'[i] \notin {q, p} /\ InQueue(queue'[i])
      /\ QueueOnce => QueueOnce'
      /\ \A k \in Job : k \notin {q, p} /\ InQueue(k) => InQueue(k)'
  BY <1>1, <1>3, EndIs DEF Terminal
<1>8. status'[p] \in Terminal /\ status'[q] \in Terminal
  BY <1>2, <1>3, <1>7 DEF Live, Terminal
<1>9. signals' \in [one : Nat, work : BOOLEAN, term : BOOLEAN]
  BY <1>1, <1>3, NotifyIs
<1>10. TypeOK'
  BY <1>1, <1>3, <1>4, <1>7, <1>9 DEF TypeOK, Popped, Statuses
<1>11. Standing(f, status', published')
  BY <1>4, PoolAssumption DEF Standing
<1>12. QueueOnce'
  BY <1>7 DEF IInv, Placed
<1> HIDE DEF q, p
<1>13. p = stack[w][Len(stack[w]) - 1].job /\ q = Top(w).job
  BY <1>2 DEF p, q
<1>14. \A k \in Job : k # p /\ k # q => status'[k] = status[k]
  BY <1>7
<1> QED
  BY <1>1, <1>2, <1>3, <1>4, <1>7, <1>8, <1>10, <1>11, <1>12, <1>13, <1>14, PopStep

-----------------------------------------------------------------------------
(* Jobs that end from outside, and threads that give up.                     *)

(* The thread v drops its residents and its job, which have ended.           *)
Dropped(v) ==
    /\ Len(stack[v]) = 1 /\ Len(stack'[v]) = 1 /\ residents'[v] = <<>>
    /\ stack'[v][1].pc \in {"loop", "exited"}
    /\ stack'[v][1].job \in {NoJob, stack[v][1].job}
    /\ stack'[v][1].pc = "loop" => stack'[v][1].job = NoJob /\ panics'[v] < PanicLimit
    /\ stack[v][1].job \in Job => status'[stack[v][1].job] \in Terminal
    /\ \A i \in 1..Len(residents[v]) : status'[residents[v][i].job] \in Terminal

Untouched(v) ==
    /\ stack'[v] = stack[v] /\ residents'[v] = residents[v] /\ panics'[v] = panics[v]
    /\ v \in loaded => v \in loaded'

(* Jobs that end wherever they are, and threads that drop theirs, keep the   *)
(* invariant.                                                                *)
LEMMA EndKeeps ==
    ASSUME IInv, TypeOK', NEW S \in SUBSET Job, NEW st \in Terminal, End(S, st),
           \A j \in S : status[j] # "committing",
           \A v \in Worker : Dropped(v) \/ Untouched(v),
           UNCHANGED prog,
           Closed' => Closed \/ \A j \in Job : status[j] = "queued" => j \in S
    PROVE  IInv'
<1>1. /\ TypeOK /\ NoJob \notin Job
      /\ \A v \in Worker : Len(stack[v]) \in Nat /\ Len(stack[v]) >= 1
  BY StackFacts, PoolAssumption DEF IInv
<1>2. /\ \A j \in Job : status'[j] = IF j \in S /\ Live(j) THEN st ELSE status[j]
      /\ \A j \in Job : Live(j)' => Live(j) /\ j \notin S /\ status'[j] = status[j]
      /\ published' = published
      /\ \A i \in 1..Len(queue') : queue'[i] \notin S /\ InQueue(queue'[i])
      /\ QueueOnce => QueueOnce'
      /\ \A j \in Job : j \notin S /\ InQueue(j) => InQueue(j)'
  BY <1>1, EndIs
<1>3. \A v \in Worker : \A i \in 1..Len(stack'[v]) :
         /\ i \in 1..Len(stack[v])
         /\ \/ stack'[v][i] = stack[v][i]
            \/ /\ stack'[v][i].pc \in {"loop", "exited"}
               /\ stack'[v][i].job \in {NoJob, stack[v][i].job}
               /\ stack'[v][i].pc = "loop" => stack'[v][i].job = NoJob
               /\ stack[v][i].job \in Job => status'[stack[v][i].job] \in Terminal
  <2> TAKE v \in Worker
  <2> TAKE i \in 1..Len(stack'[v])
  <2>1. CASE Untouched(v)
    BY <2>1 DEF Untouched
  <2>2. CASE Dropped(v)
    <3>1. i = 1
      BY <2>2 DEF Dropped
    <3> QED
      BY <2>2, <3>1 DEF Dropped
  <2> QED
    BY <2>1, <2>2
<1>4. Placed'
  <2>1. ASSUME NEW k \in Job, Live(k)'
        PROVE  /\ Live(k)
               /\ InQueue(k) => InQueue(k)'
               /\ Resident(k) => Resident(k)'
               /\ InFrame(k) => InFrame(k)'
    <3>1. Live(k) /\ k \notin S /\ status'[k] \notin Terminal
      BY <1>2, <2>1 DEF Live, Terminal
    <3>2. ASSUME Resident(k)
          PROVE  Resident(k)'
      <4>1. PICK v \in Worker : \E i \in 1..Len(residents[v]) : residents[v][i].job = k
        BY <3>2 DEF Resident
      <4>2. PICK i \in 1..Len(residents[v]) : residents[v][i].job = k
        BY <4>1
      <4>3. Untouched(v)
        BY <3>1, <4>2 DEF Dropped
      <4> QED
        BY <4>2, <4>3 DEF Resident, Untouched
    <3>3. ASSUME InFrame(k)
          PROVE  InFrame(k)'
      <4>1. PICK v \in Worker : \E i \in 1..Len(stack[v]) : stack[v][i].job = k
        BY <3>3 DEF InFrame
      <4>2. PICK i \in 1..Len(stack[v]) : stack[v][i].job = k
        BY <4>1
      <4>3. Untouched(v)
        <5>1. ASSUME Dropped(v)
              PROVE  FALSE
          <6>1. i = 1 /\ stack[v][1].job = k
            BY <4>2, <5>1 DEF Dropped
          <6> QED
            BY <3>1, <5>1, <6>1 DEF Dropped
        <5> QED
          BY <5>1
      <4> QED
        BY <4>2, <4>3 DEF InFrame, Untouched
    <3> QED
      BY <1>2, <3>1, <3>2, <3>3
  <2>2. \A v \in Worker : \A i \in 1..Len(stack'[v]) :
            \/ stack'[v][i].job = NoJob
            \/ i \in 1..Len(stack[v]) /\ stack'[v][i].job = stack[v][i].job
    BY <1>3
  <2>3. \A v \in Worker : residents'[v] = residents[v] \/ residents'[v] = <<>>
    BY DEF Dropped, Untouched
  <2>4. QueueOnce'
    BY <1>2 DEF IInv, Placed
  <2>5. Shrinks
    BY <1>2, <2>1, <2>2, <2>3, <2>4 DEF Shrinks
  <2> QED
    BY <1>1, <2>5, ShrinksKeeps DEF IInv
<1>5. \A j \in Job : \/ status'[j] = status[j]
                     \/ status'[j] \in Terminal /\ status[j] # "committing"
  BY <1>2
<1>6. Standings'
  <2>1. \A i \in 1..Len(queue') : status'[queue'[i]] = "queued"
    <3> TAKE i \in 1..Len(queue')
    <3>1. queue'[i] \in Job /\ status[queue'[i]] = "queued" /\ queue'[i] \notin S
      BY <1>1, <1>2, QueueFacts DEF InQueue, IInv, Standings
    <3> QED
      BY <1>2, <3>1
  <2>2. Closed' => \A k \in Job : status'[k] # "queued"
    <3> SUFFICES ASSUME Closed', NEW k \in Job, status'[k] = "queued"
                 PROVE  FALSE
      OBVIOUS
    <3>1. status[k] = "queued" /\ k \notin S
      BY <1>2 DEF Live, Terminal
    <3> QED
      BY <3>1 DEF IInv, Standings
  <2>3. \A v \in Worker : \A i \in 1..Len(residents'[v]) :
           status'[residents'[v][i].job] \in {"running"} \cup Terminal
    <3> TAKE v \in Worker
    <3> TAKE i \in 1..Len(residents'[v])
    <3>1. residents'[v] = residents[v]
      <4>1. Len(<<>>) = 0
        OBVIOUS
      <4> QED
        BY <4>1 DEF Dropped, Untouched
    <3>2. residents[v][i].job \in Job /\ status[residents[v][i].job] \in {"running"} \cup Terminal
      BY <1>1, <3>1, ResidentFacts DEF IInv, Standings
    <3> QED
      BY <1>5, <3>1, <3>2
  <2>4. \A v \in Worker : \A i \in 1..Len(stack'[v]) :
           Standing(stack'[v][i], status', published')
    <3> TAKE v \in Worker
    <3> TAKE i \in 1..Len(stack'[v])
    <3>1. Standing(stack[v][i], status, published)
      BY <1>3 DEF IInv, Standings
    <3>2. CASE stack'[v][i] = stack[v][i]
      BY <1>2, <1>5, <3>1, <3>2, StandingKept
    <3>3. CASE stack'[v][i] # stack[v][i]
      <4>1. /\ stack'[v][i].pc \in {"loop", "exited"}
            /\ stack'[v][i].pc = "loop" => stack'[v][i].job = NoJob
            /\ stack'[v][i].job \in Job => status'[stack'[v][i].job] \in Terminal
        BY <1>1, <1>3, <3>3
      <4> QED
        BY <1>1, <4>1 DEF Standing
    <3> QED
      BY <3>2, <3>3
  <2> QED
    BY <2>1, <2>2, <2>3, <2>4 DEF Standings
<1>7. Threads'
  <2> SUFFICES ASSUME NEW v \in Worker
               PROVE  /\ \A i \in 1..Len(stack'[v]) - 1 :
                            stack'[v][i].pc = "exec" /\ Serves(prog'[stack'[v][i].job])
                      /\ Top(v)'.pc \in {"load", "exited"} =>
                            Len(stack'[v]) = 1 /\ residents'[v] = <<>>
                      /\ v \notin loaded' =>
                            /\ residents'[v] = <<>> /\ Len(stack'[v]) = 1
                            /\ Top(v)'.pc \in {"loop", "asleep", "load", "exited"}
                      /\ Top(v)'.pc # "exited" => panics'[v] < PanicLimit
    BY DEF Threads, At
  <2>1. /\ \A i \in 1..Len(stack[v]) - 1 :
              stack[v][i].pc = "exec" /\ Serves(prog[stack[v][i].job])
        /\ Top(v).pc \in {"load", "exited"} => Len(stack[v]) = 1 /\ residents[v] = <<>>
        /\ v \notin loaded => /\ residents[v] = <<>> /\ Len(stack[v]) = 1
                              /\ Top(v).pc \in {"loop", "asleep", "load", "exited"}
        /\ Top(v).pc # "exited" => panics[v] < PanicLimit
    BY DEF Threads, At, IInv
  <2>2. CASE Untouched(v)
    <3>1. Top(v)' = Top(v)
      BY <2>2 DEF Untouched, Top, Depth
    <3> QED
      BY <2>1, <2>2, <3>1 DEF Untouched
  <2>3. CASE Dropped(v)
    <3>1. Top(v)' = stack'[v][1]
      BY <2>3 DEF Dropped, Top, Depth
    <3>2. 1..Len(stack'[v]) - 1 = {}
      BY <2>3 DEF Dropped
    <3> QED
      BY <2>3, <3>1, <3>2 DEF Dropped
  <2> QED
    BY <2>2, <2>3
<1> QED
  BY <1>4, <1>6, <1>7 DEF IInv

(* A thread that does not help has one frame.                                *)
LEMMA LoneFrame ==
    ASSUME TypeOK, NEW w \in Worker, ~Helping(w)
    PROVE  Len(stack[w]) = 1 /\ Top(w) = stack[w][1]
<1> DEFINE n == Len(stack[w])
<1>1. n \in Nat /\ n >= 1 /\ ~(n > 1) /\ Top(w) = stack[w][n]
  BY StackFacts DEF Helping
<1> HIDE DEF n
<1>2. n = 1
  BY <1>1
<1> QED
  BY <1>1, <1>2 DEF n

(* The exit of a worker keeps the invariant.                                 *)
LEMMA ExitKeeps ==
    ASSUME IInv, NEW w \in Worker, Exit(w)
    PROVE  IInv'
<1> DEFINE S == JobsOf(w)
<1>1. /\ ~Helping(w) /\ Top(w).pc = "loop" /\ Closed
      /\ End(S, "canceled") /\ residents' = [residents EXCEPT ![w] = <<>>]
      /\ Goto(w, "exited") /\ Notify({"term"})
      /\ UNCHANGED <<rt, cancelReq, prog, host, ringing, loaded, progress, panics,
                     bumped, client>>
  BY DEF Exit, At
<1>2. /\ TypeOK /\ Top(w).job = NoJob /\ NoJob \notin Job
      /\ Top(w) = stack[w][Len(stack[w])] /\ Len(stack[w]) = 1
      /\ residents[w] \in Seq([job : Job, waiting : BOOLEAN])
      /\ DOMAIN residents[w] = 1..Len(residents[w])
      /\ \A i \in 1..Len(residents[w]) :
            /\ residents[w][i].job \in Job
            /\ status[residents[w][i].job] \in {"running"} \cup Terminal
  <2>1. TypeOK /\ Top(w).job = NoJob /\ NoJob \notin Job
    BY <1>1, TopFacts, PoolAssumption DEF Standing
  <2>2. Top(w) = stack[w][Len(stack[w])] /\ Len(stack[w]) = 1
    BY <1>1, <2>1, LoneFrame
  <2> QED
    BY <2>1, <2>2, ResidentFacts DEF IInv, Standings
<1>3. PICK f \in Frame : Moves(w, f, "exited")
  BY <1>1, <1>2, GotoIs DEF PCs
<1>4. NewTop(w, f) /\ f.pc = "exited" /\ f.job = NoJob
  BY <1>2, <1>3 DEF Moves
<1>5. S \in SUBSET Job /\ \A i \in 1..Len(residents[w]) : residents[w][i].job \in S
  BY <1>2 DEF JobsOf
<1>6. \A j \in S : status[j] # "committing"
  BY <1>2 DEF JobsOf, Terminal
<1> HIDE DEF S
<1>7. /\ status' \in [Job -> Statuses] /\ queue' \in Seq(Job) /\ published' = published
      /\ \A j \in Job : status'[j] = IF j \in S /\ Live(j) THEN "canceled" ELSE status[j]
  BY <1>1, <1>2, EndIs DEF Terminal
<1>8. signals' \in [one : Nat, work : BOOLEAN, term : BOOLEAN]
  BY <1>1, <1>2, NotifyIs
<1>9. /\ residents' \in [Worker -> Seq([job : Job, waiting : BOOLEAN])]
      /\ residents'[w] = <<>> /\ \A v \in Worker : v # w => residents'[v] = residents[v]
  <2>1. /\ residents \in [Worker -> Seq([job : Job, waiting : BOOLEAN])]
        /\ <<>> \in Seq([job : Job, waiting : BOOLEAN])
    BY <1>2, EmptySeq DEF TypeOK
  <2> QED
    BY <1>1, <2>1
<1>10. TypeOK'
  BY <1>1, <1>2, <1>4, <1>7, <1>8, <1>9 DEF TypeOK, NewTop, Statuses
<1>11. \A i \in 1..Len(residents[w]) : status'[residents[w][i].job] \in Terminal
  BY <1>2, <1>5, <1>7 DEF Live, Terminal
<1>12. Len(stack'[w]) = 1 /\ stack'[w][1] = f
  BY <1>2, <1>4 DEF NewTop
<1>13. Dropped(w)
  BY <1>2, <1>4, <1>9, <1>11, <1>12 DEF Dropped
<1>14. \A v \in Worker : v # w => Untouched(v)
  BY <1>1, <1>4, <1>9 DEF Untouched, NewTop
<1> QED
  BY <1>1, <1>5, <1>6, <1>10, <1>13, <1>14, EndKeeps DEF Terminal

(* A catalogue that does not load keeps the invariant.                       *)
LEMMA LoadFailsKeeps ==
    ASSUME IInv, NEW w \in Worker, LoadFails(w)
    PROVE  IInv'
<1> DEFINE j == Top(w).job
           S == IF rt = "closed" THEN {j} ELSE Unclaimed
<1>1. /\ Top(w).pc = "load"
      /\ rt' = IF rt = "closed" THEN rt ELSE "broken"
      /\ End(S, "aborted") /\ Goto(w, "exited") /\ Notify({"term", "work"})
      /\ UNCHANGED <<cancelReq, prog, host, ringing, residents, loaded, progress,
                     panics, bumped, client>>
  BY DEF LoadFails, At
<1>2. /\ TypeOK /\ j \in Job /\ status[j] \in {"queued"} \cup Terminal
      /\ Top(w) = stack[w][Len(stack[w])] /\ Len(stack[w]) = 1 /\ residents[w] = <<>>
  BY <1>1, TopFacts, StackFacts DEF Standing, IInv, Threads
<1>3. PICK f \in Frame : Moves(w, f, "exited")
  BY <1>1, <1>2, GotoIs DEF PCs
<1>4. NewTop(w, f) /\ f.pc = "exited" /\ f.job = j
  BY <1>3 DEF Moves
<1>5. S \in SUBSET Job /\ \A k \in S : status[k] # "committing"
  BY <1>2 DEF Unclaimed, Terminal
<1>6. status[j] = "queued" => j \in S
  BY <1>2 DEF Unclaimed
<1>7. Closed' => Closed \/ \A k \in Job : status[k] = "queued" => k \in S
  BY <1>1 DEF Closed, Unclaimed
<1> HIDE DEF S, j
<1>8. /\ status' \in [Job -> Statuses] /\ queue' \in Seq(Job) /\ published' = published
      /\ \A k \in Job : status'[k] = IF k \in S /\ Live(k) THEN "aborted" ELSE status[k]
  BY <1>1, <1>2, EndIs DEF Terminal
<1>9. signals' \in [one : Nat, work : BOOLEAN, term : BOOLEAN]
  BY <1>1, <1>2, NotifyIs
<1>10. TypeOK'
  BY <1>1, <1>2, <1>4, <1>8, <1>9 DEF TypeOK, NewTop, Statuses
<1>11. status'[j] \in Terminal
  BY <1>2, <1>6, <1>8 DEF Live, Terminal
<1>12. Len(stack'[w]) = 1 /\ stack'[w][1] = f /\ stack[w][1].job = j
  BY <1>2, <1>4 DEF NewTop, j
<1>13. Dropped(w)
  <2>1. 1..Len(residents[w]) = {}
    BY <1>2
  <2> QED
    BY <1>1, <1>2, <1>4, <1>11, <1>12, <2>1 DEF Dropped
<1>14. \A v \in Worker : v # w => Untouched(v)
  BY <1>1, <1>4 DEF Untouched, NewTop
<1> QED
  BY <1>1, <1>5, <1>7, <1>10, <1>13, <1>14, EndKeeps DEF Terminal

(* A panic in the frame of the worker itself: the supervisor takes over.     *)
LEMMA OwnPanicKeeps ==
    ASSUME IInv, NEW w \in Worker, Panic(w), ~Helping(w)
    PROVE  IInv'
<1> DEFINE j == Top(w).job
           n == IF w \in progress THEN 1 ELSE panics[w] + 1
           last == n = PanicLimit
           S == IF last THEN Unclaimed ELSE JobsOf(w) \cup {j}
           f == IF last THEN [NewFrame EXCEPT !.pc = "exited"] ELSE NewFrame
           K == IF last THEN {"term", "work"} ELSE {"term"}
<1>1. /\ Top(w).pc \in {"load", "prepare"}
      /\ panics' = [panics EXCEPT ![w] = n] /\ progress' = progress \ {w}
      /\ residents' = [residents EXCEPT ![w] = <<>>] /\ loaded' = loaded \ {w}
      /\ End(S, "aborted") /\ rt' = IF last THEN "broken" ELSE rt
      /\ SetTop(w, f) /\ Notify(K)
      /\ UNCHANGED <<cancelReq, prog, host, ringing, bumped, client>>
  BY DEF Panic
<1>2. /\ TypeOK /\ j \in Job /\ NoJob \notin Job
      /\ status[j] \in {"queued", "running"} \cup Terminal
      /\ Top(w) = stack[w][Len(stack[w])] /\ Len(stack[w]) = 1
      /\ panics[w] \in 0..PanicLimit /\ panics[w] < PanicLimit /\ PanicLimit \in Nat \ {0}
      /\ residents[w] \in Seq([job : Job, waiting : BOOLEAN])
      /\ DOMAIN residents[w] = 1..Len(residents[w])
      /\ \A i \in 1..Len(residents[w]) :
            /\ residents[w][i].job \in Job
            /\ status[residents[w][i].job] \in {"running"} \cup Terminal
  <2>1. /\ TypeOK /\ j \in Job /\ NoJob \notin Job
        /\ status[j] \in {"queued", "running"} \cup Terminal
        /\ Top(w) = stack[w][Len(stack[w])] /\ Len(stack[w]) = 1
    <3>1. /\ TypeOK /\ j \in Job /\ NoJob \notin Job
          /\ status[j] \in {"queued", "running"} \cup Terminal
      BY <1>1, TopFacts, PoolAssumption DEF Standing
    <3> HIDE DEF j
    <3>2. Top(w) = stack[w][Len(stack[w])] /\ Len(stack[w]) = 1
      BY <3>1, LoneFrame
    <3> QED
      BY <3>1, <3>2
  <2>2. /\ panics[w] \in 0..PanicLimit /\ panics[w] < PanicLimit /\ PanicLimit \in Nat \ {0}
    BY <1>1, PoolAssumption DEF TypeOK, IInv, Threads, At
  <2>3. /\ residents[w] \in Seq([job : Job, waiting : BOOLEAN])
        /\ DOMAIN residents[w] = 1..Len(residents[w])
        /\ \A i \in 1..Len(residents[w]) :
              /\ residents[w][i].job \in Job
              /\ status[residents[w][i].job] \in {"running"} \cup Terminal
    BY <2>1, ResidentFacts DEF IInv, Standings
  <2> QED
    BY <2>1, <2>2, <2>3
<1>3. f \in Frame /\ f.job = NoJob /\ (f.pc = IF last THEN "exited" ELSE "loop")
  BY <1>2, FrameTypes DEF Frame
<1>4. n \in 0..PanicLimit /\ (~last => n < PanicLimit)
  BY <1>2
<1> HIDE DEF f
<1>5. NewTop(w, f)
  BY <1>1, <1>2, <1>3, SetTopIs
<1>6. S \in SUBSET Job /\ \A k \in S : status[k] # "committing"
  BY <1>2 DEF Unclaimed, JobsOf, Terminal
<1>7. /\ status[j] \in {"queued", "running"} => j \in S
      /\ \A i \in 1..Len(residents[w]) :
            status[residents[w][i].job] = "running" => residents[w][i].job \in S
  BY <1>2 DEF Unclaimed, JobsOf
<1>8. Closed' => Closed \/ \A k \in Job : status[k] = "queued" => k \in S
  BY <1>1 DEF Closed, Unclaimed
<1>9. rt' \in {"open", "closed", "broken"} /\ progress' \subseteq Worker /\ loaded' \subseteq Worker
  BY <1>1, <1>2 DEF TypeOK
<1> HIDE DEF S, j, n, last, K
<1>10. /\ status' \in [Job -> Statuses] /\ queue' \in Seq(Job) /\ published' = published
       /\ \A k \in Job : status'[k] = IF k \in S /\ Live(k) THEN "aborted" ELSE status[k]
  BY <1>1, <1>2, EndIs DEF Terminal
<1>11. signals' \in [one : Nat, work : BOOLEAN, term : BOOLEAN]
  BY <1>1, <1>2, NotifyIs
<1>12. /\ residents' \in [Worker -> Seq([job : Job, waiting : BOOLEAN])]
       /\ residents'[w] = <<>> /\ \A v \in Worker : v # w => residents'[v] = residents[v]
  <2>1. /\ residents \in [Worker -> Seq([job : Job, waiting : BOOLEAN])]
        /\ <<>> \in Seq([job : Job, waiting : BOOLEAN])
    BY <1>2, EmptySeq DEF TypeOK
  <2> QED
    BY <1>1, <2>1
<1>13. /\ panics' \in [Worker -> 0..PanicLimit] /\ panics'[w] = n
       /\ \A v \in Worker : v # w => panics'[v] = panics[v]
  BY <1>1, <1>2, <1>4 DEF TypeOK
<1>14. TypeOK'
  BY <1>1, <1>2, <1>5, <1>9, <1>10, <1>11, <1>12, <1>13 DEF TypeOK, NewTop, Statuses
<1>15. /\ status'[j] \in Terminal
       /\ \A i \in 1..Len(residents[w]) : status'[residents[w][i].job] \in Terminal
  BY <1>2, <1>7, <1>10 DEF Live, Terminal
<1>16. Len(stack'[w]) = 1 /\ stack'[w][1] = f /\ stack[w][1].job = j
  BY <1>2, <1>5 DEF NewTop, j
<1>17. Dropped(w)
  BY <1>2, <1>3, <1>4, <1>12, <1>13, <1>15, <1>16 DEF Dropped
<1>18. \A v \in Worker : v # w => Untouched(v)
  BY <1>1, <1>5, <1>12, <1>13 DEF Untouched, NewTop
<1> QED
  BY <1>1, <1>6, <1>8, <1>14, <1>17, <1>18, EndKeeps DEF Terminal

(* The shutdown keeps the invariant.                                         *)
LEMMA ShutdownKeeps ==
    ASSUME IInv, Shutdown
    PROVE  IInv'
<1> DEFINE S == {j \in Job : status[j] = "queued"}
<1>1. /\ rt' = "closed" /\ End(S, "canceled") /\ Notify({"work", "term"})
      /\ cancelReq' = cancelReq \cup {j \in Job : status[j] \in {"running", "committing"}}
      /\ UNCHANGED <<prog, host, ringing, residents, stack, loaded, progress, panics,
                     bumped, client>>
  BY DEF Shutdown
<1>2. TypeOK /\ S \in SUBSET Job /\ \A j \in S : status[j] # "committing"
  BY DEF IInv
<1>3. \A j \in Job : status[j] = "queued" => j \in S
  OBVIOUS
<1> HIDE DEF S
<1>4. status' \in [Job -> Statuses] /\ queue' \in Seq(Job) /\ published' = published
  BY <1>1, <1>2, EndIs DEF Terminal
<1>5. signals' \in [one : Nat, work : BOOLEAN, term : BOOLEAN]
  BY <1>1, <1>2, NotifyIs
<1>6. TypeOK'
  BY <1>1, <1>2, <1>4, <1>5 DEF TypeOK, Statuses
<1>7. \A v \in Worker : Untouched(v)
  BY <1>1 DEF Untouched
<1> QED
  BY <1>1, <1>2, <1>3, <1>6, <1>7, EndKeeps DEF Terminal

(* The frames keep their places; sleepers may wake.                          *)
LEMMA CalmKeeps ==
    ASSUME IInv, TypeOK',
           UNCHANGED <<rt, status, queue, published, prog, residents, loaded, panics>>,
           \A v \in Worker :
              /\ Len(stack'[v]) = Len(stack[v])
              /\ \A i \in 1..Len(stack[v]) :
                    /\ stack'[v][i].job = stack[v][i].job
                    /\ stack'[v][i].how = stack[v][i].how
                    /\ \/ stack'[v][i].pc = stack[v][i].pc
                       \/ stack[v][i].pc = "asleep" /\ stack'[v][i].pc = "loop"
    PROVE  IInv'
<1>1. TypeOK /\ \A v \in Worker : Len(stack[v]) \in Nat /\ Len(stack[v]) \in 1..Len(stack[v])
  BY StackFacts DEF IInv
<1>2. Placed'
  <2>1. QueueOnce' /\ PoolOnce' /\ FrameOnce'
    BY SMTT(30) DEF IInv, Placed, QueueOnce, PoolOnce, FrameOnce
  <2>2. \A j \in Job : /\ InQueue(j)' <=> InQueue(j)
                       /\ Resident(j)' <=> Resident(j)
                       /\ InFrame(j)' <=> InFrame(j)
                       /\ Live(j)' <=> Live(j)
    BY DEF InQueue, Resident, InFrame, Live
  <2> QED
    BY <2>1, <2>2 DEF IInv, Placed, Apart, Kept
<1>3. Standings'
  <2>1. \A v \in Worker : \A i \in 1..Len(stack'[v]) :
           Standing(stack'[v][i], status', published')
    <3> TAKE v \in Worker
    <3> TAKE i \in 1..Len(stack'[v])
    <3>1. Standing(stack[v][i], status, published)
      BY DEF IInv, Standings
    <3> QED
      BY <3>1 DEF Standing
  <2> QED
    BY <2>1 DEF IInv, Standings, Closed
<1>4. Threads'
  <2> SUFFICES ASSUME NEW v \in Worker
               PROVE  /\ \A i \in 1..Len(stack'[v]) - 1 :
                            stack'[v][i].pc = "exec" /\ Serves(prog'[stack'[v][i].job])
                      /\ Top(v)'.pc \in {"load", "exited"} =>
                            Len(stack'[v]) = 1 /\ residents'[v] = <<>>
                      /\ v \notin loaded' =>
                            /\ residents'[v] = <<>> /\ Len(stack'[v]) = 1
                            /\ Top(v)'.pc \in {"loop", "asleep", "load", "exited"}
                      /\ Top(v)'.pc # "exited" => panics'[v] < PanicLimit
    BY DEF Threads, At
  <2>1. /\ \A i \in 1..Len(stack[v]) - 1 :
              stack[v][i].pc = "exec" /\ Serves(prog[stack[v][i].job])
        /\ Top(v).pc \in {"load", "exited"} => Len(stack[v]) = 1 /\ residents[v] = <<>>
        /\ v \notin loaded => /\ residents[v] = <<>> /\ Len(stack[v]) = 1
                              /\ Top(v).pc \in {"loop", "asleep", "load", "exited"}
        /\ Top(v).pc # "exited" => panics[v] < PanicLimit
    BY DEF Threads, At, IInv
  <2>2. Top(v)'.pc = Top(v).pc \/ (Top(v).pc = "asleep" /\ Top(v)'.pc = "loop")
    <3> DEFINE t == Len(stack[v])
               g == stack[v][t]
               h == stack'[v][t]
    <3>1. h.pc = g.pc \/ (g.pc = "asleep" /\ h.pc = "loop")
      <4>1. t \in 1..Len(stack[v])
        BY <1>1
      <4> HIDE DEF t
      <4> QED
        BY <4>1
    <3>2. Len(stack'[v]) = t
      OBVIOUS
    <3>3. Top(v) = g /\ Top(v)' = h
      BY <3>2 DEF Top, Depth
    <3> HIDE DEF g, h, t
    <3> QED
      BY <3>1, <3>3
  <2>3. \A i \in 1..Len(stack[v]) - 1 : i \in 1..Len(stack[v])
    BY <1>1
  <2>4. \A i \in 1..Len(stack'[v]) - 1 :
           stack'[v][i].pc = "exec" /\ Serves(prog'[stack'[v][i].job])
    BY <2>1, <2>3, ZenonT(30)
  <2> QED
    BY <2>1, <2>2, <2>4
<1> QED
  BY <1>2, <1>3, <1>4 DEF IInv

(* A host event keeps the invariant.                                         *)
LEMMA BumpKeeps ==
    ASSUME IInv, TypeOK', Bump,
           UNCHANGED <<rt, status, queue, published, prog, residents, loaded, panics>>
    PROVE  IInv'
<1>1. TypeOK /\ \A v \in Worker : \A i \in 1..Len(stack[v]) : stack[v][i] \in Frame
  BY StackFacts DEF IInv
<1>2. \A v \in Worker :
         /\ Len(stack'[v]) = Len(stack[v])
         /\ \A i \in 1..Len(stack[v]) : stack'[v][i] = [stack[v][i] EXCEPT !.stale = TRUE]
  BY <1>1, BumpIs
<1>3. \A v \in Worker : \A i \in 1..Len(stack[v]) :
         /\ stack'[v][i].job = stack[v][i].job
         /\ stack'[v][i].how = stack[v][i].how
         /\ stack'[v][i].pc = stack[v][i].pc
  <2> TAKE v \in Worker
  <2> TAKE i \in 1..Len(stack[v])
  <2>1. stack[v][i] \in Frame /\ stack'[v][i] = [stack[v][i] EXCEPT !.stale = TRUE]
    BY <1>1, <1>2
  <2> QED
    BY <2>1 DEF Frame
<1> QED
  BY <1>2, <1>3, CalmKeeps

(* A cancellation keeps the invariant.                                       *)
LEMMA CancelKeeps ==
    ASSUME IInv, NEW j \in Job, Cancel(j)
    PROVE  IInv'
<1>1. TypeOK /\ UNCHANGED <<rt, prog, host, ringing, residents, loaded, progress, panics, client>>
  BY DEF IInv, Cancel
<1>2. CASE /\ status[j] = "queued" /\ End({j}, "canceled") /\ Notify({"term"})
           /\ UNCHANGED <<cancelReq, stack, bumped>>
  <2>1. status' \in [Job -> Statuses] /\ queue' \in Seq(Job) /\ published' = published
    BY <1>1, <1>2, EndIs DEF Terminal
  <2>2. signals' \in [one : Nat, work : BOOLEAN, term : BOOLEAN]
    BY <1>1, <1>2, NotifyIs
  <2>3. TypeOK'
    BY <1>1, <1>2, <2>1, <2>2 DEF TypeOK, Statuses
  <2>4. /\ \A v \in Worker : Untouched(v)
        /\ \A k \in {j} : status[k] # "committing"
        /\ {j} \in SUBSET Job /\ (Closed' => Closed)
    BY <1>1, <1>2 DEF Untouched, Closed
  <2> QED
    BY <1>1, <1>2, <2>3, <2>4, EndKeeps DEF Terminal
<1>3. CASE /\ cancelReq' = cancelReq \cup {j} /\ Bump /\ Notify({"work", "term"})
           /\ UNCHANGED jobVars
  <2>1. /\ bumped' = TRUE /\ stack' \in [Worker -> Seq(Frame)]
        /\ \A v \in Worker : stack'[v] # <<>>
    BY <1>1, <1>3, BumpIs
  <2>2. signals' \in [one : Nat, work : BOOLEAN, term : BOOLEAN]
    BY <1>1, <1>3, NotifyIs
  <2>3. TypeOK'
    BY <1>1, <1>3, <2>1, <2>2 DEF TypeOK, jobVars
  <2> QED
    BY <1>1, <1>3, <2>3, BumpKeeps DEF jobVars
<1> QED
  BY <1>2, <1>3 DEF Cancel

(* The waker of a transport keeps the invariant.                             *)
LEMMA CallWakerKeeps ==
    ASSUME IInv, NEW j \in Job, CallWaker(j)
    PROVE  IInv'
<1>1. /\ TypeOK /\ ringing' = ringing \ {j} /\ Bump /\ Notify({"work", "term"})
      /\ UNCHANGED <<rt, status, queue, published, cancelReq, prog, host, residents, loaded,
                     progress, panics, client>>
  BY DEF IInv, CallWaker, jobVars
<1>2. /\ bumped' = TRUE /\ stack' \in [Worker -> Seq(Frame)]
      /\ \A v \in Worker : stack'[v] # <<>>
  BY <1>1, BumpIs
<1>3. signals' \in [one : Nat, work : BOOLEAN, term : BOOLEAN]
  BY <1>1, NotifyIs
<1>4. TypeOK'
  BY <1>1, <1>2, <1>3 DEF TypeOK
<1> QED
  BY <1>1, <1>4, BumpKeeps

(* Waking sleepers keeps the invariant.                                      *)
LEMMA WakeKeeps ==
    ASSUME IInv, TypeOK', NEW S \in SUBSET Worker, Wake(S), \A v \in S : At(v, "asleep"),
           UNCHANGED <<rt, status, queue, published, prog, residents, loaded, panics>>
    PROVE  IInv'
<1>1. /\ TypeOK
      /\ \A v \in Worker : Top(v) = stack[v][Len(stack[v])] /\ Top(v) \in Frame
  BY StackFacts DEF IInv
<1>2. \A v \in Worker :
         /\ Len(stack'[v]) = Len(stack[v])
         /\ \A i \in 1..Len(stack[v]) :
               stack'[v][i] = IF v \in S /\ i = Len(stack[v])
                              THEN [Top(v) EXCEPT !.pc = "loop"] ELSE stack[v][i]
  BY <1>1, WakeIs
<1>3. \A v \in Worker :
         /\ [Top(v) EXCEPT !.pc = "loop"].job = Top(v).job
         /\ [Top(v) EXCEPT !.pc = "loop"].how = Top(v).how
         /\ [Top(v) EXCEPT !.pc = "loop"].pc = "loop"
  BY <1>1 DEF Frame
<1>4. \A v \in Worker : \A i \in 1..Len(stack[v]) :
         /\ stack'[v][i].job = stack[v][i].job
         /\ stack'[v][i].how = stack[v][i].how
         /\ \/ stack'[v][i].pc = stack[v][i].pc
            \/ stack[v][i].pc = "asleep" /\ stack'[v][i].pc = "loop"
  <2> TAKE v \in Worker
  <2> TAKE i \in 1..Len(stack[v])
  <2>1. CASE v \in S /\ i = Len(stack[v])
    <3>1. stack[v][i] = Top(v) /\ stack'[v][i] = [Top(v) EXCEPT !.pc = "loop"]
      BY <1>1, <1>2, <2>1
    <3>2. stack[v][i].pc = "asleep"
      BY <2>1, <3>1 DEF At
    <3> QED
      BY <1>3, <3>1, <3>2
  <2>2. CASE ~(v \in S /\ i = Len(stack[v]))
    <3>1. stack'[v][i] = stack[v][i]
      BY <1>2, <2>2
    <3> QED
      BY <3>1
  <2> QED
    BY <2>1, <2>2
<1> QED
  BY <1>2, <1>4, CalmKeeps

(* Delivering a notification keeps the invariant.                            *)
LEMMA DeliveryKeeps ==
    ASSUME IInv, Delivery
    PROVE  IInv'
<1>1. TypeOK
  BY DEF IInv
<1>2. CASE DeliverOne
  <2>1. /\ signals.one > 0 /\ signals' = [signals EXCEPT !.one = @ - 1]
        /\ UNCHANGED <<rt, status, queue, published, cancelReq, prog, host, ringing, residents,
                       loaded, progress, panics, bumped, client>>
        /\ UNCHANGED stack \/ \E w \in OnWork : Wake({w})
    BY <1>2 DEF DeliverOne, jobVars
  <2>2. signals' \in [one : Nat, work : BOOLEAN, term : BOOLEAN]
    <3>1. signals \in [one : Nat, work : BOOLEAN, term : BOOLEAN]
      BY <1>1 DEF TypeOK
    <3>2. signals.one - 1 \in Nat
      BY <2>1, <3>1
    <3> QED
      BY <2>1, <3>1, <3>2
  <2>3. CASE UNCHANGED stack
    <3>1. TypeOK'
      BY <1>1, <2>1, <2>2, <2>3 DEF TypeOK
    <3> QED
      BY <2>1, <2>3, <3>1, CalmKeeps
  <2>4. ASSUME NEW w \in OnWork, Wake({w})
        PROVE  IInv'
    <3>1. {w} \in SUBSET Worker /\ \A v \in {w} : At(v, "asleep")
      BY DEF OnWork
    <3>2. stack' \in [Worker -> Seq(Frame)] /\ \A v \in Worker : stack'[v] # <<>>
      BY <1>1, <2>4, <3>1, WakeIs
    <3>3. TypeOK'
      BY <1>1, <2>1, <2>2, <3>2 DEF TypeOK
    <3> QED
      BY <2>1, <2>4, <3>1, <3>3, WakeKeeps
  <2> QED
    BY <2>1, <2>3, <2>4
<1>3. CASE DeliverWork
  <2>1. /\ signals' = [signals EXCEPT !.work = FALSE] /\ Wake(OnWork)
        /\ UNCHANGED <<rt, status, queue, published, cancelReq, prog, host, ringing, residents,
                       loaded, progress, panics, bumped, client>>
    BY <1>3 DEF DeliverWork, jobVars
  <2>2. signals' \in [one : Nat, work : BOOLEAN, term : BOOLEAN]
    BY <1>1, <2>1 DEF TypeOK
  <2>3. OnWork \in SUBSET Worker /\ \A v \in OnWork : At(v, "asleep")
    BY DEF OnWork
  <2>4. stack' \in [Worker -> Seq(Frame)] /\ \A v \in Worker : stack'[v] # <<>>
    BY <1>1, <2>1, <2>3, WakeIs
  <2>5. TypeOK'
    BY <1>1, <2>1, <2>2, <2>4 DEF TypeOK
  <2> QED
    BY <2>1, <2>3, <2>5, WakeKeeps
<1>4. CASE DeliverTerm
  <2>1. /\ signals' = [signals EXCEPT !.term = FALSE] /\ Wake(OnTerm)
        /\ client' = [c \in Client |-> IF client[c] = "asleep" THEN "check" ELSE client[c]]
        /\ UNCHANGED <<rt, status, queue, published, cancelReq, prog, host, ringing, residents,
                       loaded, progress, panics, bumped>>
    BY <1>4 DEF DeliverTerm, jobVars
  <2>2. signals' \in [one : Nat, work : BOOLEAN, term : BOOLEAN]
    BY <1>1, <2>1 DEF TypeOK
  <2>3. OnTerm \in SUBSET Worker /\ \A v \in OnTerm : At(v, "asleep")
    BY DEF OnTerm
  <2>4. stack' \in [Worker -> Seq(Frame)] /\ \A v \in Worker : stack'[v] # <<>>
    BY <1>1, <2>1, <2>3, WakeIs
  <2>5. client' \in [Client -> {"away", "check", "asleep", "back"}]
    BY <1>1, <2>1 DEF TypeOK
  <2>6. TypeOK'
    BY <1>1, <2>1, <2>2, <2>4, <2>5 DEF TypeOK
  <2> QED
    BY <2>1, <2>3, <2>6, WakeKeeps
<1> QED
  BY <1>2, <1>3, <1>4 DEF Delivery

(* Answers and waits of the foreground keep the invariant.                   *)
LEMMA OutsideKeeps ==
    ASSUME IInv,
           \/ \E j \in Job : HostAnswers(j)
           \/ \E c \in Client : Call(c) \/ Check(c)
           \/ UNCHANGED vars
    PROVE  IInv'
<1>1. UNCHANGED <<rt, status, queue, published, prog, residents, loaded, panics, stack>>
  BY DEF HostAnswers, Call, Check, vars, jobVars
<1>2. TypeOK'
  <2>1. CASE \E j \in Job : HostAnswers(j)
    BY <2>1 DEF IInv, TypeOK, HostAnswers, jobVars
  <2>2. CASE \E c \in Client : Call(c) \/ Check(c)
    BY <2>2 DEF IInv, TypeOK, Call, Check, jobVars
  <2>3. CASE UNCHANGED vars
    BY <2>3 DEF IInv, TypeOK, vars, jobVars
  <2> QED
    BY <2>1, <2>2, <2>3
<1> QED
  BY <1>1, <1>2, CalmKeeps

-----------------------------------------------------------------------------
(* The inductive invariant.                                                  *)

LEMMA InitIsPlaced ==
    ASSUME Init
    PROVE  IInv
<1>1. NewFrame \in Frame /\ NewFrame.pc = "loop" /\ NewFrame.job = NoJob
  BY DEF Init, NewFrame, Frame
<1>2. \A w \in Worker : /\ stack[w] = <<NewFrame>> /\ stack[w] \in Seq(Frame)
                        /\ stack[w] # <<>> /\ Len(stack[w]) = 1
                        /\ stack[w][1] = NewFrame
                        /\ residents[w] = <<>> /\ Len(residents[w]) = 0
                        /\ 1..Len(residents[w]) = {} /\ 1..Len(stack[w]) - 1 = {}
  BY <1>1 DEF Init
<1>3. TypeOK
  <2>1. stack \in [Worker -> Seq(Frame)]
    BY <1>1 DEF Init
  <2>2. PanicLimit \in Nat \ {0} /\ Program \in [Job -> Seq(Op)]
    BY PoolAssumption
  <2>3. panics \in [Worker -> 0..PanicLimit]
    BY <2>2 DEF Init
  <2> QED
    <3>1. queue \in Seq(Job) /\ residents \in [Worker -> Seq([job : Job, waiting : BOOLEAN])]
      BY EmptySeq DEF Init
    <3>2. /\ status \in [Job -> {"new", "queued", "running", "committing"} \cup Terminal]
          /\ host \in [Job -> {"idle", "pending", "done"}]
          /\ client \in [Client -> {"away", "check", "asleep", "back"}]
          /\ signals \in [one : Nat, work : BOOLEAN, term : BOOLEAN]
      BY DEF Init
    <3> QED
      BY <1>2, <2>1, <2>2, <2>3, <3>1, <3>2 DEF Init, TypeOK
<1>4. \A w \in Worker : Top(w) = NewFrame
  BY <1>2 DEF Top, Depth
<1>5. /\ 1..Len(queue) = {} /\ NoJob \notin Job
      /\ \A j \in Job : status[j] = "new"
  BY PoolAssumption DEF Init
<1>6. \A j \in Job : ~Live(j) /\ ~InQueue(j) /\ ~Resident(j)
  BY <1>2, <1>5 DEF Live, InQueue, Resident
<1>7. FrameOnce
  <2> SUFFICES ASSUME NEW v \in Worker, NEW i \in 1..Len(stack[v])
               PROVE  stack[v][i].job \notin Job
    BY DEF FrameOnce
  <2>1. i \in 1..1
    BY <1>2
  <2>2. i = 1
    BY <2>1
  <2> QED
    BY <1>1, <1>2, <1>5, <2>2
<1>8. Placed
  BY <1>2, <1>5, <1>6, <1>7 DEF Placed, QueueOnce, PoolOnce, Apart, Kept
<1>9. Standings
  <2>1. \A w \in Worker : \A i \in 1..Len(stack[w]) : Standing(stack[w][i], status, published)
    <3> TAKE w \in Worker
    <3> TAKE i \in 1..Len(stack[w])
    <3>1. stack[w][i] = NewFrame
      BY <1>2
    <3> QED
      BY <1>1, <1>5, <3>1 DEF Standing
  <2> QED
    BY <1>2, <1>5, <2>1 DEF Standings
<1>10. Threads
  BY <1>1, <1>2, <1>4, PoolAssumption DEF Threads, At, Init
<1> QED
  BY <1>3, <1>8, <1>9, <1>10 DEF IInv

(* Every step of a thread keeps the invariant.                               *)
LEMMA WorkerKeeps ==
    ASSUME IInv, NEW w \in Worker, WorkerStep(w)
    PROVE  IInv'
<1>1. CASE Panic(w)
  BY <1>1, NestedPanicKeeps, OwnPanicKeeps
<1>2. CASE ~Panic(w)
  BY <1>2, ReturnKeeps, ExitKeeps, PickResidentKeeps, PopQueueKeeps, RecheckKeeps, SleepKeeps,
     LoadCatalogKeeps, LoadFailsKeeps, StartKeeps, PrepareKeeps, PrepareFailsKeeps,
     PollKeeps, EndQuantumKeeps, HostCallKeeps, ParkKeeps, SpawnKeeps, WaitKeeps,
     EndProgramKeeps, ClaimKeeps, CommitKeeps, FinishKeeps, Zenon
  DEF WorkerStep
<1> QED
  BY <1>1, <1>2

(* Every step keeps the invariant.                                           *)
LEMMA StepKeepsPlaces ==
    ASSUME IInv, [Next]_vars
    PROVE  IInv'
<1>1. CASE \E w \in Worker : WorkerStep(w)
  BY <1>1, WorkerKeeps
<1>2. CASE Delivery
  BY <1>2, DeliveryKeeps
<1>3. CASE \E j \in Job : HostAnswers(j) \/ CallWaker(j) \/ Submit(j) \/ Cancel(j)
  BY <1>3, OutsideKeeps, CallWakerKeeps, SubmitKeeps, CancelKeeps
<1>4. CASE Shutdown
  BY <1>4, ShutdownKeeps
<1>5. CASE (\E c \in Client : Call(c) \/ Check(c)) \/ UNCHANGED vars
  BY <1>5, OutsideKeeps
<1> QED
  BY <1>1, <1>2, <1>3, <1>4, <1>5 DEF Next

(* The types, the places, the standings and the threads hold always.         *)
LEMMA PlacesInvariant == Spec => []IInv
<1>1. Init => IInv
  BY InitIsPlaced
<1>2. IInv /\ [Next]_vars => IInv'
  BY StepKeepsPlaces
<1> QED
  BY <1>1, <1>2, PTL DEF Spec

(* The places of a job are one.                                              *)
LEMMA OnePlace ==
    ASSUME IInv, NEW j \in Job, Live(j)
    PROVE  Cardinality(Places(j)) = 1
<1> DEFINE A == {<<"queue", i>> : i \in {k \in DOMAIN queue : queue[k] = j}}
           B == UNION {{<<"resident", w, i>> :
                          i \in {k \in DOMAIN residents[w] : residents[w][k].job = j}}
                       : w \in Worker}
           C == UNION {{<<"frame", w, i>> :
                          i \in {k \in DOMAIN stack[w] : stack[w][k].job = j}}
                       : w \in Worker}
<1>1. Places(j) = A \cup B \cup C
  BY Zenon DEF Places
<1>2. /\ DOMAIN queue = 1..Len(queue)
      /\ \A w \in Worker : /\ DOMAIN residents[w] = 1..Len(residents[w])
                           /\ DOMAIN stack[w] = 1..Len(stack[w])
  BY QueueFacts, ResidentFacts, StackFacts, LenProperties DEF IInv
<1>3. /\ ~InQueue(j) => A = {}
      /\ ~Resident(j) => B = {}
      /\ ~InFrame(j) => C = {}
  BY <1>2 DEF InQueue, Resident, InFrame
<1>4. QueueOnce /\ PoolOnce /\ FrameOnce /\ Apart /\ Kept
  BY DEF IInv, Placed
<1>5. CASE InQueue(j)
  <2>1. PICK i \in 1..Len(queue) : queue[i] = j
    BY <1>5 DEF InQueue
  <2>2. \A k \in DOMAIN queue : queue[k] = j <=> k = i
    BY <1>2, <1>4, <2>1 DEF QueueOnce
  <2>3. A = {<<"queue", i>>}
    BY <1>2, <2>1, <2>2
  <2>4. B = {} /\ C = {}
    BY <1>3, <1>4, <1>5 DEF Apart
  <2> HIDE DEF A, B, C
  <2>5. Places(j) = {<<"queue", i>>}
    BY <1>1, <2>3, <2>4
  <2> QED
    BY <2>5, FS_Singleton
<1>6. CASE Resident(j)
  <2>1. PICK w \in Worker : \E i \in 1..Len(residents[w]) : residents[w][i].job = j
    BY <1>6 DEF Resident
  <2>2. PICK i \in 1..Len(residents[w]) : residents[w][i].job = j
    BY <2>1
  <2>3. \A v \in Worker : \A k \in DOMAIN residents[v] :
           residents[v][k].job = j <=> v = w /\ k = i
    BY <1>2, <1>4, <2>2, SMTT(30) DEF PoolOnce
  <2>4. B = {<<"resident", w, i>>}
    BY <1>2, <2>2, <2>3
  <2>5. A = {} /\ C = {}
    BY <1>3, <1>4, <1>6 DEF Apart
  <2> HIDE DEF A, B, C
  <2>6. Places(j) = {<<"resident", w, i>>}
    BY <1>1, <2>4, <2>5
  <2> QED
    BY <2>6, FS_Singleton
<1>7. CASE InFrame(j)
  <2>1. PICK w \in Worker : \E i \in 1..Len(stack[w]) : stack[w][i].job = j
    BY <1>7 DEF InFrame
  <2>2. PICK i \in 1..Len(stack[w]) : stack[w][i].job = j
    BY <2>1
  <2>3. \A v \in Worker : \A k \in DOMAIN stack[v] :
           stack[v][k].job = j <=> v = w /\ k = i
    BY <1>2, <1>4, <2>2 DEF FrameOnce
  <2>4. C = {<<"frame", w, i>>}
    BY <1>2, <2>2, <2>3
  <2>5. A = {} /\ B = {}
    BY <1>3, <1>4, <1>7 DEF Apart
  <2> HIDE DEF A, B, C
  <2>6. Places(j) = {<<"frame", w, i>>}
    BY <1>1, <2>4, <2>5
  <2> QED
    BY <2>6, FS_Singleton
<1> QED
  BY <1>4, <1>5, <1>6, <1>7 DEF Kept

(* A live job is in exactly one place - the FIFO, the pool of a thread, or a *)
(* frame of a thread - and a thread that exits leaves nothing behind:        *)
(* whatever the programs of the jobs, the number of threads, the nesting of  *)
(* the waits and the panics (drive_local and worker_supervisor of            *)
(* jobs/worker.rs).                                                          *)
THEOREM OneOwner == Spec => []SingleOwner
<1>1. ASSUME IInv
      PROVE  SingleOwner
  <2>1. TypeOK
    BY <1>1 DEF IInv
  <2>2. \A w \in Worker : At(w, "exited") => residents[w] = <<>> /\ Depth(w) = 1
    BY <1>1, <2>1, StackFacts DEF IInv, Threads, At
  <2> QED
    BY <1>1, <2>1, <2>2, OnePlace DEF SingleOwner
<1> QED
  BY <1>1, PlacesInvariant, PTL

-----------------------------------------------------------------------------
(* The lifecycle.                                                            *)

(* What one step does to the status of a job.                                *)
Change(j) ==
    \/ status'[j] = status[j]
    \/ status[j] = "new" /\ status'[j] = "queued" /\ ~Closed
    \/ status[j] = "queued" /\ status'[j] \in {"running", "failed", "aborted", "canceled"}
    \/ status[j] = "running" /\ status'[j] \in {"failed", "aborted", "canceled"}
    \/ status[j] = "running" /\ status'[j] = "committing" /\ ~Closed
    \/ status[j] = "committing" /\ status'[j] \in {"failed", "aborted"}
    \/ status[j] = "committing" /\ status'[j] = "completed" /\ j \in published

Advances == published' = published /\ (Closed => Closed') /\ \A j \in Job : Change(j)
Publishes ==
    /\ UNCHANGED <<status, rt>>
    /\ \E j \in Job : status[j] = "committing" /\ published' = published \cup {j}

(* Ending jobs is such a step when those that have the claim end by their    *)
(* own driver.                                                               *)
LEMMA EndAdvances ==
    ASSUME TypeOK, NEW S, NEW st \in Terminal, End(S, st), Closed => Closed',
           \A j \in Job : j \in S /\ status[j] \in {"queued", "running"} => st # "completed",
           \A j \in Job : j \in S /\ status[j] = "committing" =>
              st \in {"failed", "aborted"} \/ (st = "completed" /\ j \in published)
    PROVE  Advances
<1>1. /\ \A j \in Job : status'[j] = IF j \in S /\ Live(j) THEN st ELSE status[j]
      /\ published' = published
  BY EndIs
<1>2. ASSUME NEW j \in Job
      PROVE  Change(j)
  BY <1>1 DEF Change, Live, Terminal
<1> QED
  BY <1>1, <1>2 DEF Advances

(* The end of the job of the top frame is a step of its lifecycle.           *)
LEMMA FinishTopAdvances ==
    ASSUME IInv, NEW w \in Worker, NEW st \in Terminal, FinishTop(w, st),
           \/ Top(w).pc \in {"prepare", "poll", "exec", "claim"} /\ st \in {"aborted", "canceled"}
           \/ Top(w).pc = "finish" /\ st = Top(w).how
    PROVE  Advances
<1>1. /\ TypeOK /\ End({Top(w).job}, st) /\ UNCHANGED rt
      /\ Standing(Top(w), status, published)
  BY TopFacts DEF FinishTop
<1>2. Closed => Closed'
  BY <1>1 DEF Closed
<1>3. CASE Top(w).pc \in {"prepare", "poll", "exec", "claim"} /\ st \in {"aborted", "canceled"}
  <2>1. status[Top(w).job] \in {"running"} \cup Terminal
    BY <1>1, <1>3 DEF Standing
  <2> QED
    BY <1>1, <1>2, <1>3, <2>1, EndAdvances DEF Terminal
<1>4. CASE Top(w).pc = "finish" /\ st = Top(w).how
  <2>1. /\ status[Top(w).job] = "committing" /\ st \in {"completed", "failed"}
        /\ st = "completed" => Top(w).job \in published
    BY <1>1, <1>4 DEF Standing
  <2> QED
    BY <1>1, <1>2, <2>1, EndAdvances
<1> QED
  BY <1>3, <1>4

(* A step that touches no status.                                            *)
LEMMA CalmAdvances ==
    ASSUME UNCHANGED <<rt, status, published>>
    PROVE  Advances
BY DEF Advances, Change, Closed

(* The admission of a job is a step of its lifecycle.                        *)
LEMMA EnqueueAdvances ==
    ASSUME TypeOK, NEW j \in Job, Enqueue(j), UNCHANGED rt, ~Closed, status[j] = "new"
    PROVE  Advances
<1>1. /\ \A k \in Job : status'[k] = IF k = j THEN "queued" ELSE status[k]
      /\ published' = published
  BY EnqueueIs
<1> QED
  BY <1>1 DEF Advances, Change, Closed

(* A step of a thread moves every job along its lifecycle, or publishes.     *)
LEMMA WorkerAdvances ==
    ASSUME IInv, NEW w \in Worker, WorkerStep(w)
    PROVE  Advances \/ Publishes
<1>1. TypeOK /\ status \in [Job -> Statuses]
  BY TopFacts
<1>2. CASE \/ Return(w) \/ PickResident(w) \/ PopQueue(w) \/ Recheck(w) \/ Sleep(w)
           \/ LoadCatalog(w) \/ Prepare(w) \/ EndQuantum(w) \/ HostCall(w) \/ Park(w) \/ Wait(w)
  <2>1. UNCHANGED <<rt, status, published>>
    BY <1>2 DEF Return, PickResident, PopQueue, Recheck, Sleep, LoadCatalog, Prepare,
                EndQuantum, HostCall, Park, Wait, jobVars
  <2> QED
    BY <2>1, CalmAdvances
<1>3. CASE Exit(w)
  <2>1. End(JobsOf(w), "canceled") /\ UNCHANGED rt
    BY <1>3 DEF Exit
  <2>2. \A j \in JobsOf(w) : status[j] # "committing"
    BY <1>1, ResidentFacts DEF JobsOf, IInv, Standings, Terminal
  <2> QED
    BY <1>1, <2>1, <2>2, EndAdvances DEF Terminal, Closed
<1>4. CASE LoadFails(w)
  <2> DEFINE S == IF rt = "closed" THEN {Top(w).job} ELSE Unclaimed
  <2>1. /\ End(S, "aborted") /\ Top(w).pc = "load"
        /\ rt' = IF rt = "closed" THEN rt ELSE "broken"
    BY <1>4 DEF LoadFails, At
  <2>2. Closed => Closed'
    BY <2>1 DEF Closed
  <2> HIDE DEF S
  <2> QED
    BY <1>1, <2>1, <2>2, EndAdvances DEF Terminal
<1>5. CASE Start(w)
  <2>1. Top(w).job \in Job /\ UNCHANGED <<rt, published>>
    BY <1>5, TopFacts DEF Start, At
  <2>2. \/ UNCHANGED status
        \/ /\ status[Top(w).job] = "queued"
           /\ status' = [status EXCEPT ![Top(w).job] = "running"]
    BY <1>5 DEF Start
  <2> QED
    BY <1>1, <2>1, <2>2 DEF Advances, Change, Closed
<1>6. CASE PrepareFails(w) \/ Finish(w)
  <2>1. CASE PrepareFails(w)
    BY <2>1, FinishTopAdvances DEF PrepareFails, At, Terminal
  <2>2. CASE Finish(w)
    <3>1. Top(w).pc = "finish" /\ FinishTop(w, Top(w).how)
      BY <2>2 DEF Finish, At
    <3>2. Top(w).how \in Terminal
      BY <3>1, TopFacts DEF Standing, Terminal
    <3> QED
      BY <3>1, <3>2, FinishTopAdvances
  <2> QED
    BY <1>6, <2>1, <2>2
<1>7. CASE Panic(w)
  <2>1. CASE Helping(w)
    <3>1. End({Top(w).job, Parent(w)}, "aborted") /\ UNCHANGED rt
      BY <1>7, <2>1 DEF Panic
    <3> QED
      BY <1>1, <3>1, EndAdvances DEF Terminal, Closed
  <2>2. CASE ~Helping(w)
    <3> DEFINE n == IF w \in progress THEN 1 ELSE panics[w] + 1
               last == n = PanicLimit
               S == IF last THEN Unclaimed ELSE JobsOf(w) \cup {Top(w).job}
    <3>1. /\ End(S, "aborted") /\ rt' = IF last THEN "broken" ELSE rt
          /\ Top(w).pc \in {"load", "prepare"}
      BY <1>7, <2>2 DEF Panic
    <3>2. Closed => Closed'
      BY <3>1 DEF Closed
    <3> HIDE DEF S
    <3> QED
      BY <1>1, <3>1, <3>2, EndAdvances DEF Terminal
  <2> QED
    BY <2>1, <2>2
<1>8. CASE Poll(w)
  <2>1. Top(w).pc = "poll" /\ (FinishTop(w, "canceled") \/ UNCHANGED <<rt, status, published>>)
    BY <1>8 DEF Poll, At, jobVars
  <2> QED
    BY <2>1, FinishTopAdvances, CalmAdvances DEF Terminal
<1>9. CASE Spawn(w)
  <2> DEFINE k == Head(prog[Top(w).job]).job
  <2>1. k \in Job
    BY <1>9, QuantumFacts DEF Spawn
  <2>2. /\ UNCHANGED rt
        /\ \/ UNCHANGED <<status, published>>
           \/ ~Closed /\ status[k] = "new" /\ Enqueue(k)
    BY <1>9 DEF Spawn, jobVars
  <2> HIDE DEF k
  <2> QED
    BY <1>1, <2>1, <2>2, CalmAdvances, EnqueueAdvances
<1>10. CASE EndProgram(w)
  <2>1. Top(w).pc = "exec" /\ (FinishTop(w, "aborted") \/ UNCHANGED <<rt, status, published>>)
    BY <1>10 DEF EndProgram, At, jobVars
  <2> QED
    BY <2>1, FinishTopAdvances, CalmAdvances DEF Terminal
<1>11. CASE Claim(w)
  <2>1. Top(w).pc = "claim" /\ Top(w).job \in Job
    BY <1>11, TopFacts DEF Claim, At
  <2>2. CASE ~Closed /\ status[Top(w).job] = "running"
    <3>1. /\ status' = [status EXCEPT ![Top(w).job] = "committing"]
          /\ UNCHANGED <<rt, published>>
      BY <1>11, <2>2 DEF Claim
    <3> QED
      BY <1>1, <2>1, <2>2, <3>1 DEF Advances, Change, Closed
  <2>3. CASE ~(~Closed /\ status[Top(w).job] = "running")
    <3>1. FinishTop(w, "canceled") \/ FinishTop(w, "aborted")
      BY <1>11, <2>3 DEF Claim
    <3> QED
      BY <2>1, <3>1, FinishTopAdvances DEF Terminal
  <2> QED
    BY <2>2, <2>3
<1>12. CASE Commit(w)
  <2>1. Top(w).pc = "commit" /\ Top(w).job \in Job /\ Standing(Top(w), status, published)
    BY <1>12, TopFacts DEF Commit, At
  <2>2. status[Top(w).job] = "committing"
    BY <2>1 DEF Standing
  <2>3. /\ UNCHANGED <<rt, status>>
        /\ UNCHANGED published \/ published' = published \cup {Top(w).job}
    BY <1>12 DEF Commit
  <2> QED
    BY <2>1, <2>2, <2>3, CalmAdvances DEF Publishes
<1> QED
  BY <1>2, <1>3, <1>4, <1>5, <1>6, <1>7, <1>8, <1>9, <1>10, <1>11, <1>12 DEF WorkerStep

(* So does every step.                                                       *)
LEMMA StepAdvances ==
    ASSUME IInv, [Next]_vars
    PROVE  Advances \/ Publishes
<1>1. TypeOK
  BY DEF IInv
<1>2. CASE \E w \in Worker : WorkerStep(w)
  BY <1>2, WorkerAdvances
<1>3. CASE \/ Delivery \/ \E j \in Job : HostAnswers(j) \/ CallWaker(j)
           \/ \E c \in Client : Call(c) \/ Check(c)
           \/ UNCHANGED vars
  <2>1. UNCHANGED <<rt, status, published>>
    BY <1>3 DEF Delivery, DeliverOne, DeliverWork, DeliverTerm, HostAnswers, CallWaker, Call,
                Check, vars, jobVars
  <2> QED
    BY <2>1, CalmAdvances
<1>4. ASSUME NEW j \in Job, Submit(j)
      PROVE  Advances
  BY <1>1, <1>4, EnqueueAdvances DEF Submit
<1>5. ASSUME NEW j \in Job, Cancel(j)
      PROVE  Advances
  <2>1. /\ UNCHANGED rt
        /\ \/ status[j] = "queued" /\ End({j}, "canceled")
           \/ UNCHANGED <<status, published>>
    BY <1>5 DEF Cancel, jobVars
  <2>2. CASE UNCHANGED <<status, published>>
    BY <2>1, <2>2, CalmAdvances
  <2>3. CASE status[j] = "queued" /\ End({j}, "canceled")
    BY <1>1, <2>1, <2>3, EndAdvances DEF Terminal, Closed
  <2> QED
    BY <2>1, <2>2, <2>3
<1>6. CASE Shutdown
  <2>1. End({j \in Job : status[j] = "queued"}, "canceled") /\ rt' = "closed"
    BY <1>6 DEF Shutdown
  <2> QED
    BY <1>1, <2>1, EndAdvances DEF Terminal, Closed
<1> QED
  BY <1>2, <1>3, <1>4, <1>5, <1>6 DEF Next

(* The phase is a function of the status.                                    *)
PhaseFor(s) == CASE s = "committing" -> "publishing"
                 [] s = "aborted"    -> "failed"
                 [] OTHER            -> s

(* The phase before and after a step is that of the status.                  *)
LEMMA PhaseIsFor ==
    ASSUME NEW j \in Job
    PROVE  PhaseOf(j) = PhaseFor(status[j]) /\ PhaseOf(j)' = PhaseFor(status'[j])
BY DEF PhaseOf, PhaseFor

(* A step is a step of the abstract lifecycle, or leaves it alone.           *)
LEMMA PhasesFollow ==
    ASSUME IInv, IInv', Advances \/ Publishes
    PROVE  [Lifecycle!Next]_(Lifecycle!vars)
<1> DEFINE ph == [j \in Job |-> PhaseOf(j)]
<1>1. /\ status \in [Job -> Statuses] /\ status' \in [Job -> Statuses]
      /\ ph = [j \in Job |-> PhaseFor(status[j])]
      /\ ph' = [j \in Job |-> PhaseFor(status'[j])]
  BY PhaseIsFor DEF IInv, TypeOK, Statuses
<1>2. CASE Advances
  <2>1. published' = published /\ (Closed => Closed') /\ \A j \in Job : Change(j)
    BY <1>2 DEF Advances
  <2>2. ph' \in [Job -> Lifecycle!Phase]
    BY <1>1 DEF Statuses, Terminal, PhaseFor, Lifecycle!Phase, Lifecycle!Terminal
  <2>3. ASSUME NEW j \in Job, ph'[j] # ph[j]
        PROVE  /\ ph'[j] \in Lifecycle!After(ph[j])
               /\ ph'[j] \in {"queued", "publishing"} => ~Closed
               /\ ph'[j] = "completed" => j \in published
    <3>1. Change(j) /\ ph[j] = PhaseFor(status[j]) /\ ph'[j] = PhaseFor(status'[j])
      BY <1>1, <2>1
    <3>2. status'[j] # status[j]
      BY <2>3, <3>1
    <3> HIDE DEF ph
    <3> QED
      BY <3>1, <3>2 DEF Change, PhaseFor, Lifecycle!After, Lifecycle!Terminal
  <2> HIDE DEF ph
  <2>4. Lifecycle!Advance
    BY <2>1, <2>2, <2>3 DEF Lifecycle!Advance, ph
  <2> QED
    BY <2>1, <2>4 DEF Lifecycle!Next
<1>3. CASE Publishes
  <2>1. PICK j \in Job : status[j] = "committing" /\ published' = published \cup {j}
    BY <1>3 DEF Publishes
  <2>2. UNCHANGED <<status, rt>>
    BY <1>3 DEF Publishes
  <2>3. PhaseOf(j) = "publishing" /\ (\A k \in Job : PhaseOf(k)' = PhaseOf(k))
        /\ (~Closed)' = ~Closed
    BY <2>1, <2>2 DEF PhaseOf, Closed
  <2>4. Lifecycle!Publish
    BY <2>1, <2>3 DEF Lifecycle!Publish
  <2> QED
    BY <2>4 DEF Lifecycle!Next
<1> QED
  BY <1>2, <1>3

(* The pool with its nested frames implements the lifecycle of a job: jobs   *)
(* go forward through their phases, are admitted and claimed only by an open *)
(* runtime, and are completed only after their write-set is published, also  *)
(* when panics, cancellations and a shutdown come between any two steps      *)
(* (start_job, claim_terminal and finish_job of jobs/worker.rs).             *)
THEOREM PoolRefinesLifecycle == Spec => ImplementsLifecycle
<1>1. Init => Lifecycle!Init
  BY DEF Init, Lifecycle!Init, PhaseOf, Closed
<1>2. IInv /\ IInv' /\ [Next]_vars => [Lifecycle!Next]_(Lifecycle!vars)
  BY StepAdvances, PhasesFollow
<1> QED
  BY <1>1, <1>2, PlacesInvariant, PTL DEF Spec, ImplementsLifecycle, Lifecycle!Spec

-----------------------------------------------------------------------------
(* No wake-up is lost.                                                       *)

(* The top frame of a thread after a step of the thread.  It begins with the *)
(* present wake_epoch or keeps what it has seen, unless it looks again.      *)
Proceeds(w, f) ==
    /\ \/ NewTop(w, f) /\ (f.stale = Top(w).stale \/ f.stale = bumped \/ Recheck(w))
       \/ Pushed(w, f) /\ f.stale = bumped
       \/ Popped(w, f) /\ f.stale = stack[w][Len(stack[w]) - 1].stale
    /\ f.pc = "asleep" => Sleep(w)
    /\ f.pc = "exited" => Closed'
    /\ f.pc = "park" => host'[f.job] # "done"

Hows == {"", "completed", "failed"}

Frames == [pc : PCs, job : Job \cup {NoJob}, how : Hows, stale : BOOLEAN]

(* A frame, with names for the sets of its program counters and outcomes.    *)
LEMMA FrameIs == Frame = Frames /\ {"completed", "failed"} \subseteq Hows
<1>1. Frame = Frames
  BY DEF Frame, Frames, PCs, Hows
<1>2. {"completed", "failed"} \subseteq Hows
  BY Zenon DEF Hows
<1> QED
  BY <1>1, <1>2

(* A frame that gives its job away goes back to the loop.                    *)
LEMMA IdleProceeds ==
    ASSUME IInv, NEW w \in Worker, SetTop(w, Idle(Top(w)))
    PROVE  \E f \in Frame : Proceeds(w, f)
<1> DEFINE f == Idle(Top(w))
<1>1. TypeOK /\ Top(w) \in Frame
  BY TopFacts
<1>2. f \in Frame /\ f.pc = "loop" /\ f.stale = Top(w).stale
  BY <1>1, FrameTypes
<1> HIDE DEF f
<1>3. NewTop(w, f)
  BY <1>1, <1>2, SetTopIs DEF f
<1> QED
  BY <1>2, <1>3 DEF Proceeds

(* A frame that only moves.                                                  *)
LEMMA GotoProceeds ==
    ASSUME IInv, NEW w \in Worker, NEW pc \in PCs, Goto(w, pc),
           pc = "asleep" => Sleep(w), pc = "exited" => Closed', pc # "park"
    PROVE  \E f \in Frame : Proceeds(w, f)
<1>1. PICK f \in Frame : Moves(w, f, pc)
  BY GotoIs, TopFacts
<1> QED
  BY <1>1 DEF Moves, Proceeds

(* A frame that stays where it is.                                           *)
LEMMA SameProceeds ==
    ASSUME IInv, NEW w \in Worker, UNCHANGED stack, Top(w).pc = "exec"
    PROVE  \E f \in Frame : Proceeds(w, f)
<1>1. Top(w) \in Frame /\ NewTop(w, Top(w))
  BY TopFacts, SameTop
<1> QED
  BY <1>1 DEF Proceeds

(* A frame that is replaced.                                                 *)
LEMMA SetProceeds ==
    ASSUME IInv, NEW w \in Worker, NEW f, SetTop(w, f), f \in Frame,
           f.stale = Top(w).stale \/ f.stale = bumped \/ Recheck(w),
           f.pc = "exited" => Closed', f.pc \notin {"asleep", "park"}
    PROVE  \E g \in Frame : Proceeds(w, g)
<1>1. NewTop(w, f)
  BY SetTopIs, TopFacts
<1> QED
  BY <1>1 DEF Proceeds

(* Every step of a thread leaves it with such a top frame.                   *)
LEMMA WorkerFrame ==
    ASSUME IInv, NEW w \in Worker, WorkerStep(w)
    PROVE  \E f \in Frame : Proceeds(w, f)
<1>1. TypeOK /\ Top(w) \in Frame /\ Top(w) \in Frames
  BY TopFacts, FrameIs
<1>2. CASE \/ EndQuantum(w) \/ Park(w) \/ PrepareFails(w) \/ Finish(w)
           \/ \E st \in Terminal : FinishTop(w, st)
  <2>1. SetTop(w, Idle(Top(w)))
    BY <1>2 DEF EndQuantum, Park, PrepareFails, Finish, FinishTop
  <2> QED
    BY <2>1, IdleProceeds
<1>3. CASE Sleep(w) \/ LoadCatalog(w) \/ Prepare(w)
  <2>1. \E pc \in PCs : Goto(w, pc) /\ pc \notin {"exited", "park"} /\ (pc = "asleep" => Sleep(w))
    BY <1>3 DEF Sleep, LoadCatalog, Prepare, PCs
  <2> QED
    BY <2>1, GotoProceeds
<1>4. CASE LoadFails(w) \/ Exit(w)
  <2>1. Goto(w, "exited") /\ Closed'
    BY <1>4 DEF LoadFails, Exit, Closed
  <2>2. "exited" \in PCs
    BY DEF PCs
  <2> QED
    BY <2>1, <2>2, GotoProceeds
<1>5. CASE Start(w)
  <2>1. Goto(w, "prepare") \/ SetTop(w, Idle(Top(w)))
    BY <1>5 DEF Start
  <2>2. "prepare" \in PCs
    BY DEF PCs
  <2> QED
    BY <2>1, <2>2, GotoProceeds, IdleProceeds
<1>6. CASE Poll(w) \/ Claim(w)
  <2>1. Goto(w, "exec") \/ Goto(w, "commit") \/ SetTop(w, Idle(Top(w)))
    BY <1>6 DEF Poll, Claim, FinishTop
  <2>2. "exec" \in PCs /\ "commit" \in PCs
    BY DEF PCs
  <2> QED
    BY <2>1, <2>2, GotoProceeds, IdleProceeds
<1>7. CASE Commit(w)
  <2>1. Goto(w, "finish") \/ SetTop(w, [Top(w) EXCEPT !.pc = "finish", !.how = "failed"])
    BY <1>7 DEF Commit
  <2>2. "finish" \in PCs
    BY DEF PCs
  <2> DEFINE f == [Top(w) EXCEPT !.pc = "finish", !.how = "failed"]
  <2>4. /\ Goto(w, "finish") \/ SetTop(w, f)
    BY <2>1
  <2>5. f \in Frames /\ f.pc = "finish" /\ f.stale = Top(w).stale
    BY <1>1, <2>2, FrameIs DEF Frames
  <2> HIDE DEF f
  <2>3. f \in Frame /\ f.pc = "finish" /\ f.stale = Top(w).stale
    BY <2>5, FrameIs
  <2> QED
    BY <2>2, <2>3, <2>4, GotoProceeds, SetProceeds
<1>8. CASE EndProgram(w)
  <2>1. CASE FinishTop(w, "aborted")
    BY <2>1, IdleProceeds DEF FinishTop
  <2>2. ASSUME NEW how \in Outcome \ {"panic"},
               SetTop(w, [Top(w) EXCEPT !.pc = "claim", !.how = how])
        PROVE  \E f \in Frame : Proceeds(w, f)
    <3> DEFINE f == [Top(w) EXCEPT !.pc = "claim", !.how = how]
    <3>1. how \in {"completed", "failed"} /\ "claim" \in PCs
      BY PoolAssumption DEF PCs
    <3>2. SetTop(w, f)
      BY <2>2
    <3>3. f \in Frames /\ f.pc = "claim" /\ f.stale = Top(w).stale
      BY <1>1, <3>1, FrameIs DEF Frames
    <3> HIDE DEF f
    <3> QED
      BY <3>2, <3>3, SetProceeds, FrameIs
  <2>3. \/ FinishTop(w, "aborted")
        \/ \E how \in Outcome \ {"panic"} :
              SetTop(w, [Top(w) EXCEPT !.pc = "claim", !.how = how])
    BY <1>8, Zenon DEF EndProgram
  <2> QED
    BY <2>1, <2>2, <2>3, Zenon
<1>9. CASE PickResident(w)
  <2> DEFINE i == FirstRunnable(w)
             f == [Top(w) EXCEPT !.pc = "poll", !.job = residents[w][i].job]
  <2>1. SetTop(w, f)
    BY <1>9 DEF PickResident
  <2>2. i \in 1..Len(residents[w])
    BY <1>1, <1>9, FirstRunnableIs DEF PickResident
  <2>3. residents[w][i].job \in Job
    BY <1>1, <2>2, ResidentFacts
  <2> HIDE DEF i
  <2>4. f \in Frames /\ f.pc = "poll" /\ f.stale = Top(w).stale
    BY <1>1, <2>3 DEF Frames, PCs
  <2> HIDE DEF f
  <2>5. f \in Frame /\ f.pc = "poll" /\ f.stale = Top(w).stale
    BY <2>4, FrameIs
  <2> QED
    BY <2>1, <2>5, SetProceeds
<1>10. CASE PopQueue(w)
  <2> DEFINE pc == IF Helping(w) \/ w \in loaded THEN "start" ELSE "load"
             j == Head(queue)
             f == [Top(w) EXCEPT !.job = j, !.pc = pc]
  <2>1. SetTop(w, f) /\ queue # <<>>
    BY <1>10 DEF PopQueue
  <2>2. j \in Job
    BY <1>1, <2>1, QueueFacts, HeadTailProperties
  <2>3. pc \in PCs /\ pc \in {"start", "load"}
    BY DEF PCs
  <2> HIDE DEF pc, j
  <2>4. f \in Frames /\ f.pc = pc /\ f.stale = Top(w).stale
    BY <1>1, <2>2, <2>3 DEF Frames
  <2> HIDE DEF f
  <2>5. f \in Frame /\ f.pc = pc /\ f.stale = Top(w).stale
    BY <2>4, FrameIs
  <2> QED
    BY <2>1, <2>3, <2>5, SetProceeds
<1>11. CASE Recheck(w)
  <2> DEFINE j == residents[w][1].job
             f == [Top(w) EXCEPT !.pc = "poll", !.stale = FALSE, !.job = j]
  <2>1. SetTop(w, f) /\ residents[w] # <<>>
    BY <1>11 DEF Recheck
  <2>2. j \in Job
    <3>1. Len(residents[w]) \in Nat /\ Len(residents[w]) # 0
      BY <1>1, <2>1, ResidentFacts
    <3>2. 1 \in 1..Len(residents[w])
      BY <3>1
    <3> QED
      BY <1>1, <3>2, ResidentFacts
  <2> HIDE DEF j
  <2>4. f \in Frames /\ f.pc = "poll"
    BY <1>1, <2>2 DEF Frames, PCs
  <2> HIDE DEF f
  <2>3. f \in Frame /\ f.pc = "poll"
    BY <2>4, FrameIs
  <2> QED
    BY <1>11, <2>1, <2>3, SetProceeds
<1>12. CASE Spawn(w)
  BY <1>12, QuantumFacts, SameProceeds DEF Spawn
<1>13. CASE HostCall(w)
  <2> DEFINE j == Top(w).job
  <2>1. Top(w).pc = "exec" /\ j \in Job
    BY <1>13, QuantumFacts DEF HostCall
  <2>2. CASE host[j] = "done"
    <3>1. UNCHANGED stack
      BY <1>13, <2>2 DEF HostCall
    <3> QED
      BY <2>1, <3>1, SameProceeds
  <2>3. CASE host[j] # "done"
    <3>1. host' = [host EXCEPT ![j] = "pending"] /\ Goto(w, "park")
      BY <1>13, <2>3 DEF HostCall
    <3>2. host'[j] = "pending"
      BY <1>1, <2>1, <3>1 DEF TypeOK
    <3>3. PICK f \in Frame : Moves(w, f, "park")
      BY <1>1, <3>1, GotoIs DEF PCs
    <3> QED
      BY <3>2, <3>3 DEF Moves, Proceeds
  <2> QED
    BY <2>2, <2>3
<1>14. CASE Wait(w)
  <2>1. Top(w).pc = "exec"
    BY <1>14, QuantumFacts DEF Wait
  <2>2. UNCHANGED stack \/ stack' = [stack EXCEPT ![w] = Append(@, NewFrame)]
    BY <1>14 DEF Wait
  <2>3. CASE UNCHANGED stack
    BY <2>1, <2>3, SameProceeds
  <2>4. CASE stack' = [stack EXCEPT ![w] = Append(@, NewFrame)]
    <3>1. NewFrame \in Frame /\ NewFrame.pc = "loop" /\ NewFrame.stale = bumped
      BY <1>1, FrameTypes
    <3>2. Pushed(w, NewFrame)
      BY <1>1, <2>4, <3>1, PushIs
    <3> QED
      BY <3>1, <3>2 DEF Proceeds
  <2> QED
    BY <2>2, <2>3, <2>4
<1>15. CASE Return(w)
  <2>1. PICK f \in Frame : /\ Popped(w, f) /\ f.pc \in {"poll", "exec"}
                           /\ f.stale = stack[w][Len(stack[w]) - 1].stale
    BY <1>15, ReturnIs
  <2> QED
    BY <2>1 DEF Proceeds
<1>16. CASE Panic(w)
  <2>1. CASE Helping(w)
    <3>1. PICK f \in Frame : /\ Popped(w, f) /\ f.pc = "loop"
                             /\ f.stale = stack[w][Len(stack[w]) - 1].stale
      BY <1>16, <2>1, NestedPanicIs
    <3> QED
      BY <3>1 DEF Proceeds
  <2>2. CASE ~Helping(w)
    <3> DEFINE n == IF w \in progress THEN 1 ELSE panics[w] + 1
               last == n = PanicLimit
               f == IF last THEN [NewFrame EXCEPT !.pc = "exited"] ELSE NewFrame
    <3>1. SetTop(w, f) /\ rt' = IF last THEN "broken" ELSE rt
      BY <1>16, <2>2 DEF Panic
    <3>2. NewFrame \in Frame /\ NewFrame.stale = bumped /\ NewFrame.pc = "loop"
      BY <1>1, FrameTypes
    <3> HIDE DEF last
    <3>5. NewFrame \in Frames
      BY <3>2, FrameIs
    <3>6. /\ f \in Frames /\ f.stale = bumped
          /\ f.pc \in {"loop", "exited"} /\ (f.pc = "exited" => last)
      BY <3>2, <3>5 DEF Frames, PCs
    <3> HIDE DEF f
    <3>3. /\ f \in Frame /\ f.stale = bumped
          /\ f.pc \in {"loop", "exited"} /\ (f.pc = "exited" => last)
      BY <3>6, FrameIs
    <3>4. f.pc = "exited" => Closed'
      BY <3>1, <3>3 DEF Closed
    <3> HIDE DEF f
    <3> QED
      BY <3>1, <3>3, <3>4, SetProceeds
  <2> QED
    BY <2>1, <2>2
<1> QED
  BY <1>2, <1>3, <1>4, <1>5, <1>6, <1>7, <1>8, <1>9, <1>10, <1>11, <1>12, <1>13, <1>14, <1>15,
     <1>16 DEF WorkerStep

(* The end of a program changes nothing but the job and its frame.           *)
LEMMA EndProgramLeaves ==
    ASSUME NEW w \in Worker, EndProgram(w)
    PROVE  /\ UNCHANGED <<cancelReq, ringing, bumped, client, prog, host, residents>>
           /\ UNCHANGED <<rt, jobVars, signals>> \/ FinishTop(w, "aborted")
<1>1. CASE FinishTop(w, "aborted")
  BY <1>1 DEF FinishTop
<1>2. ASSUME NEW how \in Outcome \ {"panic"},
             SetTop(w, [Top(w) EXCEPT !.pc = "claim", !.how = how]),
             UNCHANGED <<rt, jobVars, cancelReq, prog, host, ringing, residents,
                         loaded, progress, panics, bumped, signals, client>>
      PROVE  /\ UNCHANGED <<cancelReq, ringing, bumped, client, prog, host, residents>>
             /\ UNCHANGED <<rt, jobVars, signals>>
  BY <1>2
<1>3. \/ FinishTop(w, "aborted")
      \/ \E how \in Outcome \ {"panic"} :
            /\ SetTop(w, [Top(w) EXCEPT !.pc = "claim", !.how = how])
            /\ UNCHANGED <<rt, jobVars, cancelReq, prog, host, ringing, residents,
                           loaded, progress, panics, bumped, signals, client>>
  BY Zenon DEF EndProgram
<1> QED
  BY <1>1, <1>2, <1>3, Zenon

(* What a thread leaves alone.                                               *)
LEMMA WorkerLeaves ==
    ASSUME NEW w \in Worker, WorkerStep(w)
    PROVE  UNCHANGED <<cancelReq, ringing, bumped, client>>
<1>1. CASE \/ Return(w) \/ Exit(w) \/ PickResident(w) \/ PopQueue(w) \/ Recheck(w) \/ Sleep(w)
           \/ LoadCatalog(w) \/ LoadFails(w) \/ Start(w) \/ Prepare(w) \/ Panic(w)
  BY <1>1 DEF Return, Exit, PickResident, PopQueue, Recheck, Sleep, LoadCatalog, LoadFails,
              Start, Prepare, Panic
<1>2. CASE \/ EndQuantum(w) \/ HostCall(w) \/ Park(w) \/ Spawn(w) \/ Wait(w) \/ Commit(w)
  BY <1>2 DEF EndQuantum, HostCall, Park, Spawn, Wait, Commit
<1>3. CASE PrepareFails(w) \/ Poll(w) \/ Claim(w) \/ Finish(w)
  BY <1>3 DEF PrepareFails, Poll, Claim, Finish, FinishTop
<1>4. CASE EndProgram(w)
  BY <1>4, EndProgramLeaves
<1> QED
  BY <1>1, <1>2, <1>3, <1>4 DEF WorkerStep

(* No thread answers a host operation, and only a thread at its wait or in   *)
(* the quantum of a job consumes an operation of a program.                  *)
LEMMA WorkerConsumes ==
    ASSUME IInv, NEW w \in Worker, WorkerStep(w)
    PROVE  /\ \A j \in Job : host'[j] = "done" => host[j] = "done"
           /\ \A j \in Job : prog'[j] = prog[j] \/ j = Top(w).job
                             \/ (Helping(w) /\ j = Parent(w))
<1>1. /\ prog \in [Job -> Seq(Op)] /\ host \in [Job -> {"idle", "pending", "done"}]
  BY TopFacts
<1>2. CASE \/ Exit(w) \/ PickResident(w) \/ PopQueue(w) \/ Recheck(w) \/ Sleep(w)
           \/ LoadCatalog(w) \/ LoadFails(w) \/ Start(w) \/ Prepare(w) \/ Panic(w)
  <2>1. UNCHANGED <<prog, host>>
    BY <1>2 DEF Exit, PickResident, PopQueue, Recheck, Sleep, LoadCatalog, LoadFails,
                Start, Prepare, Panic
  <2> QED
    BY <2>1
<1>3. CASE \/ PrepareFails(w) \/ Poll(w) \/ EndProgram(w) \/ Claim(w) \/ Finish(w)
           \/ Park(w) \/ Commit(w)
  <2>1. CASE PrepareFails(w) \/ Poll(w) \/ Claim(w) \/ Finish(w) \/ Park(w) \/ Commit(w)
    <3>1. UNCHANGED <<prog, host>>
      BY <2>1 DEF PrepareFails, Poll, Claim, Finish, FinishTop, Park, Commit
    <3> QED
      BY <3>1
  <2>2. CASE EndProgram(w)
    BY <2>2, EndProgramLeaves
  <2> QED
    BY <1>3, <2>1, <2>2
<1>4. CASE Return(w)
  <2>1. Consume(Parent(w)) /\ UNCHANGED host /\ Helping(w)
    BY <1>4 DEF Return
  <2> QED
    BY <1>1, <2>1 DEF Consume
<1>5. CASE EndQuantum(w) \/ Spawn(w) \/ Wait(w)
  <2>1. (Consume(Top(w).job) \/ UNCHANGED prog) /\ UNCHANGED host
    BY <1>5 DEF EndQuantum, Spawn, Wait
  <2> QED
    BY <1>1, <2>1 DEF Consume
<1>6. CASE HostCall(w)
  <2>1. /\ Consume(Top(w).job) \/ UNCHANGED prog
        /\ \/ host' = [host EXCEPT ![Top(w).job] = "idle"]
           \/ host' = [host EXCEPT ![Top(w).job] = "pending"]
    BY <1>6 DEF HostCall
  <2> QED
    BY <1>1, <2>1 DEF Consume
<1> QED
  BY <1>2, <1>3, <1>4, <1>5, <1>6 DEF WorkerStep

(* A resident that waits waited before, or its thread parks it now.          *)
LEMMA WorkerResidents ==
    ASSUME IInv, NEW w \in Worker, WorkerStep(w)
    PROVE  /\ \A v \in Worker : v # w => residents'[v] = residents[v]
           /\ \A i \in 1..Len(residents'[w]) :
                 residents'[w][i].waiting =>
                    /\ ~Recheck(w)
                    /\ \/ \E k \in 1..Len(residents[w]) : residents[w][k] = residents'[w][i]
                       \/ At(w, "park") /\ residents'[w][i].job = Top(w).job
<1> DEFINE R == [job : Job, waiting : BOOLEAN]
<1>1. /\ TypeOK /\ residents \in [Worker -> Seq(R)] /\ residents[w] \in Seq(R)
      /\ Len(residents[w]) \in Nat
  BY TopFacts, ResidentFacts DEF TypeOK
<1>2. CASE UNCHANGED residents /\ ~Recheck(w)
  BY <1>2
<1>3. CASE residents' = [residents EXCEPT ![w] = <<>>]
  <2>1. residents'[w] = <<>> /\ \A v \in Worker : v # w => residents'[v] = residents[v]
    BY <1>1, <1>3
  <2>2. Len(residents'[w]) = 0
    BY <2>1, EmptySeq
  <2>3. 1..Len(residents'[w]) = {}
    BY <2>2
  <2> QED
    BY <2>1, <2>3
<1>4. CASE PickResident(w)
  <2> DEFINE i == FirstRunnable(w)
             s == RemoveAt(residents[w], i)
  <2>1. residents' = [residents EXCEPT ![w] = s] /\ Runnable(w) # {}
    BY <1>4 DEF PickResident
  <2>2. i \in 1..Len(residents[w])
    BY <1>1, <2>1, FirstRunnableIs
  <2>3. /\ s \in Seq(R) /\ Len(s) = Len(residents[w]) - 1
        /\ \A k \in 1..Len(residents[w]) - 1 :
              s[k] = IF k < i THEN residents[w][k] ELSE residents[w][k + 1]
    BY <1>1, <2>2, RemoveAtIs
  <2>4. ~Recheck(w)
    BY <1>4 DEF PickResident, Recheck
  <2> HIDE DEF s, i, R
  <2>5. residents'[w] = s /\ \A v \in Worker : v # w => residents'[v] = residents[v]
    BY <1>1, <2>1
  <2>6. ASSUME NEW k \in 1..Len(s)
        PROVE  \E l \in 1..Len(residents[w]) : residents[w][l] = s[k]
    <3>1. k \in 1..Len(residents[w]) - 1 /\ k \in 1..Len(residents[w])
          /\ k + 1 \in 1..Len(residents[w])
      BY <1>1, <2>3, <2>6
    <3> QED
      BY <2>3, <3>1
  <2> QED
    BY <2>4, <2>5, <2>6
<1>5. CASE Recheck(w)
  <2> DEFINE s == [i \in 1..(Len(residents[w]) - 1) |->
                      [job |-> residents[w][i + 1].job, waiting |-> FALSE]]
             n == Len(residents[w]) - 1
  <2>1. residents' = [residents EXCEPT ![w] = s] /\ residents[w] # <<>>
    BY <1>5 DEF Recheck
  <2>2. \A i \in 1..n : s[i].waiting = FALSE
    OBVIOUS
  <2>3. n \in Nat /\ DOMAIN s = 1..n
    BY <1>1, <2>1, ResidentFacts
  <2>4. s \in Seq(R)
    <3>1. \A i \in 1..n : s[i] \in R
      <4> TAKE i \in 1..n
      <4>1. i + 1 \in 1..Len(residents[w])
        BY <1>1, <2>3
      <4>2. residents[w][i + 1].job \in Job
        BY <1>1, <4>1, ResidentFacts
      <4> QED
        BY <4>2
    <3>2. s \in [1..n -> R]
      BY <3>1
    <3> HIDE DEF s, R, n
    <3> QED
      BY <2>3, <3>2, SeqDef
  <2> HIDE DEF s, n
  <2>5. Len(s) = n
    BY <2>3, <2>4, LenProperties
  <2>6. residents'[w] = s /\ \A v \in Worker : v # w => residents'[v] = residents[v]
    BY <1>1, <2>1
  <2> QED
    BY <2>2, <2>5, <2>6
<1>6. ASSUME NEW r \in R, residents' = [residents EXCEPT ![w] = Append(@, r)], ~Recheck(w),
             r.waiting => At(w, "park") /\ r.job = Top(w).job
      PROVE  /\ \A v \in Worker : v # w => residents'[v] = residents[v]
             /\ \A i \in 1..Len(residents'[w]) :
                   residents'[w][i].waiting =>
                      /\ ~Recheck(w)
                      /\ \/ \E k \in 1..Len(residents[w]) : residents[w][k] = residents'[w][i]
                         \/ At(w, "park") /\ residents'[w][i].job = Top(w).job
  <2> DEFINE s == Append(residents[w], r)
             n == Len(residents[w])
  <2> HIDE DEF R
  <2>1. /\ Len(s) = n + 1 /\ s[n + 1] = r
        /\ \A i \in 1..n : s[i] = residents[w][i]
    BY <1>1, AppendProperties
  <2>2. residents'[w] = s /\ \A v \in Worker : v # w => residents'[v] = residents[v]
    BY <1>1, <1>6
  <2> HIDE DEF s, n
  <2>3. n \in Nat /\ n = Len(residents[w])
    BY <1>1 DEF n
  <2>4. \A i \in 1..Len(s) : i \in 1..n \/ i = n + 1
    BY <2>1, <2>3
  <2> QED
    BY <1>6, <2>1, <2>2, <2>3, <2>4
<1>7. CASE EndQuantum(w)
  <2> DEFINE r == [job |-> Top(w).job, waiting |-> FALSE]
  <2>1. residents' = [residents EXCEPT ![w] = Append(@, r)] /\ At(w, "exec")
    BY <1>7 DEF EndQuantum, Quantum
  <2>2. Top(w).job \in Job
    BY <1>7, QuantumFacts DEF EndQuantum
  <2>3. ~Recheck(w)
    BY <2>1 DEF Recheck, Looping, At
  <2>4. r \in R /\ ~r.waiting
    BY <2>2
  <2> HIDE DEF r, R
  <2> QED
    BY <1>6, <2>1, <2>3, <2>4
<1>8. CASE Park(w)
  <2> DEFINE r == [job |-> Top(w).job, waiting |-> TRUE]
  <2>1. residents' = [residents EXCEPT ![w] = Append(@, r)] /\ At(w, "park")
    BY <1>8 DEF Park
  <2>2. Top(w).job \in Job
    BY <2>1, TopFacts DEF At
  <2>3. ~Recheck(w)
    BY <2>1 DEF Recheck, Looping, At
  <2>4. r \in R /\ r.job = Top(w).job
    BY <2>2
  <2> HIDE DEF r, R
  <2> QED
    BY <1>6, <2>1, <2>3, <2>4
<1>9. CASE Exit(w)
  BY <1>3, <1>9 DEF Exit
<1>10. CASE Panic(w)
  <2>1. ~Recheck(w)
    BY <1>10 DEF Panic, Recheck, Looping, At
  <2>2. UNCHANGED residents \/ residents' = [residents EXCEPT ![w] = <<>>]
    BY <1>10 DEF Panic
  <2> QED
    BY <1>2, <1>3, <2>1, <2>2
<1>11. CASE Return(w) \/ PopQueue(w) \/ Sleep(w)
  <2>1. UNCHANGED residents
    BY <1>11 DEF Return, PopQueue, Sleep
  <2>2. CASE Recheck(w)
    BY <1>5, <2>2
  <2> QED
    BY <1>2, <2>1, <2>2
<1>12. CASE \/ LoadCatalog(w) \/ LoadFails(w) \/ Start(w) \/ Prepare(w) \/ PrepareFails(w)
            \/ Poll(w) \/ EndProgram(w) \/ Claim(w) \/ Finish(w) \/ Commit(w)
  <2>1. UNCHANGED residents
    <3>1. CASE \/ LoadCatalog(w) \/ LoadFails(w) \/ Start(w) \/ Prepare(w) \/ PrepareFails(w)
               \/ Poll(w) \/ Claim(w) \/ Finish(w) \/ Commit(w)
      BY <3>1 DEF LoadCatalog, LoadFails, Start, Prepare, PrepareFails, Poll, Claim,
                  Finish, Commit, FinishTop
    <3>2. CASE EndProgram(w)
      BY <3>2, EndProgramLeaves
    <3> QED
      BY <1>12, <3>1, <3>2
  <2>2. CASE Recheck(w)
    BY <1>5, <2>2
  <2> QED
    BY <1>2, <2>1, <2>2
<1>13. CASE HostCall(w) \/ Spawn(w) \/ Wait(w)
  <2>1. UNCHANGED residents
    BY <1>13 DEF HostCall, Spawn, Wait
  <2>2. CASE Recheck(w)
    BY <1>5, <2>2
  <2> QED
    BY <1>2, <2>1, <2>2
<1> QED
  BY <1>4, <1>5, <1>7, <1>8, <1>9, <1>10, <1>11, <1>12, <1>13 DEF WorkerStep

(* A step announces what others may wait for: the end of a job and of the    *)
(* runtime.  It lets a job into the FIFO only with a notification.           *)
Announces ==
    /\ signals.term => signals'.term
    /\ signals.work => signals'.work
    /\ ~signals'.term => /\ queue = <<>> => queue' = <<>>
                         /\ \A j \in Job : Over(j)' => Over(j)
                         /\ Closed' => Closed
    /\ ~signals'.work => (Closed' => Closed)
    /\ Len(queue') + signals.one <= Len(queue) + signals'.one

(* Every step of a thread announces what it changes.                         *)
LEMMA WorkerAnnounces ==
    ASSUME IInv, NEW w \in Worker, WorkerStep(w)
    PROVE  Announces
<1>1. /\ TypeOK /\ status \in [Job -> Statuses]
      /\ signals \in [one : Nat, work : BOOLEAN, term : BOOLEAN]
      /\ queue \in Seq(Job) /\ Len(queue) \in Nat /\ signals.one \in Nat
  BY TopFacts, QueueFacts
<1>2. ASSUME UNCHANGED <<status, queue, signals>>, Closed' => Closed
      PROVE  Announces
  BY <1>1, <1>2 DEF Over, Announces
<1>3. ASSUME NEW S, NEW st \in Terminal, NEW K, End(S, st), Notify(K), "term" \in K,
             "work" \in K \/ UNCHANGED rt
      PROVE  Announces
  <2>1. Len(queue') \in Nat /\ Len(queue') <= Len(queue)
    BY <1>1, <1>3, EndIs
  <2>2. /\ signals'.one >= signals.one /\ signals'.one \in Nat /\ signals'.term
        /\ signals.work \/ "work" \in K => signals'.work
    BY <1>1, <1>3, NotifyIs
  <2>3. ~signals'.work => (Closed' => Closed)
    BY <1>3, <2>2 DEF Closed
  <2> QED
    BY <1>1, <2>1, <2>2, <2>3 DEF Announces
<1>4. ASSUME NEW st \in Terminal, FinishTop(w, st)
      PROVE  Announces
  <2>1. End({Top(w).job}, st) /\ Notify({"term"}) /\ UNCHANGED rt
    BY <1>4 DEF FinishTop
  <2> QED
    BY <1>3, <2>1
<1>5. ASSUME NEW j \in Job, Enqueue(j), UNCHANGED rt
      PROVE  Announces
  <2>1. /\ Len(queue') = Len(queue) + 1
        /\ signals' = [one |-> signals.one + 1, work |-> signals.work, term |-> TRUE]
    BY <1>1, <1>5, EnqueueIs
  <2> QED
    BY <1>1, <1>5, <2>1 DEF Closed, Announces
<1>6. CASE \/ Return(w) \/ PickResident(w) \/ Recheck(w) \/ Sleep(w) \/ LoadCatalog(w)
           \/ Prepare(w) \/ EndQuantum(w) \/ HostCall(w) \/ Park(w) \/ Wait(w) \/ Commit(w)
  <2>1. UNCHANGED <<status, queue, signals, rt>>
    BY <1>6 DEF Return, PickResident, Recheck, Sleep, LoadCatalog, Prepare, EndQuantum,
                HostCall, Park, Wait, Commit, jobVars
  <2> QED
    BY <1>2, <2>1 DEF Closed
<1>7. CASE Exit(w)
  <2>1. End(JobsOf(w), "canceled") /\ Notify({"term"}) /\ UNCHANGED rt
    BY <1>7 DEF Exit
  <2> QED
    BY <1>3, <2>1 DEF Terminal
<1>8. CASE PopQueue(w)
  <2>1. /\ queue # <<>> /\ queue' = Tail(queue) /\ UNCHANGED <<status, signals, rt>>
    BY <1>8 DEF PopQueue
  <2>2. Len(queue') = Len(queue) - 1
    BY <1>1, <2>1, HeadTailProperties
  <2> QED
    BY <1>1, <2>1, <2>2 DEF Over, Closed, Announces
<1>9. CASE LoadFails(w)
  <2> DEFINE S == IF rt = "closed" THEN {Top(w).job} ELSE Unclaimed
  <2>1. End(S, "aborted") /\ Notify({"term", "work"})
    BY <1>9 DEF LoadFails
  <2> HIDE DEF S
  <2> QED
    BY <1>3, <2>1 DEF Terminal
<1>10. CASE Start(w)
  <2>1. UNCHANGED <<rt, queue>> /\ Top(w).job \in Job
    BY <1>10, TopFacts DEF Start, At
  <2>2. CASE UNCHANGED <<status, signals>>
    <3> QED
      BY <1>2, <2>1, <2>2 DEF Closed
  <2>3. CASE status' = [status EXCEPT ![Top(w).job] = "running"] /\ Notify({"term"})
    <3>1. /\ signals'.one >= signals.one /\ signals'.one \in Nat /\ signals'.term
          /\ signals.work => signals'.work
      BY <1>1, <2>3, NotifyIs
    <3> QED
      BY <1>1, <2>1, <3>1 DEF Closed, Announces
  <2> QED
    BY <1>10, <2>2, <2>3 DEF Start
<1>11. CASE PrepareFails(w) \/ Finish(w) \/ Poll(w) \/ Claim(w) \/ EndProgram(w)
  <2>1. CASE PrepareFails(w)
    BY <1>4, <2>1 DEF PrepareFails, Terminal
  <2>2. CASE Finish(w)
    <3>1. Top(w).pc = "finish" /\ FinishTop(w, Top(w).how)
      BY <2>2 DEF Finish, At
    <3>2. Top(w).how \in Terminal
      BY <3>1, TopFacts DEF Standing, Terminal
    <3> QED
      BY <1>4, <3>1, <3>2
  <2>3. CASE Poll(w)
    <3>1. FinishTop(w, "canceled") \/ UNCHANGED <<rt, status, queue, signals>>
      BY <2>3 DEF Poll, jobVars
    <3> QED
      BY <1>2, <1>4, <3>1 DEF Terminal, Closed
  <2>4. CASE EndProgram(w)
    <3>1. FinishTop(w, "aborted") \/ UNCHANGED <<rt, status, queue, signals>>
      BY <2>4, EndProgramLeaves DEF jobVars
    <3> QED
      BY <1>2, <1>4, <3>1 DEF Terminal, Closed
  <2>5. CASE Claim(w)
    <3>1. CASE ~Closed /\ status[Top(w).job] = "running"
      <4>1. /\ status' = [status EXCEPT ![Top(w).job] = "committing"]
            /\ UNCHANGED <<rt, queue, signals>>
        BY <2>5, <3>1 DEF Claim
      <4>2. \A j \in Job : Over(j)' => Over(j)
        BY <1>1, <4>1 DEF Over, Terminal
      <4> QED
        BY <1>1, <4>1, <4>2 DEF Announces, Closed
    <3>2. CASE ~(~Closed /\ status[Top(w).job] = "running")
      <4>1. FinishTop(w, "canceled") \/ FinishTop(w, "aborted")
        BY <2>5, <3>2 DEF Claim
      <4> QED
        BY <1>4, <4>1 DEF Terminal
    <3> QED
      BY <3>1, <3>2
  <2> QED
    BY <1>11, <2>1, <2>2, <2>3, <2>4, <2>5
<1>12. CASE Panic(w)
  <2>1. CASE Helping(w)
    <3>1. End({Top(w).job, Parent(w)}, "aborted") /\ Notify({"term"}) /\ UNCHANGED rt
      BY <1>12, <2>1 DEF Panic
    <3> QED
      BY <1>3, <3>1 DEF Terminal
  <2>2. CASE ~Helping(w)
    <3> DEFINE n == IF w \in progress THEN 1 ELSE panics[w] + 1
               last == n = PanicLimit
               S == IF last THEN Unclaimed ELSE JobsOf(w) \cup {Top(w).job}
               K == IF last THEN {"term", "work"} ELSE {"term"}
    <3>1. End(S, "aborted") /\ rt' = (IF last THEN "broken" ELSE rt) /\ Notify(K)
      BY <1>12, <2>2 DEF Panic
    <3>2. "term" \in K /\ ("work" \in K \/ UNCHANGED rt)
      BY <3>1
    <3> HIDE DEF S, K
    <3> QED
      BY <1>3, <3>1, <3>2 DEF Terminal
  <2> QED
    BY <2>1, <2>2
<1>13. CASE Spawn(w)
  <2> DEFINE k == Head(prog[Top(w).job]).job
  <2>1. k \in Job
    BY <1>13, QuantumFacts DEF Spawn
  <2>2. UNCHANGED rt /\ (UNCHANGED <<status, queue, signals>> \/ Enqueue(k))
    BY <1>13 DEF Spawn, jobVars
  <2> HIDE DEF k
  <2> QED
    BY <1>2, <1>5, <2>1, <2>2 DEF Closed
<1> QED
  BY <1>6, <1>7, <1>8, <1>9, <1>10, <1>11, <1>12, <1>13 DEF WorkerStep

(* What a thread that sleeps on terminal_watch, or on work_available, may    *)
(* rely on.                                                                  *)
TermRest(v) == /\ ~Closed /\ ~Done(v) /\ queue = <<>>
               /\ residents[v] = <<>> \/ ~Top(v).stale
WorkRest(v) == /\ ~Closed
               /\ residents[v] = <<>> \/ ~Top(v).stale

(* The thread is as it was, and so is the wait it serves.                    *)
Same(v) == /\ stack'[v] = stack[v] /\ residents'[v] = residents[v]
           /\ Helping(v) => prog'[Parent(v)] = prog[Parent(v)]

(* A sleeping nested frame has nothing to do until somebody announces it.    *)
LEMMA RestStays ==
    ASSUME IInv, NEW v \in Worker, Same(v), Helping(v), TermRest(v), UNCHANGED cancelReq,
           queue = <<>> => queue' = <<>>, Closed' => Closed,
           \A j \in Job : Over(j)' => Over(j)
    PROVE  TermRest(v)'
<1>0. PICK op : op = Awaited(v)
  OBVIOUS
<1>1. /\ Parent(v)' = Parent(v) /\ Top(v)' = Top(v) /\ residents'[v] = residents[v]
  BY DEF Same, Parent, Top, Depth
<1>2. Awaited(v)' = op
  BY <1>0, <1>1 DEF Same, Awaited
<1>3. op.jobs \in SUBSET Job
  BY <1>0, ParentFacts
<1>4. ~WaitOver(op) /\ Parent(v) \notin cancelReq
  BY <1>0 DEF TermRest, Done
<1>5. ~WaitOver(op)'
  <2>1. CASE op.all
    BY <1>3, <1>4, <2>1 DEF WaitOver
  <2>2. CASE ~op.all
    BY <1>3, <1>4, <2>2 DEF WaitOver
  <2> QED
    BY <2>1, <2>2
<1>6. ~Done(v)'
  <2>1. Done(v)' <=> (Parent(v)' \in cancelReq' \/ WaitOver(Awaited(v))')
    BY DEF Done
  <2>2. WaitOver(Awaited(v))' <=> WaitOver(op)'
    BY <1>2 DEF WaitOver
  <2> QED
    BY <1>1, <1>4, <1>5, <2>1, <2>2
<1> QED
  BY <1>1, <1>6 DEF TermRest

(* A step keeps the sleepers asleep with a notification to come, or with     *)
(* nothing to do.                                                            *)
LEMMA SleepersStay ==
    ASSUME IInv, SleepersHaveNothingToDo,
           ~signals'.term => /\ queue = <<>> => queue' = <<>>
                             /\ \A j \in Job : Over(j)' => Over(j)
                             /\ Closed' => Closed
                             /\ UNCHANGED cancelReq,
           ~signals'.work => (Closed' => Closed),
           ~signals'.term => \A v \in OnTerm' :
              (v \in OnTerm /\ ~signals.term /\ Same(v)) \/ TermRest(v)',
           ~signals'.work => \A v \in OnWork' :
              (v \in OnWork /\ ~signals.work /\ Same(v)) \/ WorkRest(v)',
           ~signals'.term => \A c \in Client : client'[c] = "asleep" =>
              \/ client[c] = "asleep" /\ ~signals.term
              \/ ~Closed' /\ \E j \in Watch[c] : ~Over(j)'
    PROVE  SleepersHaveNothingToDo'
<1>1. /\ ~signals.term =>
            /\ \A w \in OnTerm : TermRest(w)
            /\ \A c \in Client : client[c] = "asleep" =>
                                   ~Closed /\ \E j \in Watch[c] : ~Over(j)
      /\ ~signals.work => \A w \in OnWork : WorkRest(w)
  BY DEF SleepersHaveNothingToDo, TermRest, WorkRest
<1>2. ASSUME ~signals'.term, NEW v \in OnTerm'
      PROVE  TermRest(v)'
  <2>1. v \in Worker
    BY DEF OnTerm
  <2>2. CASE v \in OnTerm /\ ~signals.term /\ Same(v)
    <3>1. Helping(v) /\ TermRest(v)
      BY <1>1, <2>2 DEF OnTerm
    <3> QED
      BY <1>2, <2>1, <2>2, <3>1, RestStays
  <2> QED
    BY <1>2, <2>2
<1>3. ASSUME ~signals'.work, NEW v \in OnWork'
      PROVE  WorkRest(v)'
  <2>1. CASE v \in OnWork /\ ~signals.work /\ Same(v)
    <3>1. WorkRest(v)
      BY <1>1, <2>1
    <3> QED
      BY <1>3, <2>1, <3>1 DEF WorkRest, Same, Top, Depth
  <2> QED
    BY <1>3, <2>1
<1>4. ASSUME ~signals'.term, NEW c \in Client, client'[c] = "asleep"
      PROVE  ~Closed' /\ \E j \in Watch[c] : ~Over(j)'
  <2>1. CASE client[c] = "asleep" /\ ~signals.term
    <3>1. ~Closed /\ \E j \in Watch[c] : ~Over(j)
      BY <1>1, <2>1
    <3>2. Watch[c] \subseteq Job
      BY PoolAssumption
    <3> QED
      BY <1>4, <3>1, <3>2
  <2> QED
    BY <1>4, <2>1
<1> QED
  BY <1>2, <1>3, <1>4 DEF SleepersHaveNothingToDo, TermRest, WorkRest

(* A thread does not touch the others.                                       *)
LEMMA WorkerSame ==
    ASSUME IInv, NEW w \in Worker, WorkerStep(w), NEW v \in Worker, v # w
    PROVE  Same(v)
<1>1. stack'[v] = stack[v]
  <2>1. PICK f \in Frame : Proceeds(w, f)
    BY WorkerFrame
  <2> QED
    BY <2>1 DEF Proceeds, NewTop, Pushed, Popped
<1>2. residents'[v] = residents[v]
  BY WorkerResidents
<1>3. ASSUME Helping(v)
      PROVE  prog'[Parent(v)] = prog[Parent(v)]
  <2> DEFINE i == Len(stack[v]) - 1
  <2>1. /\ i \in 1..Len(stack[v]) /\ stack[v][i].job = Parent(v) /\ Parent(v) \in Job
    BY <1>3, ParentFacts
  <2> HIDE DEF i
  <2>2. Parent(v) # Top(w).job
    <3>1. Len(stack[w]) \in 1..Len(stack[w]) /\ Top(w) = stack[w][Len(stack[w])]
      BY TopFacts, StackFacts
    <3> QED
      BY <2>1, <3>1, OnlyHere
  <2>3. ASSUME Helping(w)
        PROVE  Parent(v) # Parent(w)
    <3>1. /\ Len(stack[w]) - 1 \in 1..Len(stack[w])
          /\ Parent(w) = stack[w][Len(stack[w]) - 1].job
      BY <2>3, ParentFacts
    <3> QED
      BY <2>1, <3>1, OnlyHere
  <2> QED
    BY <2>1, <2>2, <2>3, WorkerConsumes
<1> QED
  BY <1>1, <1>2, <1>3 DEF Same

(* A thread that goes to sleep has nothing to do.                            *)
LEMMA SleepRests ==
    ASSUME IInv, NEW w \in Worker, Sleep(w)
    PROVE  WorkRest(w)' /\ (Helping(w)' => TermRest(w)')
<1>1. /\ Looping(w) /\ queue = <<>> /\ Goto(w, "asleep")
      /\ residents[w] = <<>> \/ ~Top(w).stale
      /\ UNCHANGED <<rt, status, queue, cancelReq, prog, residents>>
  BY DEF Sleep, jobVars
<1>2. PICK f \in Frame : Moves(w, f, "asleep")
  BY <1>1, GotoIs, TopFacts DEF PCs
<1>3. /\ Top(w)' = f /\ f.stale = Top(w).stale /\ Len(stack'[w]) = Len(stack[w])
  BY <1>2 DEF Moves, NewTop
<1>4. WorkRest(w)'
  BY <1>1, <1>3 DEF WorkRest, Looping, Closed
<1>5. ASSUME Helping(w)'
      PROVE  ~Done(w)'
  <2>1. Helping(w)
    BY <1>3, <1>5 DEF Helping, Depth
  <2>2. ~Done(w)
    BY <1>1, <2>1 DEF Looping
  <2>3. Parent(w)' = Parent(w)
    <3>1. /\ Len(stack[w]) - 1 \in 1..Len(stack[w]) /\ Len(stack[w]) \in Nat
          /\ Len(stack[w]) - 1 # Len(stack[w])
      BY <2>1, ParentFacts
    <3>2. stack'[w][Len(stack[w]) - 1] = stack[w][Len(stack[w]) - 1]
      BY <1>2, <3>1 DEF Moves, NewTop
    <3> QED
      BY <1>3, <3>2 DEF Parent, Depth
  <2>4. Awaited(w)' = Awaited(w)
    BY <1>1, <2>3 DEF Awaited
  <2>5. WaitOver(Awaited(w))' <=> WaitOver(Awaited(w))
    BY <1>1, <2>4 DEF WaitOver, Over
  <2> QED
    BY <1>1, <2>2, <2>3, <2>5 DEF Done
<1> QED
  BY <1>1, <1>4, <1>5 DEF TermRest, WorkRest

(* A step of a thread leaves no sleeper behind with something to do.         *)
LEMMA WorkerRests ==
    ASSUME IInv, SleepersHaveNothingToDo, NEW w \in Worker, WorkerStep(w)
    PROVE  SleepersHaveNothingToDo'
<1>1. UNCHANGED <<cancelReq, client>>
  BY WorkerLeaves
<1>2. Announces
  BY WorkerAnnounces
<1>3. ASSUME At(w, "asleep")'
      PROVE  Sleep(w)
  <2>1. PICK f \in Frame : Proceeds(w, f)
    BY WorkerFrame
  <2>2. Top(w)' = f
    BY <2>1 DEF Proceeds, NewTop, Pushed, Popped
  <2> QED
    BY <1>3, <2>1, <2>2 DEF At, Proceeds
<1>4. ASSUME ~signals'.term, NEW v \in OnTerm'
      PROVE  (v \in OnTerm /\ ~signals.term /\ Same(v)) \/ TermRest(v)'
  <2>1. v \in Worker /\ At(v, "asleep")' /\ Helping(v)'
    BY DEF OnTerm
  <2>2. CASE v = w
    BY <1>3, <2>1, <2>2, SleepRests
  <2>3. CASE v # w
    <3>1. Same(v)
      BY <2>1, <2>3, WorkerSame
    <3>2. v \in OnTerm
      BY <2>1, <3>1 DEF Same, OnTerm, At, Top, Depth, Helping
    <3> QED
      BY <1>2, <1>4, <3>1, <3>2 DEF Announces
  <2> QED
    BY <2>2, <2>3
<1>5. ASSUME ~signals'.work, NEW v \in OnWork'
      PROVE  (v \in OnWork /\ ~signals.work /\ Same(v)) \/ WorkRest(v)'
  <2>1. v \in Worker /\ At(v, "asleep")'
    BY DEF OnWork
  <2>2. CASE v = w
    BY <1>3, <2>1, <2>2, SleepRests
  <2>3. CASE v # w
    <3>1. Same(v)
      BY <2>1, <2>3, WorkerSame
    <3>2. v \in OnWork
      BY <2>1, <3>1 DEF Same, OnWork, At, Top, Depth, Helping
    <3> QED
      BY <1>2, <1>5, <3>1, <3>2 DEF Announces
  <2> QED
    BY <2>2, <2>3
<1>6. ~signals'.term => ~signals.term
  BY <1>2 DEF Announces
<1>7. ~signals'.term => \A c \in Client : client'[c] = "asleep" =>
          \/ client[c] = "asleep" /\ ~signals.term
          \/ ~Closed' /\ \E j \in Watch[c] : ~Over(j)'
  BY <1>1, <1>6
<1>8. /\ ~signals'.term => /\ queue = <<>> => queue' = <<>>
                           /\ \A j \in Job : Over(j)' => Over(j)
                           /\ Closed' => Closed
                           /\ UNCHANGED cancelReq
      /\ ~signals'.work => (Closed' => Closed)
  BY <1>1, <1>2 DEF Announces
<1> QED
  BY <1>4, <1>5, <1>7, <1>8, SleepersStay

(* The frames stay as they are, or some sleepers wake.                       *)
LEMMA StillSame ==
    ASSUME UNCHANGED <<stack, residents, prog>>, NEW v \in Worker
    PROVE  Same(v) /\ (v \in OnTerm' <=> v \in OnTerm) /\ (v \in OnWork' <=> v \in OnWork)
BY DEF Same, OnTerm, OnWork, At, Top, Depth, Helping

(* A woken thread is in the loop, the others are as they were.               *)
LEMMA WokenOrSame ==
    ASSUME TypeOK, NEW S \in SUBSET Worker, Wake(S), UNCHANGED <<residents, prog>>,
           NEW v \in Worker
    PROVE  /\ v \in S => v \notin OnTerm' /\ v \notin OnWork' /\ At(v, "loop")'
           /\ v \notin S => /\ Same(v) /\ Top(v)' = Top(v)
                            /\ v \in OnTerm' <=> v \in OnTerm
                            /\ v \in OnWork' <=> v \in OnWork
<1>1. CASE v \in S
  <2>1. Top(v)' = [Top(v) EXCEPT !.pc = "loop"]
    BY <1>1, WakeIs
  <2>2. Top(v)'.pc = "loop"
    <3>1. Top(v) \in Frames
      BY StackFacts, FrameIs
    <3> QED
      BY <2>1, <3>1 DEF Frames
  <2> QED
    BY <1>1, <2>2 DEF OnTerm, OnWork, At
<1>2. CASE v \notin S
  <2>1. stack'[v] = stack[v]
    BY <1>2 DEF Wake
  <2> QED
    BY <1>2, <2>1 DEF Same, OnTerm, OnWork, At, Top, Depth, Helping
<1> QED
  BY <1>1, <1>2

(* A delivered notification wakes everybody who sleeps on it.                *)
LEMMA DeliveryRests ==
    ASSUME IInv, SleepersHaveNothingToDo, Delivery
    PROVE  SleepersHaveNothingToDo'
<1>1. /\ UNCHANGED <<rt, status, queue, cancelReq, prog, residents>>
      /\ TypeOK
  BY TopFacts DEF Delivery, DeliverOne, DeliverWork, DeliverTerm, jobVars, IInv
<1>2. /\ \A j \in Job : Over(j)' => Over(j)
      /\ Closed' => Closed
  BY <1>1 DEF Over, Closed
<1>3. CASE DeliverOne
  <2>1. /\ signals' = [signals EXCEPT !.one = @ - 1] /\ UNCHANGED client
        /\ UNCHANGED stack \/ \E w \in OnWork : Wake({w})
    BY <1>3 DEF DeliverOne
  <2>2. signals'.term = signals.term /\ signals'.work = signals.work
    BY <1>1, <2>1 DEF TypeOK
  <2>3. \A v \in Worker : (v \in OnTerm' => v \in OnTerm /\ Same(v))
                          /\ (v \in OnWork' => v \in OnWork /\ Same(v))
    <3>1. CASE UNCHANGED stack
      BY <1>1, <3>1, StillSame
    <3>2. ASSUME NEW w \in OnWork, Wake({w})
          PROVE  \A v \in Worker : (v \in OnTerm' => v \in OnTerm /\ Same(v))
                                   /\ (v \in OnWork' => v \in OnWork /\ Same(v))
      <4>1. {w} \in SUBSET Worker
        BY DEF OnWork
      <4> QED
        BY <1>1, <3>2, <4>1, WokenOrSame
    <3> QED
      BY <2>1, <3>1, <3>2
  <2>4. /\ \A v \in OnTerm' : v \in OnTerm /\ Same(v)
        /\ \A v \in OnWork' : v \in OnWork /\ Same(v)
    BY <2>3 DEF OnTerm, OnWork
  <2> QED
    BY <1>1, <1>2, <2>1, <2>2, <2>4, SleepersStay
<1>4. CASE DeliverWork
  <2>1. signals' = [signals EXCEPT !.work = FALSE] /\ UNCHANGED client /\ Wake(OnWork)
    BY <1>4 DEF DeliverWork
  <2>2. signals'.term = signals.term
    BY <1>1, <2>1 DEF TypeOK
  <2>3. OnWork \in SUBSET Worker
    BY DEF OnWork
  <2>4. /\ \A v \in OnTerm' : v \in OnTerm /\ Same(v)
        /\ \A v \in OnWork' : FALSE
    BY <1>1, <2>1, <2>3, WokenOrSame DEF OnTerm, OnWork
  <2> QED
    BY <1>1, <1>2, <2>1, <2>2, <2>4, SleepersStay
<1>5. CASE DeliverTerm
  <2>1. /\ signals' = [signals EXCEPT !.term = FALSE] /\ Wake(OnTerm)
        /\ client' = [c \in Client |-> IF client[c] = "asleep" THEN "check" ELSE client[c]]
    BY <1>5 DEF DeliverTerm
  <2>2. signals'.work = signals.work
    BY <1>1, <2>1 DEF TypeOK
  <2>3. OnTerm \in SUBSET Worker
    BY DEF OnTerm
  <2>4. /\ \A v \in OnWork' : v \in OnWork /\ Same(v)
        /\ \A v \in OnTerm' : FALSE
    BY <1>1, <2>1, <2>3, WokenOrSame DEF OnTerm, OnWork
  <2>5. \A c \in Client : client'[c] # "asleep"
    BY <2>1
  <2> QED
    BY <1>1, <1>2, <2>2, <2>4, <2>5, SleepersStay
<1> QED
  BY <1>3, <1>4, <1>5 DEF Delivery

(* The steps of the transports and of the foreground.                        *)
LEMMA OutsideRests ==
    ASSUME IInv, SleepersHaveNothingToDo,
           \/ \E j \in Job : HostAnswers(j) \/ CallWaker(j) \/ Submit(j) \/ Cancel(j)
           \/ Shutdown
           \/ \E c \in Client : Call(c) \/ Check(c)
           \/ UNCHANGED vars
    PROVE  SleepersHaveNothingToDo'
<1>1. TypeOK /\ signals \in [one : Nat, work : BOOLEAN, term : BOOLEAN]
  BY DEF IInv, TypeOK
<1>2. ASSUME UNCHANGED <<stack, residents, prog>>
      PROVE  /\ \A v \in OnTerm' : v \in OnTerm /\ Same(v)
             /\ \A v \in OnWork' : v \in OnWork /\ Same(v)
  BY <1>2, StillSame DEF OnTerm, OnWork
<1>3. ASSUME signals'.term, signals'.work
      PROVE  SleepersHaveNothingToDo'
  BY <1>3 DEF SleepersHaveNothingToDo
<1>4. ASSUME UNCHANGED <<rt, status, queue, cancelReq, prog, stack, residents, signals>>,
             \A c \in Client : client'[c] = "asleep" =>
                client[c] = "asleep" \/ (~Closed /\ \E j \in Watch[c] : ~Over(j))
      PROVE  SleepersHaveNothingToDo'
  BY <1>4 DEF SleepersHaveNothingToDo, OnTerm, OnWork, At, Top, Depth, Helping, Closed,
              Done, Awaited, Parent, WaitOver, Over
<1>5. ASSUME signals'.term, signals.work => signals'.work, UNCHANGED rt,
             UNCHANGED <<stack, residents, prog>>
      PROVE  SleepersHaveNothingToDo'
  <2>1. Closed' => Closed
    BY <1>5 DEF Closed
  <2> QED
    BY <1>2, <1>5, <2>1, SleepersStay
<1>6. ASSUME NEW j \in Job, HostAnswers(j)
      PROVE  SleepersHaveNothingToDo'
  BY <1>4, <1>6 DEF HostAnswers, jobVars
<1>7. ASSUME NEW j \in Job, CallWaker(j)
      PROVE  SleepersHaveNothingToDo'
  BY <1>1, <1>3, <1>7, NotifyIs DEF CallWaker
<1>8. ASSUME NEW j \in Job, Submit(j)
      PROVE  SleepersHaveNothingToDo'
  <2>1. signals' = [one |-> signals.one + 1, work |-> signals.work, term |-> TRUE]
    BY <1>1, <1>8, EnqueueIs DEF Submit
  <2> QED
    BY <1>5, <1>8, <2>1 DEF Submit
<1>9. ASSUME NEW j \in Job, Cancel(j)
      PROVE  SleepersHaveNothingToDo'
  <2>1. CASE Notify({"work", "term"})
    BY <1>1, <1>3, <2>1, NotifyIs
  <2>2. CASE Notify({"term"}) /\ UNCHANGED stack
    <3>1. UNCHANGED <<rt, prog, residents>>
      BY <1>9 DEF Cancel
    <3> QED
      BY <1>1, <1>5, <2>2, <3>1, NotifyIs
  <2> QED
    BY <1>9, <2>1, <2>2 DEF Cancel
<1>10. CASE Shutdown
  BY <1>1, <1>3, <1>10, NotifyIs DEF Shutdown
<1>11. ASSUME NEW c \in Client, Call(c)
       PROVE  SleepersHaveNothingToDo'
  <2>1. \A d \in Client : client'[d] = "asleep" => client[d] = "asleep"
    BY <1>1, <1>11 DEF Call, TypeOK
  <2> QED
    BY <1>4, <1>11, <2>1 DEF Call, jobVars
<1>12. ASSUME NEW c \in Client, Check(c)
       PROVE  SleepersHaveNothingToDo'
  <2>1. \A d \in Client : client'[d] = "asleep" =>
           client[d] = "asleep" \/ (~Closed /\ \E j \in Watch[d] : ~Over(j))
    BY <1>1, <1>12 DEF Check, TypeOK
  <2> QED
    BY <1>4, <1>12, <2>1 DEF Check, jobVars
<1>13. CASE UNCHANGED vars
  BY <1>4, <1>13 DEF vars, jobVars
<1> QED
  BY <1>6, <1>7, <1>8, <1>9, <1>10, <1>11, <1>12, <1>13

-----------------------------------------------------------------------------
(* Threads that will look at the FIFO before they sleep.                     *)
Awake == {w \in Worker : ~At(w, "asleep") /\ ~At(w, "exited")}

(* The threads are finitely many.                                            *)
LEMMA AwakeAreFew ==
    ASSUME NEW S \in SUBSET Worker
    PROVE  IsFiniteSet(S) /\ Cardinality(S) \in Nat
BY PoolAssumption, FS_Subset, FS_CardinalityType

(* The FIFO is covered while the threads awake stay awake and every new      *)
(* job comes with a notification.                                            *)
LEMMA QueueStays ==
    ASSUME IInv, IInv', QueuedWorkIsSignalled,
           \/ queue' = <<>> \/ Closed'
           \/ /\ Awake \subseteq Awake' /\ OnWork' \subseteq OnWork
              /\ Len(queue') + signals.one <= Len(queue) + signals'.one
    PROVE  QueuedWorkIsSignalled'
<1>1. /\ Awake \in SUBSET Worker /\ Awake' \in SUBSET Worker
  BY DEF Awake
<1>2. /\ Cardinality(Awake) \in Nat /\ Cardinality(Awake') \in Nat /\ IsFiniteSet(Awake')
  BY <1>1, AwakeAreFew
<1>3. /\ Len(queue) \in Nat /\ signals.one \in Nat
  BY QueueFacts DEF IInv, TypeOK
<1>4. /\ Len(queue') \in Nat /\ signals'.one \in Nat /\ queue' \in Seq(Job)
      /\ queue' = <<>> <=> Len(queue') = 0
  <2>1. queue' \in Seq(Job) /\ signals'.one \in Nat
    BY DEF IInv, TypeOK
  <2> QED
    BY <2>1, LenProperties, EmptySeq
<1>5. CASE queue' = <<>>
  BY <1>2, <1>4, <1>5 DEF QueuedWorkIsSignalled, Awake
<1>6. CASE Closed'
  <2>1. \A i \in 1..Len(queue') : FALSE
    <3> SUFFICES ASSUME NEW i \in 1..Len(queue')
                 PROVE  FALSE
      OBVIOUS
    <3>1. status'[queue'[i]] = "queued"
      BY DEF IInv, Standings
    <3>2. queue'[i] \in Job
      BY <1>4, ElementOfSeq
    <3> QED
      BY <1>6, <3>1, <3>2 DEF IInv, Standings
  <2>2. Len(queue') = 0
    BY <1>4, <2>1
  <2> QED
    BY <1>4, <1>5, <2>2
<1>7. CASE /\ Awake \subseteq Awake' /\ OnWork' \subseteq OnWork
           /\ Len(queue') + signals.one <= Len(queue) + signals'.one
  <2>1. Cardinality(Awake) <= Cardinality(Awake')
    BY <1>2, <1>7, FS_Subset
  <2>2. OnWork' # {} => Len(queue) <= signals.one + Cardinality(Awake)
    BY <1>7 DEF QueuedWorkIsSignalled, Awake
  <2>3. ASSUME OnWork' # {}
        PROVE  Len(queue') <= signals'.one + Cardinality(Awake')
    <3>1. OnWork # {}
      BY <1>7, <2>3
    <3>2. Len(queue) <= signals.one + Cardinality(Awake)
      BY <2>2, <3>1, <1>7, <2>3
    <3> DEFINE a == Cardinality(Awake)
               b == Cardinality(Awake')
               l == Len(queue)
               m == Len(queue')
               x == signals.one
               y == signals'.one
    <3>3. /\ a \in Nat /\ b \in Nat /\ l \in Nat /\ m \in Nat
          /\ x \in Nat /\ y \in Nat
          /\ a <= b /\ l <= x + a /\ m + x <= l + y
      BY <1>2, <1>3, <1>4, <1>7, <2>1, <3>2
    <3> HIDE DEF a, b, l, m, x, y
    <3>4. m <= y + b
      BY <3>3
    <3> QED
      BY <3>4 DEF b, m, y
  <2> QED
    BY <2>3 DEF QueuedWorkIsSignalled, Awake
<1> QED
  BY <1>5, <1>6, <1>7

(* A step of a thread keeps the FIFO covered.                                *)
LEMMA WorkerQueue ==
    ASSUME IInv, IInv', QueuedWorkIsSignalled, NEW w \in Worker, WorkerStep(w)
    PROVE  QueuedWorkIsSignalled'
<1>1. PICK f \in Frame : Proceeds(w, f)
  BY WorkerFrame
<1>2. \A v \in Worker : Top(v)' = IF v = w THEN f ELSE Top(v)
  BY <1>1 DEF Proceeds, NewTop, Pushed, Popped
<1>3. CASE f.pc = "asleep"
  <2>1. queue = <<>> /\ UNCHANGED queue
    BY <1>1, <1>3 DEF Proceeds, Sleep, jobVars
  <2> QED
    BY <2>1, QueueStays
<1>4. CASE f.pc = "exited"
  BY <1>1, <1>4, QueueStays DEF Proceeds
<1>5. CASE f.pc \notin {"asleep", "exited"}
  <2>1. Awake \subseteq Awake'
    BY <1>2, <1>5 DEF Awake, At
  <2>2. OnWork' \subseteq OnWork
    <3> SUFFICES ASSUME NEW v \in OnWork'
                 PROVE  v \in OnWork
      OBVIOUS
    <3>1. v \in Worker /\ At(v, "asleep")' /\ ~Helping(v)'
      BY DEF OnWork
    <3>2. v # w
      BY <1>2, <1>5, <3>1 DEF At
    <3>3. Same(v)
      BY <3>1, <3>2, WorkerSame
    <3> QED
      BY <3>1, <3>3 DEF Same, OnWork, At, Top, Depth, Helping
  <2> QED
    BY <2>1, <2>2, WorkerAnnounces, QueueStays DEF Announces
<1> QED
  BY <1>3, <1>4, <1>5

(* So does the delivery of a notification: whom it wakes looks at the        *)
(* FIFO.                                                                     *)
LEMMA DeliveryQueue ==
    ASSUME IInv, IInv', QueuedWorkIsSignalled, Delivery
    PROVE  QueuedWorkIsSignalled'
<1>1. /\ UNCHANGED <<queue, prog, residents>> /\ TypeOK
      /\ signals \in [one : Nat, work : BOOLEAN, term : BOOLEAN] /\ Len(queue) \in Nat
  BY QueueFacts DEF Delivery, DeliverOne, DeliverWork, DeliverTerm, jobVars, IInv, TypeOK
<1>2. ASSUME NEW S \in SUBSET Worker, Wake(S)
      PROVE  Awake \subseteq Awake' /\ OnWork' \subseteq OnWork
  <2>1. ASSUME NEW v \in Awake
        PROVE  v \in Awake'
    <3>1. v \in Worker
      BY DEF Awake
    <3> QED
      BY <1>1, <1>2, <3>1, WokenOrSame DEF Awake, At
  <2>2. ASSUME NEW v \in OnWork'
        PROVE  v \in OnWork
    <3>1. v \in Worker
      BY DEF OnWork
    <3> QED
      BY <1>1, <1>2, <3>1, WokenOrSame
  <2> QED
    BY <2>1, <2>2
<1>3. CASE DeliverWork \/ DeliverTerm
  <2>1. /\ Wake(OnWork) \/ Wake(OnTerm)
        /\ \/ signals' = [signals EXCEPT !.work = FALSE]
           \/ signals' = [signals EXCEPT !.term = FALSE]
    BY <1>3 DEF DeliverWork, DeliverTerm
  <2>2. signals'.one = signals.one
    BY <1>1, <2>1
  <2>3. OnWork \in SUBSET Worker /\ OnTerm \in SUBSET Worker
    BY DEF OnWork, OnTerm
  <2>4. Awake \subseteq Awake' /\ OnWork' \subseteq OnWork
    BY <1>2, <2>1, <2>3
  <2> QED
    BY <1>1, <2>2, <2>4, QueueStays
<1>4. CASE DeliverOne
  <2>1. signals.one > 0 /\ signals' = [signals EXCEPT !.one = @ - 1]
    BY <1>4 DEF DeliverOne
  <2>2. signals'.one = signals.one - 1
    BY <1>1, <2>1
  <2>3. CASE OnWork = {}
    <3>1. UNCHANGED stack
      BY <1>4, <2>3 DEF DeliverOne
    <3>2. OnWork' = {}
      BY <2>3, <3>1 DEF OnWork, At, Top, Depth, Helping
    <3> QED
      BY <3>2 DEF QueuedWorkIsSignalled
  <2>4. CASE OnWork # {}
    <3>1. PICK w \in OnWork : Wake({w})
      BY <1>4, <2>4 DEF DeliverOne
    <3>2. w \in Worker /\ w \notin Awake /\ {w} \in SUBSET Worker
      BY DEF OnWork, Awake
    <3>3. Awake \subseteq Awake' /\ w \in Awake'
      <4>1. At(w, "loop")'
        BY <1>1, <3>1, <3>2, WokenOrSame
      <4> QED
        BY <1>2, <3>1, <3>2, <4>1 DEF Awake, At
    <3>4. /\ IsFiniteSet(Awake) /\ Cardinality(Awake) \in Nat
          /\ IsFiniteSet(Awake') /\ Cardinality(Awake') \in Nat
      <4>1. Awake \in SUBSET Worker /\ Awake' \in SUBSET Worker
        BY DEF Awake
      <4> QED
        BY <4>1, AwakeAreFew
    <3>5. Cardinality(Awake) + 1 <= Cardinality(Awake')
      <4>1. Cardinality(Awake \cup {w}) = Cardinality(Awake) + 1
        BY <3>2, <3>4, FS_AddElement
      <4>2. Awake \cup {w} \subseteq Awake'
        BY <3>3
      <4> QED
        BY <3>4, <4>1, <4>2, FS_Subset
    <3>6. Len(queue) <= signals.one + Cardinality(Awake)
      BY <2>4 DEF QueuedWorkIsSignalled, Awake
    <3>7. Len(queue') <= signals'.one + Cardinality(Awake')
      BY <1>1, <2>2, <3>4, <3>5, <3>6
    <3> QED
      BY <3>7 DEF QueuedWorkIsSignalled, Awake
  <2> QED
    BY <2>3, <2>4
<1> QED
  BY <1>3, <1>4 DEF Delivery

(* So do the transports and the foreground.                                  *)
LEMMA OutsideQueue ==
    ASSUME IInv, IInv', QueuedWorkIsSignalled,
           \/ \E j \in Job : HostAnswers(j) \/ CallWaker(j) \/ Submit(j) \/ Cancel(j)
           \/ Shutdown
           \/ \E c \in Client : Call(c) \/ Check(c)
           \/ UNCHANGED vars
    PROVE  QueuedWorkIsSignalled'
<1>1. TypeOK /\ signals \in [one : Nat, work : BOOLEAN, term : BOOLEAN] /\ Len(queue) \in Nat
  BY QueueFacts DEF IInv, TypeOK
<1>2. ASSUME UNCHANGED stack
      PROVE  Awake \subseteq Awake' /\ OnWork' \subseteq OnWork
  BY <1>2 DEF Awake, OnWork, At, Top, Depth, Helping
<1>3. ASSUME Bump
      PROVE  Awake \subseteq Awake' /\ OnWork' \subseteq OnWork
  <2>1. ASSUME NEW v \in Worker
        PROVE  Top(v)'.pc = Top(v).pc /\ Len(stack'[v]) = Len(stack[v])
    <3>1. Top(v)' = [Top(v) EXCEPT !.stale = TRUE] /\ Len(stack'[v]) = Len(stack[v])
      BY <1>1, <1>3, BumpIs
    <3>2. Top(v) \in Frames
      BY <1>1, StackFacts, FrameIs
    <3> QED
      BY <3>1, <3>2 DEF Frames
  <2> QED
    BY <2>1 DEF Awake, OnWork, At, Helping, Depth
<1>4. ASSUME UNCHANGED <<stack, queue, signals>>
      PROVE  QueuedWorkIsSignalled'
  BY <1>1, <1>2, <1>4, QueueStays
<1>5. ASSUME NEW j \in Job, HostAnswers(j)
      PROVE  QueuedWorkIsSignalled'
  BY <1>4, <1>5 DEF HostAnswers, jobVars
<1>6. ASSUME NEW j \in Job, CallWaker(j)
      PROVE  QueuedWorkIsSignalled'
  <2>1. Bump /\ Notify({"work", "term"}) /\ UNCHANGED queue
    BY <1>6 DEF CallWaker, jobVars
  <2>2. signals'.one = signals.one
    BY <1>1, <2>1, NotifyIs
  <2> QED
    BY <1>1, <1>3, <2>1, <2>2, QueueStays
<1>7. ASSUME NEW j \in Job, Submit(j)
      PROVE  QueuedWorkIsSignalled'
  <2>1. /\ Len(queue') = Len(queue) + 1
        /\ signals' = [one |-> signals.one + 1, work |-> signals.work, term |-> TRUE]
    BY <1>1, <1>7, EnqueueIs DEF Submit
  <2>2. Len(queue') + signals.one <= Len(queue) + signals'.one
    BY <1>1, <2>1
  <2>3. UNCHANGED stack
    BY <1>7 DEF Submit
  <2> QED
    BY <1>2, <2>2, <2>3, QueueStays
<1>8. ASSUME NEW j \in Job, Cancel(j)
      PROVE  QueuedWorkIsSignalled'
  <2>1. CASE End({j}, "canceled") /\ Notify({"term"}) /\ UNCHANGED stack
    <3>1. Len(queue') \in Nat /\ Len(queue') <= Len(queue)
      BY <1>1, <2>1, EndIs DEF Terminal
    <3>2. signals'.one = signals.one
      BY <1>1, <2>1, NotifyIs
    <3> QED
      BY <1>1, <1>2, <2>1, <3>1, <3>2, QueueStays
  <2>2. CASE Bump /\ Notify({"work", "term"}) /\ UNCHANGED queue
    <3>1. signals'.one = signals.one
      BY <1>1, <2>2, NotifyIs
    <3> QED
      BY <1>1, <1>3, <2>2, <3>1, QueueStays
  <2> QED
    BY <1>8, <2>1, <2>2 DEF Cancel, jobVars
<1>9. CASE Shutdown
  BY <1>9, QueueStays DEF Shutdown, Closed
<1>10. ASSUME NEW c \in Client, Call(c) \/ Check(c)
       PROVE  QueuedWorkIsSignalled'
  BY <1>4, <1>10 DEF Call, Check, jobVars
<1>11. CASE UNCHANGED vars
  BY <1>4, <1>11 DEF vars, jobVars
<1> QED
  BY <1>5, <1>6, <1>7, <1>8, <1>9, <1>10, <1>11

-----------------------------------------------------------------------------
(* Every answer is heard of.                                                 *)

LEMMA WorkerHears ==
    ASSUME IInv, IInv', Heard, NEW w \in Worker, WorkerStep(w)
    PROVE  Heard'
<1>1. PICK f \in Frame : Proceeds(w, f)
  BY WorkerFrame
<1>2. /\ \A v \in Worker : Top(v)' = IF v = w THEN f ELSE Top(v)
      /\ \A v \in Worker : v # w => stack'[v] = stack[v]
  BY <1>1 DEF Proceeds, NewTop, Pushed, Popped
<1>3. /\ UNCHANGED <<ringing, bumped>>
      /\ \A j \in Job : host'[j] = "done" => host[j] = "done"
  BY WorkerLeaves, WorkerConsumes
<1>4. ASSUME Stale(w), bumped, ~Recheck(w)
      PROVE  Stale(w)'
  <2>1. Len(stack[w]) \in Nat /\ Len(stack[w]) >= 1 /\ Top(w) = stack[w][Len(stack[w])]
    BY StackFacts DEF IInv
  <2>2. \A k \in 1..Len(stack[w]) : stack[w][k].stale
    BY <1>4 DEF Stale
  <2>3. Top(w).stale
    BY <2>1, <2>2
  <2>4. CASE NewTop(w, f) /\ (f.stale = Top(w).stale \/ f.stale = bumped)
    <3>1. f.stale
      BY <1>4, <2>3, <2>4
    <3>2. /\ Len(stack'[w]) = Len(stack[w])
          /\ \A i \in 1..Len(stack[w]) :
                stack'[w][i] = IF i = Len(stack[w]) THEN f ELSE stack[w][i]
      BY <2>4 DEF NewTop
    <3> QED
      BY <2>2, <3>1, <3>2 DEF Stale
  <2>5. CASE Pushed(w, f) /\ f.stale = bumped
    <3>1. /\ Len(stack'[w]) = Len(stack[w]) + 1
          /\ \A i \in 1..Len(stack[w]) : stack'[w][i] = stack[w][i]
          /\ stack'[w][Len(stack[w]) + 1] = f
      BY <2>5 DEF Pushed
    <3>2. \A k \in 1..Len(stack'[w]) : k \in 1..Len(stack[w]) \/ k = Len(stack[w]) + 1
      BY <2>1, <3>1
    <3> QED
      BY <1>4, <2>2, <2>5, <3>1, <3>2 DEF Stale
  <2>6. CASE Popped(w, f) /\ f.stale = stack[w][Len(stack[w]) - 1].stale
    <3>1. /\ Len(stack'[w]) = Len(stack[w]) - 1 /\ Len(stack[w]) >= 2
          /\ \A i \in 1..Len(stack[w]) - 1 :
                stack'[w][i] = IF i = Len(stack[w]) - 1 THEN f ELSE stack[w][i]
      BY <2>6 DEF Popped
    <3>2. /\ Len(stack[w]) - 1 \in 1..Len(stack[w])
          /\ \A k \in 1..Len(stack'[w]) : k \in 1..Len(stack[w]) /\ k \in 1..Len(stack[w]) - 1
      BY <2>1, <3>1
    <3>3. f.stale
      BY <2>2, <2>6, <3>2
    <3> QED
      BY <2>2, <3>1, <3>2, <3>3 DEF Stale
  <2> QED
    BY <1>1, <1>4, <2>4, <2>5, <2>6 DEF Proceeds
<1>5. \A j \in Job : host'[j] = "done" => j \in ringing' \/ bumped'
  BY <1>3 DEF Heard
<1>6. ASSUME NEW v \in Worker, NEW i \in 1..Len(residents'[v]),
             residents'[v][i].waiting, host'[residents'[v][i].job] = "done"
      PROVE  residents'[v][i].job \in ringing' \/ Stale(v)'
  <2> DEFINE j == residents'[v][i].job
  <2>1. j \in Job
    <3>1. residents'[v] \in Seq([job : Job, waiting : BOOLEAN])
      BY DEF IInv, TypeOK
    <3>2. residents'[v][i] \in [job : Job, waiting : BOOLEAN]
      BY <3>1, ElementOfSeq
    <3> QED
      BY <3>2
  <2> HIDE DEF j
  <2>2. host[j] = "done"
    BY <1>3, <1>6, <2>1 DEF j
  <2>3. CASE v # w
    <3>1. residents'[v] = residents[v] /\ stack'[v] = stack[v]
      BY <1>2, <2>3, WorkerResidents
    <3>2. j \in ringing \/ Stale(v)
      BY <1>6, <2>2, <3>1 DEF Heard, j
    <3> QED
      BY <1>3, <3>1, <3>2 DEF Stale, j
  <2>4. CASE v = w
    <3>1. /\ ~Recheck(w)
          /\ \/ \E k \in 1..Len(residents[w]) : residents[w][k] = residents'[w][i]
             \/ At(w, "park") /\ j = Top(w).job
      BY <1>6, <2>4, WorkerResidents DEF j
    <3>2. j \in ringing \/ Stale(w)
      BY <1>6, <2>2, <2>4, <3>1 DEF Heard, j
    <3>3. j \in ringing \/ bumped
      BY <2>1, <2>2 DEF Heard
    <3> QED
      BY <1>3, <1>4, <2>4, <3>1, <3>2, <3>3 DEF j
  <2> QED
    BY <2>3, <2>4
<1>7. ASSUME NEW v \in Worker, At(v, "park")', host'[Top(v)'.job] = "done"
      PROVE  Top(v)'.job \in ringing' \/ Stale(v)'
  <2>1. v # w
    BY <1>1, <1>2, <1>7 DEF At, Proceeds
  <2>2. Top(v)' = Top(v) /\ stack'[v] = stack[v]
    BY <1>2, <2>1
  <2>3. At(v, "park") /\ Top(v).job \in Job
    BY <1>7, <2>2, TopFacts DEF At
  <2>4. Top(v).job \in ringing \/ Stale(v)
    BY <1>3, <1>7, <2>2, <2>3 DEF Heard
  <2> QED
    BY <1>3, <2>2, <2>4 DEF Stale
<1> QED
  BY <1>5, <1>6, <1>7 DEF Heard

(* The others wake, or bring the news.                                       *)
LEMMA OtherHears ==
    ASSUME IInv, Heard,
           \/ Delivery
           \/ \E j \in Job : HostAnswers(j) \/ CallWaker(j) \/ Submit(j) \/ Cancel(j)
           \/ Shutdown
           \/ \E c \in Client : Call(c) \/ Check(c)
           \/ UNCHANGED vars
    PROVE  Heard'
<1>1. TypeOK
  BY DEF IInv
<1>2. ASSUME UNCHANGED <<host, ringing, bumped, residents, stack>>
      PROVE  Heard'
  BY <1>2 DEF Heard, Stale, At, Top, Depth
<1>3. ASSUME Bump, UNCHANGED residents
      PROVE  Heard'
  <2>1. bumped' = TRUE
    BY <1>3 DEF Bump
  <2>2. ASSUME NEW v \in Worker
        PROVE  Stale(v)'
    <3>1. /\ Len(stack'[v]) = Len(stack[v])
          /\ \A i \in 1..Len(stack[v]) : stack'[v][i] = [stack[v][i] EXCEPT !.stale = TRUE]
      BY <1>1, <1>3, BumpIs
    <3>2. \A i \in 1..Len(stack[v]) : stack[v][i] \in Frames
      BY <1>1, StackFacts, FrameIs
    <3>3. \A i \in 1..Len(stack[v]) : stack'[v][i].stale
      <4> TAKE i \in 1..Len(stack[v])
      <4>1. stack[v][i] \in Frames /\ stack'[v][i] = [stack[v][i] EXCEPT !.stale = TRUE]
        BY <3>1, <3>2
      <4> QED
        BY <4>1 DEF Frames
    <3> QED
      BY <3>1, <3>3 DEF Stale
  <2> QED
    BY <2>1, <2>2 DEF Heard
<1>4. ASSUME NEW S \in SUBSET Worker, Wake(S),
             UNCHANGED <<host, ringing, bumped, residents, prog>>
      PROVE  Heard'
  <2>1. ASSUME NEW v \in Worker, Stale(v)
        PROVE  Stale(v)'
    <3>1. /\ Len(stack'[v]) = Len(stack[v])
          /\ \A i \in 1..Len(stack[v]) :
                stack'[v][i] = IF v \in S /\ i = Len(stack[v])
                               THEN [Top(v) EXCEPT !.pc = "loop"] ELSE stack[v][i]
      BY <1>1, <1>4, WakeIs
    <3>2. /\ Top(v) \in Frames /\ Top(v) = stack[v][Len(stack[v])]
          /\ Len(stack[v]) \in 1..Len(stack[v])
      BY <1>1, StackFacts, FrameIs
    <3>3. \A i \in 1..Len(stack[v]) : stack[v][i].stale
      BY <2>1 DEF Stale
    <3>4. [Top(v) EXCEPT !.pc = "loop"].stale = Top(v).stale
      BY <3>2 DEF Frames
    <3>5. [Top(v) EXCEPT !.pc = "loop"].stale
      BY <3>2, <3>3, <3>4
    <3>6. \A i \in 1..Len(stack[v]) : stack'[v][i].stale
      BY <3>1, <3>3, <3>5
    <3> QED
      BY <3>1, <3>6 DEF Stale
  <2>2. ASSUME NEW v \in Worker, At(v, "park")'
        PROVE  At(v, "park") /\ Top(v)' = Top(v)
    BY <1>1, <1>4, <2>2, WokenOrSame DEF At
  <2> QED
    BY <1>4, <2>1, <2>2 DEF Heard
<1>5. CASE Delivery
  <2>1. /\ UNCHANGED <<host, ringing, bumped, residents, prog>>
        /\ UNCHANGED stack \/ \E S \in SUBSET Worker : Wake(S)
    <3>1. CASE DeliverOne
      <4>1. /\ UNCHANGED <<host, ringing, bumped, residents, prog>>
            /\ UNCHANGED stack \/ \E w \in OnWork : Wake({w})
        BY <3>1 DEF DeliverOne
      <4>2. \A w \in OnWork : {w} \in SUBSET Worker
        BY DEF OnWork
      <4> QED
        BY <4>1, <4>2
    <3>2. CASE DeliverWork \/ DeliverTerm
      <4>1. /\ UNCHANGED <<host, ringing, bumped, residents, prog>>
            /\ Wake(OnWork) \/ Wake(OnTerm)
        BY <3>2 DEF DeliverWork, DeliverTerm
      <4>2. OnWork \in SUBSET Worker /\ OnTerm \in SUBSET Worker
        BY DEF OnWork, OnTerm
      <4> QED
        BY <4>1, <4>2
    <3> QED
      BY <1>5, <3>1, <3>2 DEF Delivery
  <2> QED
    BY <1>2, <1>4, <2>1
<1>6. ASSUME NEW j \in Job, HostAnswers(j)
      PROVE  Heard'
  <2>1. /\ host' = [host EXCEPT ![j] = "done"] /\ ringing' = ringing \cup {j}
        /\ UNCHANGED <<bumped, residents, stack>>
    BY <1>6 DEF HostAnswers
  <2>2. \A k \in Job : host'[k] = "done" => host[k] = "done" \/ k = j
    BY <1>1, <2>1 DEF TypeOK
  <2>3. \A v \in Worker : /\ Stale(v)' <=> Stale(v)
                          /\ Top(v)' = Top(v)
    BY <2>1 DEF Stale, Top, Depth
  <2>4. \A v \in Worker : \A i \in 1..Len(residents[v]) : residents[v][i].job \in Job
    BY <1>1, ResidentFacts
  <2>5. \A v \in Worker : At(v, "park") => Top(v).job \in Job
    BY TopFacts DEF At
  <2>6. \A v \in Worker : At(v, "park")' <=> At(v, "park")
    BY <2>3 DEF At
  <2> QED
    BY <2>1, <2>2, <2>3, <2>4, <2>5, <2>6 DEF Heard
<1>7. ASSUME NEW j \in Job, CallWaker(j)
      PROVE  Heard'
  BY <1>3, <1>7 DEF CallWaker
<1>8. ASSUME NEW j \in Job, Submit(j)
      PROVE  Heard'
  BY <1>2, <1>8 DEF Submit
<1>9. ASSUME NEW j \in Job, Cancel(j)
      PROVE  Heard'
  <2>1. /\ UNCHANGED <<host, ringing, residents>>
        /\ Bump \/ UNCHANGED <<stack, bumped>>
    BY <1>9 DEF Cancel
  <2> QED
    BY <1>2, <1>3, <2>1
<1>10. CASE Shutdown
  BY <1>2, <1>10 DEF Shutdown
<1>11. ASSUME NEW c \in Client, Call(c) \/ Check(c)
       PROVE  Heard'
  BY <1>2, <1>11 DEF Call, Check
<1>12. CASE UNCHANGED vars
  BY <1>2, <1>12 DEF vars
<1> QED
  BY <1>5, <1>6, <1>7, <1>8, <1>9, <1>10, <1>11, <1>12

(* The three parts are inductive.                                            *)
LEMMA WakeupsInvariant == Spec => []WInv
<1>1. ASSUME Init
      PROVE  WInv
  <2>1. \A w \in Worker : Top(w).pc = "loop" /\ residents[w] = <<>>
    <3> TAKE w \in Worker
    <3>1. stack[w] = <<NewFrame>> /\ residents[w] = <<>>
      BY <1>1 DEF Init
    <3>2. Len(stack[w]) = 1 /\ stack[w][1] = NewFrame
      BY <3>1
    <3>3. NewFrame.pc = "loop"
      BY <1>1, InitIsPlaced, FrameTypes DEF IInv
    <3> QED
      BY <3>1, <3>2, <3>3 DEF Top, Depth
  <2>2. \A w \in Worker : 1..Len(residents[w]) = {}
    <3> TAKE w \in Worker
    <3>1. Len(residents[w]) = 0
      BY <2>1, EmptySeq
    <3> QED
      BY <3>1
  <2>3. \A j \in Job : host[j] # "done"
    BY <1>1 DEF Init
  <2>4. \A c \in Client : client[c] # "asleep"
    BY <1>1 DEF Init
  <2>5. Heard
    BY <2>1, <2>2, <2>3 DEF Heard, At
  <2>6. OnTerm = {} /\ OnWork = {}
    BY <2>1 DEF OnTerm, OnWork, At
  <2>7. SleepersHaveNothingToDo
    BY <2>4, <2>6 DEF SleepersHaveNothingToDo
  <2>8. QueuedWorkIsSignalled
    BY <2>6 DEF QueuedWorkIsSignalled
  <2> QED
    BY <2>5, <2>7, <2>8 DEF WInv
<1>2. ASSUME IInv, IInv', WInv, [Next]_vars
      PROVE  WInv'
  <2>1. Heard /\ SleepersHaveNothingToDo /\ QueuedWorkIsSignalled
    BY <1>2 DEF WInv
  <2>2. CASE \E w \in Worker : WorkerStep(w)
    BY <1>2, <2>1, <2>2, WorkerHears, WorkerRests, WorkerQueue DEF WInv
  <2>3. CASE Delivery
    BY <1>2, <2>1, <2>3, OtherHears, DeliveryRests, DeliveryQueue DEF WInv
  <2>4. CASE \/ \E j \in Job : HostAnswers(j) \/ CallWaker(j) \/ Submit(j) \/ Cancel(j)
             \/ Shutdown
             \/ \E c \in Client : Call(c) \/ Check(c)
             \/ UNCHANGED vars
    BY <1>2, <2>1, <2>4, OtherHears, OutsideRests, OutsideQueue DEF WInv
  <2> QED
    BY <1>2, <2>2, <2>3, <2>4, Zenon DEF Next
<1> QED
  BY <1>1, <1>2, PlacesInvariant, PTL DEF Spec

(* No wake-up is lost, on either condition variable, for queued work, the    *)
(* end of an awaited job, a cancellation, a shutdown or the answer of a      *)
(* transport: whatever the number of threads and the nesting of the waits    *)
(* (work_available, terminal_watch and wake_epoch of jobs/service.rs).       *)
THEOREM WakeupsArrive == Spec => []NoWakeupIsLost
<1>1. ASSUME IInv, WInv
      PROVE  NoWakeupIsLost
  <2>1. Heard /\ SleepersHaveNothingToDo /\ QueuedWorkIsSignalled
    BY <1>1 DEF WInv
  <2>2. AnswersAreNoticed
    <3> SUFFICES ASSUME NEW w \in Worker, NEW i \in DOMAIN residents[w],
                        residents[w][i].waiting, host[residents[w][i].job] = "done",
                        residents[w][i].job \notin ringing
                 PROVE  Top(w).stale
      BY DEF AnswersAreNoticed
    <3>1. i \in 1..Len(residents[w])
      BY <1>1, ResidentFacts DEF IInv
    <3>2. Stale(w)
      BY <2>1, <3>1 DEF Heard
    <3>3. Len(stack[w]) \in 1..Len(stack[w]) /\ Top(w) = stack[w][Len(stack[w])]
      BY <1>1, StackFacts DEF IInv
    <3> QED
      BY <3>2, <3>3 DEF Stale
  <2> QED
    BY <2>1, <2>2 DEF NoWakeupIsLost
<1> QED
  BY <1>1, PlacesInvariant, WakeupsInvariant, PTL
=============================================================================
