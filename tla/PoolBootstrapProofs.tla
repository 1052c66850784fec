------------------------ MODULE PoolBootstrapProofs ------------------------
(* Proofs about PoolBootstrap for every number of submitters, of shutdowns   *)
(* and of workers: the pool knows its threads, a sibling does not slip past  *)
(* a shutdown, and a stopped runtime stays stopped.  The run is limited to   *)
(* one shutdown next to two submissions.                                     *)
EXTENDS PoolBootstrap, TLAPS, FiniteSetTheorems

-----------------------------------------------------------------------------
(* The inductive invariant.                                                  *)

ThreadRecord ==
    [pc : {"boot", "look", "spawn", "failed", "work", "panicked", "exited"},
     first : BOOLEAN, next : 1..Workers, runs : SUBSET Submitter,
     progress : BOOLEAN, panics : 0..PanicLimit]
ShutRecord ==
    [pc : {"idle", "take", "join", "back"}, handles : SUBSET Thread,
     detached : SUBSET Thread, late : BOOLEAN]

(* Types; threads are numbered without gaps.                                 *)
Types ==
    /\ state \in RuntimeState
    /\ job \in [Submitter -> {"new", "queued", "running", "over"}]
    /\ lock \in {Free} \cup Submitter \cup Thread
    /\ list \subseteq Thread
    /\ \E n \in Nat : Thread = 1..n
    /\ thread \in [Thread -> ThreadRecord]
    /\ sub \in [Submitter -> {"idle", "admitted", "spawning", "back"}]
    /\ shut \in [Shutter -> ShutRecord]

(* Who has the lock of the list, and what a position says of a thread.       *)
Locked ==
    /\ \A s \in Submitter : sub[s] = "spawning" => lock = s /\ list = {}
    /\ \A t \in Thread :
          /\ thread[t].pc \in {"look", "spawn"} => lock = t /\ thread[t].next < Workers
          /\ thread[t].pc = "spawn" => t = 1
          /\ thread[t].pc \in {"boot", "look", "spawn", "failed"} => thread[t].first
          /\ thread[t].pc \notin {"panicked", "exited"} => thread[t].panics < PanicLimit

(* Nobody has begun to shut the runtime down.                                *)
Undisturbed == \A c \in Shutter : shut[c].pc = "idle"
Returned == {s \in Submitter : sub[s] = "back"}

(* Thread 1 creates the siblings; another worker 0 is the work of a          *)
(* submission that finds the list taken.                                     *)
Counted ==
    /\ Open => Undisturbed
    /\ state = "Closed" => ~Undisturbed
    /\ \A t \in Thread : t # 1 /\ thread[t].first => ~Open
    /\ Thread # {} =>
          /\ thread[1].first
          /\ Cardinality(Thread) <= thread[1].next - 1 + Cardinality(Returned)
    /\ Undisturbed => /\ list = Thread
                      /\ Thread # {} => Cardinality(Thread) = thread[1].next
    /\ state = "Running" => Thread # {} /\ thread[1].next = Workers

(* What a shutdown has taken: siblings come from the list only.              *)
Took(c) == shut[c].pc \in {"join", "back"}
Taken ==
    /\ \A c \in Shutter : ~Took(c) => shut[c].handles = {}
    /\ (\E c \in Shutter : Took(c)) =>
          \A t \in Thread : /\ thread[t].pc # "spawn"
                            /\ t \in list => thread[t].first
    /\ \A t \in Thread : ~thread[t].first => t \in list \/ Accounted(t)

IInv == Types /\ Locked /\ Counted /\ OpenPoolIsAlive /\ Taken

(* Threads are the numbers up to their count.                                *)
LEMMA Numbers ==
    ASSUME Types
    PROVE  /\ IsFiniteSet(Thread)
           /\ Cardinality(Thread) \in Nat
           /\ Thread = 1..Cardinality(Thread)
<1>1. PICK n \in Nat : Thread = 1..n
  BY DEF Types
<1>2. IsFiniteSet(1..n) /\ Cardinality(1..n) = n
  BY FS_Interval
<1> QED
  BY <1>1, <1>2

(* The empty pool satisfies the invariant.                                   *)
LEMMA InitIInv == Init => IInv
<1> SUFFICES ASSUME Init PROVE IInv
  OBVIOUS
<1>1. Thread = {} /\ Thread = 1..0 /\ Open /\ Undisturbed
  BY DEF Init, Thread, Open, Undisturbed
<1>2. Types
  BY <1>1 DEF Init, Types, RuntimeState, ShutRecord, Free
<1>3. Locked /\ Counted /\ Taken
  BY <1>1 DEF Init, Locked, Counted, Taken, Took
<1>4. OpenPoolIsAlive
  BY <1>1 DEF Init, OpenPoolIsAlive, Active
<1> QED
  BY <1>2, <1>3, <1>4 DEF IInv

-----------------------------------------------------------------------------
(* Steps of one thread that create no other.                                 *)

(* A thread gets the record r; it may take the lock when that is free, and   *)
(* give it back when it has it.                                              *)
ThreadMoves(t, r) ==
    /\ thread' = [thread EXCEPT ![t] = r]
    /\ UNCHANGED <<list, sub, shut>>
    /\ r.first = thread[t].first /\ r.next = thread[t].next
    /\ r.pc \in {"look", "spawn"} => lock' = t /\ r.next < Workers
    /\ r.pc = "spawn" => Open
    /\ r.pc \in {"boot", "look", "spawn", "failed"} => r.first
    /\ r.pc \notin {"panicked", "exited"} => r.panics < PanicLimit
    /\ lock' = lock \/ (lock \in {Free, t} /\ lock' \in {Free, t})
    /\ thread[t].pc = "exited" => r.pc = "exited"

(* Such a step ends jobs, starts no new ones, and may break the runtime.     *)
StateMoves(t, r) ==
    /\ job' \in [Submitter -> {"new", "queued", "running", "over"}]
    /\ \A s \in Submitter : Active(s)' => Active(s)
    /\ \/ state' = state \/ state' = "Broken"
       \/ /\ state = "Starting" /\ state' = "Running"
          /\ thread[t].first /\ thread[t].next = Workers
    /\ r.pc = "exited" => state' \in {"Broken", "Closed"}

(* A step of one pool thread, whatever it does, keeps the invariant.         *)
LEMMA ThreadMovesKeeps ==
    ASSUME IInv, NEW t \in Thread, NEW r \in ThreadRecord,
           ThreadMoves(t, r), StateMoves(t, r)
    PROVE  IInv'
<1>1. /\ Thread' = Thread
      /\ thread' \in [Thread -> ThreadRecord]
      /\ thread'[t] = r
      /\ \A i \in Thread : i # t => thread'[i] = thread[i]
  BY DEF IInv, Types, Thread, ThreadMoves
<1>value. /\ Thread' = Thread
          /\ \A i \in Thread : thread'[i] = IF i = t THEN r ELSE thread[i]
  BY <1>1
<1>kept. \A i \in Thread :
            /\ thread'[i].first = thread[i].first
            /\ thread'[i].next = thread[i].next
            /\ thread[i].pc = "exited" => thread'[i].pc = "exited"
  BY <1>1 DEF ThreadMoves
<1>2. /\ UNCHANGED <<list, sub, shut>>
      /\ lock' \in {lock, Free, t}
  BY DEF ThreadMoves
<1>3. Open' => Open
  BY DEF StateMoves, Open
<1>4. t # 1 /\ thread[t].first => ~Open
  BY DEF IInv, Counted
<1>5. Types'
  <2>1. state' \in RuntimeState
    BY DEF IInv, Types, StateMoves, RuntimeState
  <2>2. lock' \in {Free} \cup Submitter \cup Thread'
    BY <1>1, <1>2 DEF IInv, Types
  <2> QED
    BY <1>1, <1>2, <2>1, <2>2 DEF IInv, Types, StateMoves, ShutRecord, ThreadRecord
<1>6. Locked'
  <2>1. ASSUME NEW s \in Submitter, sub[s] = "spawning"
        PROVE  lock' = s /\ list = {}
    <3>1. lock = s /\ list = {}
      BY <2>1 DEF IInv, Locked
    <3>2. s \notin {Free, t}
      BY BootstrapAssumption DEF IInv, Types, Free
    <3> QED
      BY <3>1, <3>2 DEF ThreadMoves
  <2>2. ASSUME NEW i \in Thread, i # t, thread[i].pc \in {"look", "spawn"}
        PROVE  lock' = i
    <3>1. lock = i /\ i # Free
      BY <2>2 DEF IInv, Locked, Types, Free
    <3> QED
      BY <2>2, <3>1 DEF ThreadMoves
  <2>3. r.pc = "spawn" => t = 1
    BY <1>4 DEF ThreadMoves
  <2> QED
    BY <1>1, <1>2, <2>1, <2>2, <2>3 DEF IInv, Locked, ThreadMoves
<1>7. Counted'
  <2>1. /\ Undisturbed' = Undisturbed
        /\ Returned' = Returned
        /\ Cardinality(Thread') = Cardinality(Thread)
    BY <1>value, <1>kept, <1>2 DEF Undisturbed, Returned
  <2>2. 1 \in Thread
    BY DEF IInv, Types
  <2>3. state' = "Running" => thread[1].next = Workers
    BY <1>4 DEF IInv, Counted, StateMoves, Open
  <2>4. state' = "Closed" => state = "Closed"
    BY DEF StateMoves
  <2>5. \A i \in Thread : i # 1 /\ thread[i].first => ~Open'
    BY <1>3 DEF IInv, Counted
  <2>6. /\ thread'[1].first = thread[1].first
        /\ thread'[1].next = thread[1].next
    BY <1>kept, <2>2
  <2>7. state' = "Running" => thread'[1].next = Workers /\ Thread' # {}
    BY <1>value, <1>kept, <2>2, <2>3, <2>6
  <2>8. (Open' => Undisturbed') /\ (state' = "Closed" => ~Undisturbed')
    BY <1>3, <2>1, <2>4 DEF IInv, Counted
  <2>9. Thread' # {} =>
          /\ thread'[1].first
          /\ Cardinality(Thread') <= thread'[1].next - 1 + Cardinality(Returned')
    BY <1>value, <1>kept, <2>1, <2>6 DEF IInv, Counted
  <2>10. Undisturbed' => /\ list' = Thread'
                         /\ Thread' # {} => Cardinality(Thread') = thread'[1].next
    BY <1>value, <1>kept, <1>2, <2>1, <2>6 DEF IInv, Counted
  <2> QED
    BY <1>value, <1>kept, <2>5, <2>7, <2>8, <2>9, <2>10 DEF Counted
<1>8. OpenPoolIsAlive'
  <2>1. ASSUME Open', NEW i \in Thread
        PROVE  thread'[i].pc # "exited"
    <3>1. thread[i].pc # "exited"
      BY <1>3, <2>1 DEF IInv, OpenPoolIsAlive
    <3>2. r.pc # "exited"
      BY <2>1 DEF StateMoves, Open
    <3> QED
      BY <1>value, <1>kept, <3>1, <3>2
  <2> QED
    BY <1>value, <1>kept, <2>1 DEF OpenPoolIsAlive
<1>9. Taken'
  <2>1. (\E c \in Shutter : Took(c)) => ~Open
    BY DEF IInv, Counted, Undisturbed, Took
  <2>2. \A c \in Shutter : Took(c)' = Took(c)
    BY <1>2 DEF Took
  <2>3. ASSUME NEW i \in Thread, Accounted(i)
        PROVE  Accounted(i)'
    <3>1. shut' = shut /\ (thread[i].pc = "exited" => thread'[i].pc = "exited")
      BY <1>kept, <1>2
    <3> QED
      BY <2>3, <3>1 DEF Accounted
  <2>4. (\E c \in Shutter : Took(c)) => r.pc # "spawn"
    BY <2>1 DEF ThreadMoves
  <2>5. \A c \in Shutter : ~Took(c)' => shut'[c].handles = {}
    BY <1>2, <2>2 DEF IInv, Taken
  <2>6. (\E c \in Shutter : Took(c)') =>
            \A i \in Thread' : /\ thread'[i].pc # "spawn"
                               /\ i \in list' => thread'[i].first
    BY <1>value, <1>kept, <1>2, <2>2, <2>4 DEF IInv, Taken
  <2>7. \A i \in Thread' : ~thread'[i].first => i \in list' \/ Accounted(i)'
    BY <1>value, <1>kept, <1>2, <2>3 DEF IInv, Taken
  <2> QED
    BY <2>5, <2>6, <2>7 DEF Taken
<1> QED
  BY <1>5, <1>6, <1>7, <1>8, <1>9 DEF IInv

(* The runtime breaks: no job becomes active.                                *)
LEMMA BreakMoves ==
    ASSUME Types, Break
    PROVE  /\ job' \in [Submitter -> {"new", "queued", "running", "over"}]
           /\ \A s \in Submitter : Active(s)' => Active(s)
           /\ state' = "Broken"
BY DEF Types, Break, Active

(* The bootstrap keeps the invariant while it creates no thread.             *)
LEMMA BootKeeps ==
    ASSUME IInv, NEW t \in Thread,
           BootLock(t) \/ BootLook(t) \/ BootSpawnFails(t) \/ BootBreak(t) \/ BootDone(t)
    PROVE  IInv'
<1> DEFINE at(pc) == [thread[t] EXCEPT !.pc = pc]
<1>1. thread[t] \in ThreadRecord /\ Thread = DOMAIN thread
  BY DEF IInv, Types, Thread
<1>2. ASSUME NEW pc \in {"boot", "look", "spawn", "failed", "work", "panicked", "exited"}
      PROVE  /\ at(pc) \in ThreadRecord
             /\ at(pc).pc = pc
             /\ at(pc).first = thread[t].first
             /\ at(pc).next = thread[t].next
             /\ at(pc).panics = thread[t].panics
             /\ Set(t, "pc", pc) = [thread EXCEPT ![t] = at(pc)]
  BY <1>1 DEF ThreadRecord, Set
<1>3. /\ thread[t].pc \in {"look", "spawn"} => lock = t /\ thread[t].next < Workers
      /\ thread[t].pc \in {"boot", "look", "spawn", "failed"} =>
            thread[t].first /\ thread[t].panics < PanicLimit
  BY DEF IInv, Locked
<1> HIDE DEF at
<1>4. CASE BootLock(t)
  <2>1. StateMoves(t, at("look"))
    BY <1>2, <1>4 DEF BootLock, StateMoves, IInv, Types, Active
  <2>2. ThreadMoves(t, at("look"))
    BY <1>2, <1>3, <1>4 DEF BootLock, ThreadMoves
  <2> QED
    BY <1>2, <2>1, <2>2, ThreadMovesKeeps
<1>5. CASE BootLook(t)
  <2>1. ASSUME NEW pc \in {"spawn", "work"}
        PROVE  StateMoves(t, at(pc))
    BY <1>2, <1>5 DEF BootLook, StateMoves, IInv, Types, Active
  <2>2. CASE Open
    <3>1. ThreadMoves(t, at("spawn"))
      BY <1>2, <1>3, <1>5, <2>2 DEF BootLook, ThreadMoves
    <3> QED
      BY <1>2, <2>1, <3>1, ThreadMovesKeeps
  <2>3. CASE ~Open
    <3>1. ThreadMoves(t, at("work"))
      BY <1>2, <1>3, <1>5, <2>3 DEF BootLook, ThreadMoves
    <3> QED
      BY <1>2, <2>1, <3>1, ThreadMovesKeeps
  <2> QED
    BY <2>2, <2>3
<1>6. CASE BootSpawnFails(t)
  <2>1. StateMoves(t, at("failed"))
    BY <1>2, <1>6 DEF BootSpawnFails, StateMoves, IInv, Types, Active
  <2>2. ThreadMoves(t, at("failed"))
    BY <1>2, <1>3, <1>6 DEF BootSpawnFails, ThreadMoves
  <2> QED
    BY <1>2, <2>1, <2>2, ThreadMovesKeeps
<1>7. CASE BootBreak(t)
  <2>1. StateMoves(t, at("work"))
    BY <1>2, <1>7, BreakMoves DEF BootBreak, StateMoves, IInv
  <2>2. ThreadMoves(t, at("work"))
    BY <1>2, <1>3, <1>7 DEF BootBreak, ThreadMoves
  <2> QED
    BY <1>2, <2>1, <2>2, ThreadMovesKeeps
<1>8. CASE BootDone(t)
  <2>1. StateMoves(t, at("work"))
    BY <1>2, <1>3, <1>8 DEF BootDone, StateMoves, IInv, Types, Active
  <2>2. ThreadMoves(t, at("work"))
    BY <1>2, <1>3, <1>8 DEF BootDone, ThreadMoves
  <2> QED
    BY <1>2, <2>1, <2>2, ThreadMovesKeeps
<1> QED
  BY <1>4, <1>5, <1>6, <1>7, <1>8

(* Running jobs, panics and the supervisor keep the invariant.               *)
LEMMA WorkKeeps ==
    ASSUME IInv, NEW t \in Thread, WorkStep(t) \/ Panic(t)
    PROVE  IInv'
<1> DEFINE o == thread[t]
           JobType == [Submitter -> {"new", "queued", "running", "over"}]
<1>1. /\ o \in ThreadRecord /\ Thread = DOMAIN thread
      /\ job \in JobType
  BY DEF IInv, Types, Thread
<1>2. /\ o.pc \notin {"panicked", "exited"} => o.panics < PanicLimit
      /\ o.runs \subseteq Submitter
      /\ o.panics \in 0..PanicLimit /\ PanicLimit = 3
  BY <1>1 DEF IInv, Locked, ThreadRecord, PanicLimit
<1>3. CASE StartJob(t)
  <2>1. PICK s \in Submitter : /\ job[s] = "queued"
                               /\ job' = [job EXCEPT ![s] = "running"]
                               /\ thread' = Set(t, "runs", thread[t].runs \cup {s})
    BY <1>3 DEF StartJob
  <2> DEFINE r == [o EXCEPT !.runs = o.runs \cup {s}]
  <2>2. /\ r \in ThreadRecord /\ r.first = o.first /\ r.next = o.next
        /\ r.pc = o.pc /\ r.panics = o.panics
        /\ thread' = [thread EXCEPT ![t] = r]
    BY <1>1, <1>2, <2>1 DEF ThreadRecord, Set
  <2> HIDE DEF r, o
  <2>3. StateMoves(t, r)
    BY <1>1, <1>3, <2>1, <2>2 DEF StartJob, StateMoves, Active, o
  <2>4. ThreadMoves(t, r)
    BY <1>2, <1>3, <2>2 DEF StartJob, ThreadMoves, o
  <2> QED
    BY <2>2, <2>3, <2>4, ThreadMovesKeeps
<1>4. CASE EndJob(t)
  <2>1. PICK s \in o.runs :
           /\ job' = [job EXCEPT ![s] = "over"]
           /\ thread' = [thread EXCEPT ![t].runs = @ \ {s}, ![t].progress = TRUE]
    BY <1>4 DEF EndJob
  <2> DEFINE r == [o EXCEPT !.runs = o.runs \ {s}, !.progress = TRUE]
  <2>2. /\ r \in ThreadRecord /\ r.first = o.first /\ r.next = o.next
        /\ r.pc = o.pc /\ r.panics = o.panics
        /\ thread' = [thread EXCEPT ![t] = r]
    BY <1>1, <1>2, <2>1 DEF ThreadRecord
  <2> HIDE DEF r, o
  <2>3. StateMoves(t, r)
    BY <1>1, <1>2, <1>4, <2>1, <2>2 DEF EndJob, StateMoves, Active, o
  <2>4. ThreadMoves(t, r)
    BY <1>2, <1>4, <2>2 DEF EndJob, ThreadMoves, o
  <2> QED
    BY <2>2, <2>3, <2>4, ThreadMovesKeeps
<1>5. CASE Leave(t)
  <2> DEFINE r == [o EXCEPT !.pc = "exited", !.runs = {}]
  <2>1. /\ r \in ThreadRecord /\ r.first = o.first /\ r.next = o.next
        /\ r.pc = "exited"
        /\ thread' = [thread EXCEPT ![t] = r]
    BY <1>1, <1>5 DEF ThreadRecord, Leave
  <2> HIDE DEF r, o
  <2>2. StateMoves(t, r)
    BY <1>1, <1>5, <2>1 DEF Leave, StateMoves, Active, Open, IInv, Types, RuntimeState
  <2>3. ThreadMoves(t, r)
    BY <1>5, <2>1 DEF Leave, ThreadMoves, o
  <2> QED
    BY <2>1, <2>2, <2>3, ThreadMovesKeeps
<1>6. CASE Panic(t)
  <2> DEFINE n == IF o.progress THEN 1 ELSE o.panics + 1
             r == [o EXCEPT !.pc = "panicked", !.runs = {}, !.panics = n, !.progress = FALSE]
  <2>1. n \in 0..PanicLimit
    BY <1>2, <1>6 DEF Panic
  <2>2. thread' = [thread EXCEPT ![t] = r]
    BY <1>1, <1>6 DEF ThreadRecord, Panic
  <2> HIDE DEF n
  <2>3. /\ r \in ThreadRecord /\ r.first = o.first /\ r.next = o.next
        /\ r.pc = "panicked"
    BY <1>1, <2>1 DEF ThreadRecord
  <2> HIDE DEF r, o
  <2>4. StateMoves(t, r)
    BY <1>1, <1>6, <2>3 DEF Panic, StateMoves, Active
  <2>5. ThreadMoves(t, r)
    BY <1>6, <2>2, <2>3 DEF Panic, ThreadMoves, o
  <2> QED
    BY <2>3, <2>4, <2>5, ThreadMovesKeeps
<1>7. CASE Supervise(t)
  <2> DEFINE at(pc) == [o EXCEPT !.pc = pc]
  <2>1. ASSUME NEW pc \in {"work", "exited"}
        PROVE  /\ at(pc) \in ThreadRecord /\ at(pc).pc = pc
               /\ at(pc).first = o.first /\ at(pc).next = o.next
               /\ at(pc).panics = o.panics
               /\ Set(t, "pc", pc) = [thread EXCEPT ![t] = at(pc)]
    BY <1>1 DEF ThreadRecord, Set
  <2> HIDE DEF at, o
  <2>2. CASE thread[t].panics >= PanicLimit
    <3>1. StateMoves(t, at("exited"))
      BY <1>7, <2>1, <2>2, BreakMoves DEF Supervise, StateMoves, IInv
    <3>2. ThreadMoves(t, at("exited"))
      BY <1>7, <2>1, <2>2 DEF Supervise, ThreadMoves, o
    <3> QED
      BY <2>1, <3>1, <3>2, ThreadMovesKeeps
  <2>3. CASE ~(thread[t].panics >= PanicLimit)
    <3>1. StateMoves(t, at("work"))
      BY <1>1, <1>7, <2>1, <2>3 DEF Supervise, StateMoves, Active
    <3>2. ThreadMoves(t, at("work"))
      BY <1>2, <1>7, <2>1, <2>3 DEF Supervise, ThreadMoves, o
    <3> QED
      BY <2>1, <3>1, <3>2, ThreadMovesKeeps
  <2> QED
    BY <2>2, <2>3
<1> QED
  BY <1>3, <1>4, <1>5, <1>6, <1>7 DEF WorkStep

-----------------------------------------------------------------------------
(* Steps that create a thread.                                               *)

(* The next thread gets the next number.                                     *)
LEMMA CreatedIs ==
    ASSUME Types, NEW first \in BOOLEAN
    PROVE  LET n == Cardinality(Thread) + 1 IN
           /\ n \in Nat \ {0} /\ n \notin Thread
           /\ DOMAIN Created(first) = Thread \cup {n}
           /\ Thread \cup {n} = 1..n
           /\ Created(first)[n] = NewThread(first)
           /\ \A t \in Thread : Created(first)[t] = thread[t]
           /\ NewThread(first) \in ThreadRecord
           /\ Cardinality(Thread \cup {n}) = n
<1> DEFINE n == Cardinality(Thread) + 1
<1>1. n \in Nat \ {0} /\ n \notin Thread /\ Thread \cup {n} = 1..n
  BY Numbers
<1>2. Cardinality(Thread \cup {n}) = n
  BY <1>1, Numbers, FS_AddElement
<1>3. NewThread(first) \in ThreadRecord
  BY BootstrapAssumption DEF NewThread, ThreadRecord, PanicLimit
<1> QED
  BY <1>1, <1>2, <1>3 DEF Created

(* The first worker, created by a submission, keeps the invariant.           *)
LEMMA SpawnFirstKeeps ==
    ASSUME IInv, NEW s \in Submitter, SpawnFirst(s)
    PROVE  IInv'
<1> DEFINE n == Cardinality(Thread) + 1
           r == NewThread(TRUE)
<1>1. /\ n \in Nat \ {0} /\ n \notin Thread
      /\ Thread' = Thread \cup {n} /\ Thread' = 1..n
      /\ Cardinality(Thread') = n
  BY CreatedIs DEF IInv, SpawnFirst, Thread
<1>2. \A t \in Thread' : thread'[t] = IF t = n THEN r ELSE thread[t]
  BY <1>1, CreatedIs DEF IInv, SpawnFirst
<1>3. thread' \in [Thread' -> ThreadRecord]
  <2>1. r \in ThreadRecord /\ thread \in [Thread -> ThreadRecord]
    BY CreatedIs DEF IInv, Types
  <2>2. thread' = [t \in Thread' |-> IF t = n THEN r ELSE thread[t]]
    BY <1>1, <1>2 DEF SpawnFirst, Created
  <2> QED
    BY <1>1, <2>1, <2>2
<1>4. /\ r.pc = IF TRUE THEN "boot" ELSE "work"
      /\ r.first /\ r.next = 1 /\ r.panics = 0
  BY DEF NewThread
<1>5. /\ UNCHANGED <<state, job, shut>>
      /\ list = {} /\ list' = {n} /\ lock = s /\ lock' = Free
      /\ sub' = [sub EXCEPT ![s] = "back"] /\ sub[s] = "spawning"
  BY DEF SpawnFirst, IInv, Locked
<1> HIDE DEF n, r
<1>6. Types'
  <2>1. shut' \in [Shutter -> [pc : {"idle", "take", "join", "back"},
                     handles : SUBSET Thread', detached : SUBSET Thread',
                     late : BOOLEAN]]
    BY <1>1, <1>5 DEF IInv, Types, ShutRecord
  <2> QED
    BY <1>1, <1>3, <1>5, <2>1 DEF IInv, Types, ShutRecord, ThreadRecord
<1>7. Locked'
  <2>1. \A i \in Submitter : i # s => sub[i] # "spawning"
    BY <1>5 DEF IInv, Locked
  <2>2. \A t \in Thread : thread[t].pc \notin {"look", "spawn"}
    BY <1>5, BootstrapAssumption DEF IInv, Locked, Types
  <2>3. \A i \in Submitter : sub'[i] # "spawning"
    BY <1>5, <2>1 DEF IInv, Types
  <2>4. 0 < PanicLimit
    BY DEF PanicLimit
  <2>5. ASSUME NEW t \in Thread'
        PROVE  /\ thread'[t].pc \notin {"look", "spawn"}
               /\ thread'[t].pc \in {"boot", "failed"} => thread'[t].first
               /\ thread'[t].pc \notin {"panicked", "exited"} => thread'[t].panics < PanicLimit
    <3>1. CASE t = n
      BY <1>2, <1>4, <2>4, <3>1
    <3>2. CASE t # n
      <4>1. t \in Thread /\ thread'[t] = thread[t]
        BY <1>1, <1>2, <3>2
      <4> QED
        BY <2>2, <4>1 DEF IInv, Locked
    <3> QED
      BY <3>1, <3>2
  <2> QED
    BY <2>3, <2>5 DEF Locked
<1>8. Counted'
  <2>1. Undisturbed' = Undisturbed /\ Open' = Open
    BY <1>5 DEF Undisturbed, Open
  <2>2. Undisturbed => Thread = {}
    BY <1>5 DEF IInv, Counted
  <2>3. Cardinality(Returned') = Cardinality(Returned) + 1 /\ Cardinality(Returned) \in Nat
    <3>1. Returned' = Returned \cup {s} /\ s \notin Returned
      BY <1>5 DEF IInv, Types, Returned
    <3>2. IsFiniteSet(Returned)
      BY BootstrapAssumption, FS_Subset DEF Returned
    <3> QED
      BY <3>1, <3>2, FS_AddElement, FS_CardinalityType
  <2>4. CASE Thread = {}
    <3>1. n = 1 /\ Thread' = {1} /\ thread'[1] = r
      BY <1>1, <1>2, <2>4, FS_EmptySet DEF n
    <3> QED
      BY <1>1, <1>4, <1>5, <2>1, <2>3, <3>1, <2>4 DEF IInv, Counted
  <2>5. CASE Thread # {}
    <3>1. 1 \in Thread /\ n # 1
      BY <1>1, <2>5 DEF IInv, Types
    <3>2. ~Undisturbed /\ ~Open
      BY <2>2, <2>5 DEF IInv, Counted
    <3>3. thread'[1] = thread[1] /\ thread[1] \in ThreadRecord
      BY <1>1, <1>2, <3>1 DEF IInv, Types
    <3>4. n <= thread[1].next - 1 + Cardinality(Returned')
      <4>1. Cardinality(Thread) <= thread[1].next - 1 + Cardinality(Returned)
        BY <2>5 DEF IInv, Counted
      <4>2. thread[1].next \in Nat /\ Cardinality(Thread) \in Nat
        BY <3>3, Numbers, BootstrapAssumption DEF IInv, ThreadRecord
      <4> QED
        BY <2>3, <4>1, <4>2 DEF n
    <3>5. state # "Running" /\ state' = state
      BY <1>5, <3>2 DEF Open
    <3>6. thread[1].first
      BY <2>5 DEF IInv, Counted
    <3> QED
      BY <1>1, <2>1, <3>2, <3>3, <3>4, <3>5, <3>6 DEF Counted
  <2> QED
    BY <2>4, <2>5
<1>9. OpenPoolIsAlive'
  <2>1. ASSUME Open', NEW t \in Thread'
        PROVE  thread'[t].pc # "exited"
    <3>1. CASE t = n
      BY <1>2, <1>4, <3>1
    <3>2. CASE t # n
      <4>1. t \in Thread /\ thread'[t] = thread[t]
        BY <1>1, <1>2, <3>2
      <4>2. Open
        BY <1>5, <2>1 DEF Open
      <4> QED
        BY <4>1, <4>2 DEF IInv, OpenPoolIsAlive
    <3> QED
      BY <3>1, <3>2
  <2> QED
    BY <1>1, <2>1 DEF OpenPoolIsAlive
<1>10. Taken'
  <2>1. \A c \in Shutter : (Took(c)' <=> Took(c)) /\ shut'[c] = shut[c]
    BY <1>5 DEF Took
  <2>2. ASSUME NEW t \in Thread'
        PROVE  /\ thread'[t].pc # "spawn"
               /\ t \in list' => thread'[t].first
               /\ ~thread'[t].first => t \in list' \/ Accounted(t)'
    <3>1. CASE t = n
      BY <1>2, <1>4, <3>1
    <3>2. CASE t # n
      <4>1. t \in Thread /\ thread'[t] = thread[t] /\ t \notin list'
        BY <1>1, <1>2, <1>5, <3>2
      <4>2. thread[t].pc # "spawn"
        BY <1>5, <4>1, BootstrapAssumption DEF IInv, Locked, Types
      <4>3. ~thread[t].first => Accounted(t)
        BY <1>5, <4>1 DEF IInv, Taken
      <4>4. Accounted(t) => Accounted(t)'
        BY <1>5, <4>1 DEF Accounted
      <4> QED
        BY <4>1, <4>2, <4>3, <4>4
    <3> QED
      BY <3>1, <3>2
  <2>3. \A c \in Shutter : ~Took(c)' => shut'[c].handles = {}
    BY <2>1 DEF IInv, Taken
  <2> QED
    BY <2>2, <2>3 DEF Taken
<1> QED
  BY <1>6, <1>7, <1>8, <1>9, <1>10 DEF IInv

(* A sibling, created by the bootstrap of thread 1, keeps the invariant.     *)
LEMMA BootSpawnKeeps ==
    ASSUME IInv, NEW t \in Thread, BootSpawn(t)
    PROVE  IInv'
<1> DEFINE n == Cardinality(Thread) + 1
           r == NewThread(FALSE)
           o == [thread[t] EXCEPT !.pc = "boot", !.next = thread[t].next + 1]
<1>1. /\ n \in Nat \ {0} /\ n \notin Thread
      /\ Created(FALSE)[n] = r /\ r \in ThreadRecord
      /\ DOMAIN Created(FALSE) = Thread \cup {n}
      /\ \A i \in Thread : Created(FALSE)[i] = thread[i]
      /\ Thread \cup {n} = 1..n
      /\ Cardinality(Thread \cup {n}) = n
  BY CreatedIs DEF IInv
<1>2. Thread' = Thread \cup {n}
  BY <1>1 DEF BootSpawn, Thread
<1>3. /\ t = 1 /\ thread[t].first /\ thread[t].next < Workers /\ lock = t
      /\ thread[t].panics < PanicLimit
      /\ thread[t] \in ThreadRecord
  BY DEF BootSpawn, IInv, Locked, Types
<1>4. /\ o \in ThreadRecord
      /\ o.pc = "boot" /\ o.next = thread[t].next + 1
      /\ o.first = thread[t].first /\ o.panics = thread[t].panics
  <2> DEFINE m == thread[t].next + 1
  <2>1. thread[t].next \in 1..Workers
    BY <1>3 DEF ThreadRecord
  <2>2. m \in 1..Workers
    BY <1>3, <2>1, BootstrapAssumption
  <2> HIDE DEF m
  <2>3. o = [thread[t] EXCEPT !.pc = "boot", !.next = m]
    BY DEF m
  <2>4. o \in ThreadRecord /\ o.next = m
    BY <1>3, <2>2, <2>3 DEF ThreadRecord
  <2> QED
    BY <1>3, <2>3, <2>4 DEF ThreadRecord, m
<1>5. /\ r.pc = "work" /\ ~r.first /\ r.next = 1 /\ r.panics = 0
  BY DEF NewThread
<1>6. /\ thread'[t] = o
      /\ thread'[n] = r
      /\ \A i \in Thread : i # t => thread'[i] = thread[i]
  BY <1>1, <1>2 DEF BootSpawn
<1>7. thread' \in [Thread' -> ThreadRecord]
  <2>1. \A i \in Thread' : thread'[i] \in ThreadRecord
    BY <1>1, <1>2, <1>4, <1>6 DEF IInv, Types
  <2>2. thread' = [i \in Thread' |-> thread'[i]]
    BY <1>1, <1>2 DEF BootSpawn
  <2> QED
    BY <2>1, <2>2
<1>8. /\ UNCHANGED <<state, job, sub, shut>>
      /\ list' = list \cup {n} /\ lock' = Free
  BY DEF BootSpawn
<1> HIDE DEF n, r, o
<1>9. Types'
  <2>1. shut' \in [Shutter -> [pc : {"idle", "take", "join", "back"},
                     handles : SUBSET Thread', detached : SUBSET Thread',
                     late : BOOLEAN]]
    BY <1>2, <1>8 DEF IInv, Types, ShutRecord
  <2> QED
    BY <1>1, <1>2, <1>7, <1>8, <2>1 DEF IInv, Types, ShutRecord, ThreadRecord
<1>10. Locked'
  <2>1. \A s \in Submitter : sub'[s] # "spawning"
    BY <1>1, <1>3, <1>8, BootstrapAssumption DEF IInv, Locked, Types
  <2>2. 0 < PanicLimit
    BY DEF PanicLimit
  <2>3. ASSUME NEW i \in Thread'
        PROVE  /\ thread'[i].pc \notin {"look", "spawn"}
               /\ thread'[i].pc \in {"boot", "failed"} => thread'[i].first
               /\ thread'[i].pc \notin {"panicked", "exited"} => thread'[i].panics < PanicLimit
    <3>1. CASE i = n
      BY <1>5, <1>6, <2>2, <3>1
    <3>2. CASE i = t
      BY <1>3, <1>4, <1>6, <3>2
    <3>3. CASE i \notin {n, t}
      <4>1. i \in Thread /\ thread'[i] = thread[i]
        BY <1>2, <1>6, <3>3
      <4>2. thread[i].pc \notin {"look", "spawn"}
        BY <1>3, <3>3, <4>1 DEF IInv, Locked
      <4> QED
        BY <4>1, <4>2 DEF IInv, Locked
    <3> QED
      BY <3>1, <3>2, <3>3
  <2> QED
    BY <2>1, <2>3 DEF Locked
<1>11. Counted'
  <2>1. /\ Undisturbed' = Undisturbed /\ Open' = Open
        /\ Returned' = Returned /\ state' = state
    BY <1>8 DEF Undisturbed, Open, Returned
  <2>2. 1 \in Thread /\ thread'[1] = o /\ Cardinality(Thread') = n
    BY <1>1, <1>2, <1>3, <1>6
  <2>3. thread[1].next \in Nat /\ Cardinality(Thread) \in Nat /\ Workers \in Nat
    BY <1>3, Numbers, BootstrapAssumption DEF IInv, ThreadRecord
  <2>4. Cardinality(Returned) \in Nat
    BY BootstrapAssumption, FS_Subset, FS_CardinalityType DEF Returned
  <2>5. n <= o.next - 1 + Cardinality(Returned')
    <3>1. Cardinality(Thread) <= thread[1].next - 1 + Cardinality(Returned)
      BY <2>2 DEF IInv, Counted
    <3> QED
      BY <1>3, <1>4, <2>1, <2>3, <2>4, <3>1 DEF n
  <2>6. Undisturbed => list' = Thread' /\ n = o.next
    <3>1. Undisturbed => list = Thread /\ Cardinality(Thread) = thread[1].next
      BY <2>2 DEF IInv, Counted
    <3> QED
      BY <1>2, <1>3, <1>4, <1>8, <2>3, <3>1 DEF n
  <2>7. state # "Running"
    BY <1>3, <2>3 DEF IInv, Counted
  <2>8. ASSUME NEW i \in Thread', i # 1, thread'[i].first
        PROVE  ~Open
    <3>1. i # n
      BY <1>5, <1>6, <2>8
    <3>2. i \in Thread /\ thread'[i] = thread[i]
      BY <1>2, <1>3, <1>6, <2>8, <3>1
    <3> QED
      BY <2>8, <3>2 DEF IInv, Counted
  <2>9. o.first
    BY <1>3, <1>4
  <2>10. (Open => Undisturbed) /\ (state = "Closed" => ~Undisturbed)
    BY DEF IInv, Counted
  <2> QED
    BY <2>1, <2>2, <2>5, <2>6, <2>7, <2>8, <2>9, <2>10 DEF Counted
<1>12. OpenPoolIsAlive'
  <2>1. ASSUME Open', NEW i \in Thread'
        PROVE  thread'[i].pc # "exited"
    <3>1. Open
      BY <1>8, <2>1 DEF Open
    <3>2. CASE i \in {n, t}
      BY <1>4, <1>5, <1>6, <3>2
    <3>3. CASE i \notin {n, t}
      BY <1>2, <1>6, <3>1, <3>3 DEF IInv, OpenPoolIsAlive
    <3> QED
      BY <3>2, <3>3
  <2> QED
    BY <1>2, <2>1 DEF OpenPoolIsAlive
<1>13. Taken'
  <2>1. \A c \in Shutter : (Took(c)' <=> Took(c)) /\ shut'[c] = shut[c]
    BY <1>8 DEF Took
  <2>2. \A c \in Shutter : ~Took(c)
    <3>1. thread[t].pc = "spawn"
      BY DEF BootSpawn
    <3> QED
      BY <3>1 DEF IInv, Taken
  <2>3. ASSUME NEW i \in Thread', ~thread'[i].first
        PROVE  i \in list' \/ Accounted(i)'
    <3>1. CASE i = n
      BY <1>8, <3>1
    <3>2. CASE i # n
      <4>1. i \in Thread /\ i # t /\ thread'[i] = thread[i]
        BY <1>2, <1>3, <1>4, <1>6, <2>3, <3>2
      <4>2. Accounted(i) => Accounted(i)'
        BY <1>8, <4>1 DEF Accounted
      <4>3. i \in list \/ Accounted(i)
        BY <2>3, <4>1 DEF IInv, Taken
      <4> QED
        BY <1>8, <4>2, <4>3
    <3> QED
      BY <3>1, <3>2
  <2>4. \A c \in Shutter : ~Took(c)' => shut'[c].handles = {}
    BY <2>1 DEF IInv, Taken
  <2> QED
    BY <2>1, <2>2, <2>3, <2>4 DEF Taken
<1> QED
  BY <1>9, <1>10, <1>11, <1>12, <1>13 DEF IInv

-----------------------------------------------------------------------------
(* Steps of the callers, which leave the threads alone.                      *)

(* A submission moves; the runtime keeps running, or breaks, and the number  *)
(* of returned submissions does not shrink.                                  *)
SubmitMoves(s) ==
    /\ UNCHANGED <<list, thread, shut>>
    /\ \E to \in {"admitted", "spawning", "back"} : sub' = [sub EXCEPT ![s] = to]
    /\ sub[s] # "back"
    /\ job' \in [Submitter -> {"new", "queued", "running", "over"}]
    /\ \/ state' \in {state, "Broken"}
       \/ state = "Cold" /\ state' = "Starting"
    /\ \/ /\ lock' = lock /\ sub[s] # "spawning" /\ sub'[s] # "spawning"
       \/ /\ lock = Free /\ lock' = s /\ sub'[s] = "spawning" /\ list = {}
       \/ /\ lock = s /\ lock' = Free /\ sub'[s] = "back"

(* So does a step of a submitter that creates no thread.                     *)
LEMMA SubmitMovesKeeps ==
    ASSUME IInv, NEW s \in Submitter, SubmitMoves(s), OpenPoolIsAlive'
    PROVE  IInv'
<1>1. /\ UNCHANGED <<list, thread, shut>> /\ Thread' = Thread
      /\ Open' => Open
      /\ state' \in RuntimeState
      /\ state' = "Closed" => state = "Closed"
      /\ state' = "Running" => state = "Running"
  BY DEF SubmitMoves, IInv, Types, Thread, Open, RuntimeState
<1>2. PICK to \in {"admitted", "spawning", "back"} : sub' = [sub EXCEPT ![s] = to]
  BY DEF SubmitMoves
<1>3. /\ sub' \in [Submitter -> {"idle", "admitted", "spawning", "back"}]
      /\ sub'[s] = to
      /\ \A i \in Submitter : i # s => sub'[i] = sub[i]
  BY <1>2 DEF IInv, Types
<1>4. Types'
  <2>1. lock' \in {Free} \cup Submitter \cup Thread
    BY DEF SubmitMoves, IInv, Types
  <2>2. /\ thread' \in [Thread' -> ThreadRecord]
        /\ shut' \in [Shutter -> ShutRecord]
        /\ ShutRecord' = ShutRecord
    BY <1>1 DEF IInv, Types, ShutRecord
  <2>3. list' \subseteq Thread' /\ \E n \in Nat : Thread' = 1..n
    BY <1>1 DEF IInv, Types
  <2>4. job' \in [Submitter -> {"new", "queued", "running", "over"}]
    BY DEF SubmitMoves
  <2> QED
    BY <1>1, <1>3, <2>1, <2>2, <2>3, <2>4 DEF Types
<1>5. Locked'
  <2>1. ASSUME NEW i \in Submitter, sub'[i] = "spawning"
        PROVE  lock' = i /\ list = {}
    <3>1. CASE i = s
      BY <2>1, <3>1 DEF SubmitMoves, IInv, Locked
    <3>2. CASE i # s
      BY <1>3, <2>1, <3>2, BootstrapAssumption DEF SubmitMoves, IInv, Locked, Free
    <3> QED
      BY <3>1, <3>2
  <2>2. ASSUME NEW t \in Thread, thread[t].pc \in {"look", "spawn"}
        PROVE  lock' = t
    <3>1. lock = t /\ t # Free /\ t # s
      BY <2>2, BootstrapAssumption DEF IInv, Locked, Types, Free
    <3> QED
      BY <3>1 DEF SubmitMoves
  <2> QED
    BY <1>1, <2>1, <2>2 DEF IInv, Locked
<1>6. Counted'
  <2>1. Undisturbed' = Undisturbed
    BY <1>1 DEF Undisturbed
  <2>2. /\ Cardinality(Returned) <= Cardinality(Returned')
        /\ Cardinality(Returned) \in Nat /\ Cardinality(Returned') \in Nat
    <3>1. Returned \subseteq Returned'
      BY <1>3 DEF SubmitMoves, Returned
    <3>2. IsFiniteSet(Returned')
      BY BootstrapAssumption, FS_Subset DEF Returned
    <3> QED
      BY <3>1, <3>2, FS_Subset, FS_CardinalityType
  <2>3. Thread # {} => /\ thread[1].next \in Nat
                       /\ Cardinality(Thread) \in Nat
                       /\ Cardinality(Thread) <= thread[1].next - 1 + Cardinality(Returned)
    <3>1. Thread # {} => 1 \in Thread /\ thread[1] \in ThreadRecord
      BY DEF IInv, Types
    <3> QED
      BY <3>1, Numbers, BootstrapAssumption DEF IInv, Counted, ThreadRecord
  <2>4. Thread # {} => Cardinality(Thread) <= thread[1].next - 1 + Cardinality(Returned')
    BY <2>2, <2>3
  <2> QED
    BY <1>1, <2>1, <2>4 DEF IInv, Counted
<1>7. Taken'
  <2>1. \A c \in Shutter : (Took(c)' <=> Took(c)) /\ shut'[c] = shut[c]
    BY <1>1 DEF Took
  <2>2. \A t \in Thread : Accounted(t)' <=> Accounted(t)
    BY <1>1 DEF Accounted
  <2> QED
    BY <1>1, <2>1, <2>2 DEF IInv, Taken
<1> QED
  BY <1>4, <1>5, <1>6, <1>7 DEF IInv

(* submit keeps the invariant, also when a thread cannot be created.         *)
LEMMA SubmitKeeps ==
    ASSUME IInv, NEW s \in Submitter, SubmitStep(s)
    PROVE  IInv'
<1>1. /\ sub \in [Submitter -> {"idle", "admitted", "spawning", "back"}]
      /\ job \in [Submitter -> {"new", "queued", "running", "over"}]
      /\ list \subseteq Thread
      /\ sub[s] = "spawning" => lock = s /\ list = {}
  BY DEF IInv, Types, Locked
<1>2. CASE Admit(s)
  <2>1. SubmitMoves(s)
    <3>1. CASE Open
      BY <1>1, <1>2, <3>1 DEF Admit, SubmitMoves
    <3>2. CASE ~Open
      BY <1>1, <1>2, <3>2 DEF Admit, SubmitMoves
    <3> QED
      BY <3>1, <3>2
  <2>2. OpenPoolIsAlive'
    <3>1. CASE Open
      BY <1>1, <1>2, <3>1 DEF Admit, IInv, OpenPoolIsAlive, Thread
    <3>2. CASE ~Open
      BY <1>2, <3>2 DEF Admit, OpenPoolIsAlive, Open
    <3> QED
      BY <3>1, <3>2
  <2> QED
    BY <2>1, <2>2, SubmitMovesKeeps
<1>3. CASE FindList(s)
  <2>1. SubmitMoves(s)
    <3>1. CASE list = {}
      BY <1>1, <1>3, <3>1 DEF FindList, SubmitMoves
    <3>2. CASE list # {}
      BY <1>1, <1>3, <3>2 DEF FindList, SubmitMoves
    <3> QED
      BY <3>1, <3>2
  <2>2. OpenPoolIsAlive'
    <3>1. CASE list = {}
      <4>1. sub'[s] = "spawning"
        BY <1>1, <1>3, <3>1 DEF FindList
      <4> QED
        BY <1>3, <4>1 DEF FindList, IInv, OpenPoolIsAlive, Thread, Open
    <3>2. CASE list # {}
      <4>1. Thread # {}
        BY <1>1, <3>2
      <4> QED
        BY <1>3, <4>1 DEF FindList, IInv, OpenPoolIsAlive, Thread, Open
    <3> QED
      BY <3>1, <3>2
  <2> QED
    BY <2>1, <2>2, SubmitMovesKeeps
<1>4. CASE SpawnFirst(s)
  BY <1>4, SpawnFirstKeeps
<1>5. CASE SpawnFirstFails(s)
  <2>1. SubmitMoves(s)
    BY <1>1, <1>5, BreakMoves DEF SpawnFirstFails, SubmitMoves, IInv
  <2>2. OpenPoolIsAlive'
    BY <1>5 DEF SpawnFirstFails, Break, OpenPoolIsAlive, Open
  <2> QED
    BY <2>1, <2>2, SubmitMovesKeeps
<1> QED
  BY <1>2, <1>3, <1>4, <1>5 DEF SubmitStep

(* A shutdown moves: it has closed the runtime, and a thread whose handle it *)
(* had it still has or reports, unless that thread has exited.               *)
ShutMoves(c, r) ==
    /\ UNCHANGED <<lock, thread, sub>>
    /\ shut' = [shut EXCEPT ![c] = r]
    /\ r.pc # "idle"
    /\ job' \in [Submitter -> {"new", "queued", "running", "over"}]
    /\ ~Open' /\ state' \in {state, "Closed"}
    /\ \/ list' = list
       \/ list' = {} /\ lock = Free /\ list \subseteq r.handles
    /\ r.pc \in {"join", "back"} => Took(c) \/ (list' = {} /\ lock = Free)
    /\ r.pc = "take" => r.handles = {}
    /\ \A t \in shut[c].handles \cup shut[c].detached :
          t \in r.handles \cup r.detached \/ thread[t].pc = "exited"

(* So does a step of a shutdown, which closes the pool and takes the list.   *)
LEMMA ShutMovesKeeps ==
    ASSUME IInv, NEW c \in Shutter, NEW r \in ShutRecord, ShutMoves(c, r)
    PROVE  IInv'
<1>1. /\ UNCHANGED <<lock, thread, sub>> /\ Thread' = Thread
      /\ ~Open' /\ state' \in RuntimeState /\ state' # "Running"
      /\ list' \in {list, {}}
  BY DEF ShutMoves, IInv, Types, Thread, Open, RuntimeState
<1>2. /\ shut' \in [Shutter -> ShutRecord]
      /\ shut'[c] = r
      /\ \A i \in Shutter : i # c => shut'[i] = shut[i]
  BY DEF ShutMoves, IInv, Types
<1>3. Types'
  BY <1>1, <1>2 DEF ShutMoves, IInv, Types, ShutRecord, ThreadRecord
<1>4. Locked'
  BY <1>1 DEF IInv, Locked
<1>5. Counted'
  <2>1. ~Undisturbed'
    BY <1>2 DEF ShutMoves, Undisturbed
  <2>2. Returned' = Returned
    BY <1>1 DEF Returned
  <2> QED
    BY <1>1, <2>1, <2>2 DEF IInv, Counted
<1>6. OpenPoolIsAlive'
  BY <1>1 DEF OpenPoolIsAlive
<1>7. Taken'
  <2>1. \A i \in Shutter : ~Took(i)' => shut'[i].handles = {}
    <3>1. ASSUME ~Took(c)'
          PROVE  r.handles = {}
      BY <1>2, <3>1 DEF ShutMoves, ShutRecord, Took
    <3>2. ASSUME NEW i \in Shutter, i # c, ~Took(i)'
          PROVE  shut'[i].handles = {}
      BY <1>2, <3>2 DEF IInv, Taken, Took
    <3> QED
      BY <1>2, <3>1, <3>2
  <2>2. ASSUME NEW i \in Shutter, Took(i)', NEW t \in Thread
        PROVE  thread[t].pc # "spawn" /\ (t \in list' => thread[t].first)
    <3>1. CASE \E k \in Shutter : Took(k)
      BY <1>1, <3>1 DEF IInv, Taken
    <3>2. CASE \A k \in Shutter : ~Took(k)
      <4>1. i = c
        BY <1>2, <2>2, <3>2 DEF Took
      <4>2. list' = {} /\ lock = Free
        BY <1>2, <2>2, <3>2, <4>1 DEF Took, ShutMoves
      <4> QED
        BY <4>2 DEF IInv, Locked, Types, Free
    <3> QED
      BY <3>1, <3>2
  <2>3. ASSUME NEW t \in Thread, ~thread[t].first
        PROVE  t \in list' \/ Accounted(t)'
    <3>1. CASE t \in list
      <4>1. t \in list' \/ t \in shut'[c].handles
        BY <1>2, <3>1 DEF ShutMoves
      <4> QED
        BY <4>1 DEF Accounted
    <3>2. CASE Accounted(t)
      <4>1. CASE thread[t].pc = "exited"
        BY <1>1, <4>1 DEF Accounted
      <4>2. CASE \E i \in Shutter : t \in shut[i].handles \cup shut[i].detached
        <5>1. PICK i \in Shutter : t \in shut[i].handles \cup shut[i].detached
          BY <4>2
        <5>2. \/ t \in shut'[i].handles \cup shut'[i].detached
              \/ thread[t].pc = "exited"
          BY <1>2, <5>1 DEF ShutMoves
        <5> QED
          BY <1>1, <5>2 DEF Accounted
      <4> QED
        BY <3>2, <4>1, <4>2 DEF Accounted
    <3> QED
      BY <2>3, <3>1, <3>2 DEF IInv, Taken
  <2> QED
    BY <1>1, <2>1, <2>2, <2>3 DEF Taken
<1> QED
  BY <1>3, <1>4, <1>5, <1>6, <1>7 DEF IInv

(* shutdown keeps the invariant, from closing to its report.                 *)
LEMMA ShutKeeps ==
    ASSUME IInv, NEW c \in Shutter, Close(c) \/ ShutStep(c)
    PROVE  IInv'
<1> DEFINE o == shut[c]
<1>1. /\ o \in ShutRecord /\ shut \in [Shutter -> ShutRecord]
      /\ job \in [Submitter -> {"new", "queued", "running", "over"}]
      /\ list \subseteq Thread
      /\ ~Took(c) => o.handles = {}
      /\ o.pc # "idle" => ~Open
  BY DEF IInv, Types, Taken, Counted, Undisturbed
<1>2. CASE Close(c)
  <2> DEFINE r == [o EXCEPT !.pc = "take"]
  <2>1. /\ r \in ShutRecord /\ r.pc = "take" /\ r.handles = o.handles
        /\ r.detached = o.detached
        /\ shut' = [shut EXCEPT ![c] = r]
    BY <1>1, <1>2 DEF Close, ShutRecord
  <2>2. ~Took(c) /\ ~Open'
    BY <1>2 DEF Close, Took, Open
  <2> HIDE DEF r
  <2>3. ShutMoves(c, r)
    BY <1>1, <1>2, <2>1, <2>2 DEF Close, ShutMoves
  <2> QED
    BY <2>1, <2>3, ShutMovesKeeps
<1>3. CASE TakeList(c)
  <2> DEFINE r == [o EXCEPT !.pc = "join", !.handles = list]
  <2>1. /\ r \in ShutRecord /\ r.pc = "join" /\ r.handles = list
        /\ r.detached = o.detached
        /\ shut' = [shut EXCEPT ![c] = r]
    BY <1>1, <1>3 DEF TakeList, ShutRecord
  <2>2. ~Took(c) /\ ~Open'
    BY <1>1, <1>3 DEF TakeList, Took, Open
  <2> HIDE DEF r
  <2>3. ShutMoves(c, r)
    BY <1>1, <1>3, <2>1, <2>2 DEF TakeList, ShutMoves
  <2> QED
    BY <2>1, <2>3, ShutMovesKeeps
<1>4. CASE Join(c)
  <2>1. PICK t \in o.handles : /\ thread[t].pc = "exited"
                               /\ shut' = [shut EXCEPT ![c].handles = @ \ {t}]
    BY <1>4 DEF Join
  <2> DEFINE r == [o EXCEPT !.handles = o.handles \ {t}]
  <2>2. /\ r \in ShutRecord /\ r.pc = "join" /\ r.handles = o.handles \ {t}
        /\ r.detached = o.detached
        /\ shut' = [shut EXCEPT ![c] = r]
    BY <1>1, <1>4, <2>1 DEF Join, ShutRecord
  <2>3. Took(c) /\ ~Open'
    BY <1>1, <1>4 DEF Join, Took, Open
  <2> HIDE DEF r
  <2>4. ShutMoves(c, r)
    BY <1>1, <1>4, <2>1, <2>2, <2>3 DEF Join, ShutMoves
  <2> QED
    BY <2>2, <2>4, ShutMovesKeeps
<1>5. CASE Deadline(c)
  <2> DEFINE r == [o EXCEPT !.late = TRUE]
  <2>1. /\ r \in ShutRecord /\ r.pc = "join" /\ r.handles = o.handles
        /\ r.detached = o.detached
        /\ shut' = [shut EXCEPT ![c] = r]
    BY <1>1, <1>5 DEF Deadline, ShutRecord
  <2>2. Took(c) /\ ~Open'
    BY <1>1, <1>5 DEF Deadline, Took, Open
  <2> HIDE DEF r
  <2>3. ShutMoves(c, r)
    BY <1>1, <1>5, <2>1, <2>2 DEF Deadline, ShutMoves
  <2> QED
    BY <2>1, <2>3, ShutMovesKeeps
<1>6. CASE Detach(c)
  <2>1. PICK t \in o.handles : shut' = [shut EXCEPT ![c].handles = @ \ {t},
                                                   ![c].detached = @ \cup {t}]
    BY <1>6 DEF Detach
  <2> DEFINE r == [o EXCEPT !.handles = o.handles \ {t}, !.detached = o.detached \cup {t}]
  <2>2. /\ r \in ShutRecord /\ r.pc = "join" /\ r.handles = o.handles \ {t}
        /\ r.detached = o.detached \cup {t}
        /\ shut' = [shut EXCEPT ![c] = r]
    BY <1>1, <1>6, <2>1 DEF Detach, ShutRecord
  <2>3. Took(c) /\ ~Open'
    BY <1>1, <1>6 DEF Detach, Took, Open
  <2> HIDE DEF r
  <2>4. ShutMoves(c, r)
    BY <1>1, <1>6, <2>1, <2>2, <2>3 DEF Detach, ShutMoves
  <2> QED
    BY <2>2, <2>4, ShutMovesKeeps
<1>7. CASE Report(c)
  <2> DEFINE r == [o EXCEPT !.pc = "back"]
  <2>1. /\ r \in ShutRecord /\ r.pc = "back" /\ r.handles = o.handles
        /\ r.detached = o.detached
        /\ shut' = [shut EXCEPT ![c] = r]
    BY <1>1, <1>7 DEF Report, ShutRecord
  <2>2. Took(c) /\ ~Open'
    BY <1>1, <1>7 DEF Report, Took, Open
  <2> HIDE DEF r
  <2>3. ShutMoves(c, r)
    BY <1>1, <1>7, <2>1, <2>2 DEF Report, ShutMoves
  <2> QED
    BY <2>1, <2>3, ShutMovesKeeps
<1> QED
  BY <1>2, <1>3, <1>4, <1>5, <1>6, <1>7 DEF ShutStep

(* Every step keeps the invariant.                                           *)
LEMMA NextIInv == IInv /\ [Next]_vars => IInv'
<1> SUFFICES ASSUME IInv, [Next]_vars PROVE IInv'
  OBVIOUS
<1>1. ASSUME NEW s \in Submitter, SubmitStep(s)
      PROVE  IInv'
  BY <1>1, SubmitKeeps
<1>2. ASSUME NEW t \in Thread, BootStep(t)
      PROVE  IInv'
  BY <1>2, BootKeeps, BootSpawnKeeps DEF BootStep
<1>3. ASSUME NEW t \in Thread, WorkStep(t) \/ Panic(t)
      PROVE  IInv'
  BY <1>3, WorkKeeps
<1>4. ASSUME NEW c \in Shutter, Close(c) \/ ShutStep(c)
      PROVE  IInv'
  BY <1>4, ShutKeeps
<1>5. CASE UNCHANGED vars
  <2>1. Types' /\ Locked'
    BY <1>5 DEF vars, IInv, Types, Locked, Thread, ShutRecord
  <2>2. Counted' /\ OpenPoolIsAlive'
    BY <1>5 DEF vars, IInv, Counted, OpenPoolIsAlive, Thread, Open, Undisturbed,
                Returned, Active
  <2>3. Taken'
    BY <1>5 DEF vars, IInv, Taken, Took, Accounted, Thread
  <2> QED
    BY <2>1, <2>2, <2>3 DEF IInv
<1> QED
  BY <1>1, <1>2, <1>3, <1>4, <1>5 DEF Next

(* The invariant holds in every reachable state.                             *)
THEOREM Inductive == Spec => []IInv
<1> QED
  BY InitIInv, NextIInv, PTL DEF Spec

-----------------------------------------------------------------------------
(* The results.                                                              *)

(* The runtime knows all its threads until somebody shuts it down, Running   *)
(* means that all of them exist, an open runtime with a job has a thread or  *)
(* will have one, and races of submissions with shutdowns create no more     *)
(* than one thread each beyond the configured size.                          *)
THEOREM PoolKnowsItsThreads == Spec => []ThreadsAreListed
<1>1. ASSUME IInv
      PROVE  ThreadsAreListed
  <2>1. /\ Cardinality(Thread) \in Nat /\ Thread = 1..Cardinality(Thread)
        /\ Cardinality(Submitter) \in Nat
        /\ Cardinality(Returned) \in Nat
        /\ Cardinality(Returned) <= Cardinality(Submitter)
    BY <1>1, Numbers, BootstrapAssumption, FS_CardinalityType, FS_Subset DEF IInv, Returned
  <2>2. CASE Thread = {}
    <3>1. Cardinality(Thread) = 0
      BY <2>2, FS_EmptySet
    <3>2. Thread \subseteq Threads
      BY <2>2
    <3>3. TypeOK
      BY <1>1, <2>2, <3>2 DEF IInv, Types, TypeOK, ShutRecord, ThreadRecord
    <3>4. ListIsComplete
      BY <1>1, <2>2, <3>1, BootstrapAssumption
      DEF IInv, Counted, Undisturbed, ListIsComplete
    <3> QED
      BY <1>1, <3>3, <3>4 DEF IInv, ThreadsAreListed
  <2>3. CASE Thread # {}
    <3>1. 1 \in Thread /\ thread[1] \in ThreadRecord
      BY <1>1, <2>3 DEF IInv, Types
    <3>2. thread[1].next \in Nat /\ thread[1].next <= Workers /\ Workers \in Nat
      BY <3>1, BootstrapAssumption DEF ThreadRecord
    <3>3. Thread \subseteq Threads
      <4>1. Cardinality(Thread) <= thread[1].next - 1 + Cardinality(Returned)
        BY <1>1, <2>3 DEF IInv, Counted
      <4>2. Cardinality(Thread) <= Workers + Cardinality(Submitter)
        BY <2>1, <3>2, <4>1
      <4> QED
        BY <2>1, <3>2, <4>2 DEF Threads, ThreadLimit
    <3>4. TypeOK
      <4>1. shut \in [Shutter -> [pc : {"idle", "take", "join", "back"},
                  handles : SUBSET Threads, detached : SUBSET Threads,
                  late : BOOLEAN]]
        BY <1>1, <3>3 DEF IInv, Types, ShutRecord
      <4> QED
        BY <1>1, <3>3, <4>1 DEF IInv, Types, TypeOK, ThreadRecord
    <3>5. ListIsComplete
      <4>1. state = "Running" => Undisturbed
        BY <1>1 DEF IInv, Counted, Open
      <4>2. Undisturbed => list = Thread /\ Cardinality(Thread) = thread[1].next
        BY <1>1, <2>3 DEF IInv, Counted
      <4>3. state = "Running" => thread[1].next = Workers
        BY <1>1 DEF IInv, Counted
      <4> QED
        BY <3>2, <4>1, <4>2, <4>3 DEF ListIsComplete, Undisturbed
    <3> QED
      BY <1>1, <3>4, <3>5 DEF IInv, ThreadsAreListed
  <2> QED
    BY <2>2, <2>3
<1> QED
  BY <1>1, Inductive, PTL

(* However many shutdowns race with the bootstrap, once one has returned     *)
(* every sibling has exited, is reported, or is in the hands of another one. *)
THEOREM SiblingsDoNotEscape == Spec => []SiblingsAreAccounted
<1>1. IInv => SiblingsAreAccounted
  BY DEF IInv, Taken, Took, SiblingsAreAccounted
<1> QED
  BY <1>1, Inductive, PTL

(* No step leads from a stopped runtime to an open one, neither the end of   *)
(* the bootstrap nor a late submission.                                      *)
THEOREM StoppedStaysStopped == Spec => NeverReopens
<1>1. ASSUME [Next]_vars
      PROVE  [~Open => ~Open']_state
  <2> SUFFICES ASSUME ~Open, state' # state
               PROVE  ~Open'
    OBVIOUS
  <2>1. ASSUME NEW s \in Submitter, SubmitStep(s)
        PROVE  ~Open'
    BY <2>1 DEF SubmitStep, Admit, FindList, SpawnFirst, SpawnFirstFails, Break, Open
  <2>2. ASSUME NEW t \in Thread, BootStep(t) \/ WorkStep(t) \/ Panic(t)
        PROVE  ~Open'
    BY <2>2 DEF BootStep, BootLock, BootLook, BootSpawn, BootSpawnFails, BootBreak,
                BootDone, WorkStep, StartJob, EndJob, Leave, Supervise, Panic, Break, Open
  <2>3. ASSUME NEW c \in Shutter, Close(c) \/ ShutStep(c)
        PROVE  ~Open'
    BY <2>3 DEF Close, ShutStep, TakeList, Join, Deadline, Detach, Report, Open
  <2> QED
    BY <1>1, <2>1, <2>2, <2>3 DEF Next, vars
<1> QED
  BY <1>1, PTL DEF Spec, NeverReopens
=============================================================================
