--------------------------- MODULE PoolBootstrap ---------------------------
(* The life of the pool threads (jobs/runtime.rs): the first submission      *)
(* spawns the first worker, which spawns its siblings; supervisors count     *)
(* panics; shutdown closes the runtime and joins what it finds.              *)
(*                                                                           *)
(* Two mutexes matter: the list of thread handles, held over several steps   *)
(* and so modelled by its holder, and the registry, never held while another *)
(* lock is taken, so that a section under it is one action.  What a worker   *)
(* does with a job is in JobPool; here a job only starts and ends.           *)
EXTENDS Integers, FiniteSets

CONSTANTS
    Submitter,   \* foreground threads that submit one job each
    Shutter,     \* foreground threads that shut the runtime down
    Workers,     \* configured size of the pool
    Fault        \* what may go wrong: "spawn", "panic"

ASSUME BootstrapAssumption ==
    /\ Workers \in Nat \ {0}
    /\ Fault \subseteq {"spawn", "panic"}
    /\ IsFiniteSet(Submitter)
    /\ Submitter \cap Nat = {}   \* who holds the lock is told from its value

(* A thread is its number in the order of creation.                          *)
ThreadLimit == Workers + Cardinality(Submitter)
PanicLimit == 3
Free == 0

VARIABLES
    state,     \* RuntimeState
    job,       \* [Submitter -> state of the job it submits]
    lock,      \* holder of the mutex of the thread list
    list,      \* threads whose handle is in the list
    thread,    \* a function on the threads created so far
    sub,       \* [Submitter -> position in JobRuntime::submit]
    shut       \* [Shutter -> position in shutdown, what it joins and reports]

vars == <<state, job, lock, list, thread, sub, shut>>

RuntimeState == {"Cold", "Starting", "Running", "Broken", "Closed"}
Open == state \notin {"Broken", "Closed"}
Thread == DOMAIN thread
Active(s) == job[s] \in {"queued", "running"}

(* `first` is worker 0, next the index of the sibling it will spawn.         *)
NewThread(first) ==
    [pc |-> IF first THEN "boot" ELSE "work", first |-> first, next |-> 1,
     runs |-> {}, progress |-> FALSE, panics |-> 0]

Set(t, field, value) == [thread EXCEPT ![t][field] = value]
Created(first) == [t \in Thread \cup {Cardinality(Thread) + 1} |->
                     IF t \in Thread THEN thread[t] ELSE NewThread(first)]

(* The runtime breaks: jobs fail, but for those whose driver has claimed     *)
(* them; these are some of the running ones.                                 *)
Break ==
    /\ state' = "Broken"
    /\ \E claimed \in SUBSET {s \in Submitter : job[s] = "running"} :
          job' = [s \in Submitter |->
                    IF Active(s) /\ s \notin claimed THEN "over" ELSE job[s]]

Init ==
    /\ state = "Cold"
    /\ job = [s \in Submitter |-> "new"]
    /\ lock = Free
    /\ list = {}
    /\ thread = [t \in {} |-> NewThread(TRUE)]
    /\ sub = [s \in Submitter |-> "idle"]
    /\ shut = [c \in Shutter |->
                 [pc |-> "idle", handles |-> {}, detached |-> {}, late |-> FALSE]]

-----------------------------------------------------------------------------
(* Mutants: the same operations with a plausible bug, for testing that the   *)
(* properties notice it.                                                     *)

(* ensure_workers spawns a worker for every submission.                      *)
FindListAlwaysSpawns(s) ==
    /\ sub[s] = "admitted" /\ lock = Free
    /\ lock' = s
    /\ sub' = [sub EXCEPT ![s] = "spawning"]
    /\ UNCHANGED <<state, job, list, thread, shut>>

(* A failed spawn breaks the runtime and forgets its jobs.                   *)
SpawnFirstFailsQuietly(s) ==
    /\ "spawn" \in Fault
    /\ sub[s] = "spawning"
    /\ state' = "Broken"
    /\ lock' = Free
    /\ sub' = [sub EXCEPT ![s] = "back"]
    /\ UNCHANGED <<job, list, thread, shut>>

(* The bootstrap does not look at the state under the lock of the list.      *)
BootLooksAway(t) ==
    /\ thread[t].pc = "look"
    /\ thread' = Set(t, "pc", "spawn")
    /\ UNCHANGED <<state, job, lock, list, sub, shut>>

(* The last sibling announces Running whatever has happened meanwhile.       *)
BootDoneAnyway(t) ==
    /\ thread[t].pc = "boot" /\ thread[t].next = Workers
    /\ state' = "Running"
    /\ thread' = Set(t, "pc", "work")
    /\ UNCHANGED <<job, lock, list, sub, shut>>

(* Only a broken runtime sends its workers home.                             *)
LeaveWhenBroken(t) ==
    /\ thread[t].pc = "work" /\ state = "Broken"
    /\ job' = [s \in Submitter |-> IF s \in thread[t].runs THEN "over" ELSE job[s]]
    /\ thread' = [thread EXCEPT ![t].pc = "exited", ![t].runs = {}]
    /\ UNCHANGED <<state, lock, list, sub, shut>>

(* After the deadline the thread is still joined and not detached.           *)
DetachJoins(c) ==
    /\ shut[c].pc = "join" /\ shut[c].late
    /\ \E t \in shut[c].handles :
          /\ thread[t].pc = "exited"
          /\ shut' = [shut EXCEPT ![c].handles = @ \ {t}]
    /\ UNCHANGED <<state, job, lock, list, thread, sub>>

-----------------------------------------------------------------------------
(* JobRuntime::submit: admission, then ensure_workers under the lock of the  *)
(* list.                                                                     *)

Admit(s) ==
    /\ sub[s] = "idle"
    /\ IF Open
       THEN /\ job' = [job EXCEPT ![s] = "queued"]
            /\ state' = IF state = "Cold" THEN "Starting" ELSE state
            /\ sub' = [sub EXCEPT ![s] = "admitted"]
       ELSE /\ sub' = [sub EXCEPT ![s] = "back"]
            /\ UNCHANGED <<state, job>>
    /\ UNCHANGED <<lock, list, thread, shut>>

FindList(s) ==
    /\ sub[s] = "admitted" /\ lock = Free
    /\ IF list # {}
       THEN sub' = [sub EXCEPT ![s] = "back"] /\ UNCHANGED lock
       ELSE sub' = [sub EXCEPT ![s] = "spawning"] /\ lock' = s
    /\ UNCHANGED <<state, job, list, thread, shut>>

SpawnFirst(s) ==
    /\ sub[s] = "spawning"
    /\ thread' = Created(TRUE)
    /\ list' = list \cup {Cardinality(Thread) + 1}
    /\ lock' = Free
    /\ sub' = [sub EXCEPT ![s] = "back"]
    /\ UNCHANGED <<state, job, shut>>

(* The registry is broken while the lock of the list is still held.          *)
SpawnFirstFails(s) ==
    /\ "spawn" \in Fault
    /\ sub[s] = "spawning"
    /\ Break
    /\ lock' = Free
    /\ sub' = [sub EXCEPT ![s] = "back"]
    /\ UNCHANGED <<list, thread, shut>>

-----------------------------------------------------------------------------
(* worker_bootstrap on the thread of worker 0.                               *)

BootLock(t) ==
    /\ thread[t].pc = "boot" /\ thread[t].next < Workers /\ lock = Free
    /\ lock' = t
    /\ thread' = Set(t, "pc", "look")
    /\ UNCHANGED <<state, job, list, sub, shut>>

(* A stopped runtime gets no more siblings.                                  *)
BootLook(t) ==
    /\ thread[t].pc = "look"
    /\ IF Open
       THEN thread' = Set(t, "pc", "spawn") /\ UNCHANGED lock
       ELSE thread' = Set(t, "pc", "work") /\ lock' = Free
    /\ UNCHANGED <<state, job, list, sub, shut>>

BootSpawn(t) ==
    /\ thread[t].pc = "spawn"
    /\ thread' = [Created(FALSE) EXCEPT ![t].pc = "boot", ![t].next = @ + 1]
    /\ list' = list \cup {Cardinality(Thread) + 1}
    /\ lock' = Free
    /\ UNCHANGED <<state, job, sub, shut>>

(* Here the lock of the list is dropped before the registry is taken.        *)
BootSpawnFails(t) ==
    /\ "spawn" \in Fault
    /\ thread[t].pc = "spawn"
    /\ thread' = Set(t, "pc", "failed")
    /\ lock' = Free
    /\ UNCHANGED <<state, job, list, sub, shut>>

BootBreak(t) ==
    /\ thread[t].pc = "failed"
    /\ Break
    /\ thread' = Set(t, "pc", "work")
    /\ UNCHANGED <<lock, list, sub, shut>>

BootDone(t) ==
    /\ thread[t].pc = "boot" /\ thread[t].next = Workers
    /\ state' = IF state = "Starting" THEN "Running" ELSE state
    /\ thread' = Set(t, "pc", "work")
    /\ UNCHANGED <<job, lock, list, sub, shut>>

-----------------------------------------------------------------------------
(* worker_supervisor around worker_main.                                     *)

StartJob(t) ==
    /\ thread[t].pc = "work" /\ Open
    /\ \E s \in Submitter :
          /\ job[s] = "queued"
          /\ job' = [job EXCEPT ![s] = "running"]
          /\ thread' = Set(t, "runs", thread[t].runs \cup {s})
    /\ UNCHANGED <<state, lock, list, sub, shut>>

EndJob(t) ==
    /\ thread[t].pc = "work"
    /\ \E s \in thread[t].runs :
          /\ job' = [job EXCEPT ![s] = "over"]
          /\ thread' = [thread EXCEPT ![t].runs = @ \ {s}, ![t].progress = TRUE]
    /\ UNCHANGED <<state, lock, list, sub, shut>>

(* worker_main returns from a stopped runtime and cancels its residents.     *)
Leave(t) ==
    /\ thread[t].pc = "work" /\ ~Open
    /\ job' = [s \in Submitter |-> IF s \in thread[t].runs THEN "over" ELSE job[s]]
    /\ thread' = [thread EXCEPT ![t].pc = "exited", ![t].runs = {}]
    /\ UNCHANGED <<state, lock, list, sub, shut>>

(* A panic outside the boundary of a job: the guards fail the residents.     *)
Panic(t) ==
    /\ "panic" \in Fault
    /\ thread[t].pc = "work"
    /\ job' = [s \in Submitter |-> IF s \in thread[t].runs THEN "over" ELSE job[s]]
    /\ thread' = [thread EXCEPT ![t].pc = "panicked", ![t].runs = {},
                    ![t].panics = IF thread[t].progress THEN 1 ELSE @ + 1,
                    ![t].progress = FALSE]
    /\ UNCHANGED <<state, lock, list, sub, shut>>

(* The third panic in a row breaks the runtime, whatever its state is.       *)
Supervise(t) ==
    /\ thread[t].pc = "panicked"
    /\ IF thread[t].panics >= PanicLimit
       THEN Break /\ thread' = Set(t, "pc", "exited")
       ELSE thread' = Set(t, "pc", "work") /\ UNCHANGED <<state, job>>
    /\ UNCHANGED <<lock, list, sub, shut>>

-----------------------------------------------------------------------------
(* JobRuntime::shutdown.                                                     *)

Close(c) ==
    /\ shut[c].pc = "idle"
    /\ state' = "Closed"
    /\ job' = [s \in Submitter |-> IF job[s] = "queued" THEN "over" ELSE job[s]]
    /\ shut' = [shut EXCEPT ![c].pc = "take"]
    /\ UNCHANGED <<lock, list, thread, sub>>

TakeList(c) ==
    /\ shut[c].pc = "take" /\ lock = Free
    /\ shut' = [shut EXCEPT ![c].pc = "join", ![c].handles = list]
    /\ list' = {}
    /\ UNCHANGED <<state, job, lock, thread, sub>>

Join(c) ==
    /\ shut[c].pc = "join"
    /\ \E t \in shut[c].handles :
          /\ thread[t].pc = "exited"
          /\ shut' = [shut EXCEPT ![c].handles = @ \ {t}]
    /\ UNCHANGED <<state, job, lock, list, thread, sub>>

Deadline(c) ==
    /\ shut[c].pc = "join" /\ ~shut[c].late
    /\ shut' = [shut EXCEPT ![c].late = TRUE]
    /\ UNCHANGED <<state, job, lock, list, thread, sub>>

Detach(c) ==
    /\ shut[c].pc = "join" /\ shut[c].late
    /\ \E t \in shut[c].handles :
          /\ thread[t].pc # "exited"
          /\ shut' = [shut EXCEPT ![c].handles = @ \ {t},
                                  ![c].detached = @ \cup {t}]
    /\ UNCHANGED <<state, job, lock, list, thread, sub>>

Report(c) ==
    /\ shut[c].pc = "join" /\ shut[c].handles = {}
    /\ shut' = [shut EXCEPT ![c].pc = "back"]
    /\ UNCHANGED <<state, job, lock, list, thread, sub>>

-----------------------------------------------------------------------------
SubmitStep(s) == Admit(s) \/ FindList(s) \/ SpawnFirst(s) \/ SpawnFirstFails(s)
BootStep(t) == \/ BootLock(t) \/ BootLook(t) \/ BootSpawn(t) \/ BootSpawnFails(t)
               \/ BootBreak(t) \/ BootDone(t)
WorkStep(t) == StartJob(t) \/ EndJob(t) \/ Leave(t) \/ Supervise(t)
ShutStep(c) == TakeList(c) \/ Join(c) \/ Deadline(c) \/ Detach(c) \/ Report(c)

Next ==
    \/ \E s \in Submitter : SubmitStep(s)
    \/ \E t \in Thread : BootStep(t) \/ WorkStep(t) \/ Panic(t)
    \/ \E c \in Shutter : Close(c) \/ ShutStep(c)

Spec == Init /\ [][Next]_vars

(* The operating system runs every thread, and a mutex that stays free is    *)
(* taken in the end.  Nobody has to submit, to shut down or to panic.        *)
Threads == 1..ThreadLimit
CallersRun ==
    /\ \A s \in Submitter :
          WF_vars(FindList(s) \/ SpawnFirst(s) \/ SpawnFirstFails(s))
    /\ \A c \in Shutter : WF_vars(ShutStep(c))
BootstrapRuns == \A t \in Threads : WF_vars(t \in Thread /\ BootStep(t))
WorkersRun == \A t \in Threads : WF_vars(t \in Thread /\ WorkStep(t))

(* A worker may hang in a foreign effect for ever: that workers run is an    *)
(* assumption of the properties that need it.                                *)
FairSpec == Spec /\ CallersRun /\ BootstrapRuns

-----------------------------------------------------------------------------
(* Properties.                                                               *)

(* Every variable has its type; the number of threads has a limit even over  *)
(* a shutdown that races with submissions.                                   *)
TypeOK ==
    /\ state \in RuntimeState
    /\ job \in [Submitter -> {"new", "queued", "running", "over"}]
    /\ lock \in {Free} \cup Submitter \cup Threads
    /\ list \subseteq Thread
    /\ Thread \subseteq Threads
    /\ thread \in [Thread ->
          [pc : {"boot", "look", "spawn", "failed", "work", "panicked", "exited"},
           first : BOOLEAN, next : 1..Workers, runs : SUBSET Submitter,
           progress : BOOLEAN, panics : 0..PanicLimit]]
    /\ sub \in [Submitter -> {"idle", "admitted", "spawning", "back"}]
    /\ shut \in [Shutter -> [pc : {"idle", "take", "join", "back"},
                  handles : SUBSET Threads, detached : SUBSET Threads,
                  late : BOOLEAN]]

(* Until somebody shuts it down the runtime knows all its threads, and they  *)
(* are no more than configured; Running means that all of them exist.        *)
ListIsComplete ==
    /\ state # "Closed" /\ (\A c \in Shutter : shut[c].pc = "idle") =>
          list = Thread /\ Cardinality(Thread) <= Workers
    /\ state = "Running" => Cardinality(Thread) = Workers

(* An open runtime with a job to do has a thread for it, or a submitter is   *)
(* about to create one; no thread leaves an open runtime.                    *)
OpenPoolIsAlive ==
    Open =>
        /\ \A t \in Thread : thread[t].pc # "exited"
        /\ (\E s \in Submitter : Active(s)) =>
              Thread # {} \/ \E s \in Submitter : sub[s] \in {"admitted", "spawning"}

(* With the types of all variables: the pool has the threads it needs, and   *)
(* knows them.                                                               *)
ThreadsAreListed == TypeOK /\ ListIsComplete /\ OpenPoolIsAlive

(* A thread that a shutdown left behind without a word.                      *)
Accounted(t) == \/ thread[t].pc = "exited"
                \/ \E c \in Shutter : t \in shut[c].handles \cup shut[c].detached

(* The siblings cannot slip past the list that shutdown takes: once a        *)
(* shutdown has returned, each one has exited, is reported as detached, or   *)
(* is in the hands of another shutdown (the comment of worker_bootstrap).    *)
SiblingsAreAccounted ==
    (\E c \in Shutter : shut[c].pc = "back") =>
        \A t \in Thread : ~thread[t].first => Accounted(t)

(* The same for every thread of the pool, as the comment of shutdown says:   *)
(* threads are joined, and those that do not answer get into the report.     *)
NoThreadEscapes ==
    (\E c \in Shutter : shut[c].pc = "back") => \A t \in Thread : Accounted(t)

(* A stopped runtime never accepts jobs again.                               *)
NeverReopens == [][~Open => ~Open']_state

(* Every admitted job ends, also when threads cannot be created, panic, or   *)
(* somebody shuts down before the first thread exists.                       *)
JobsEnd == WorkersRun => \A s \in Submitter : Active(s) ~> job[s] = "over"

(* shutdown returns by its deadline, also when a worker never does.          *)
ShutdownReturns == \A c \in Shutter : shut[c].pc = "take" ~> shut[c].pc = "back"

(* After a shutdown all threads leave in the end, the unreported included.   *)
ThreadsLeave ==
    WorkersRun => ((\E c \in Shutter : shut[c].pc = "back")
                       ~> \A t \in Thread : thread[t].pc = "exited")
=============================================================================
