------------------------------ MODULE JobPool ------------------------------
(* The pool of worker threads that drives background jobs (jobs/worker.rs,   *)
(* jobs/service.rs, the waits of jobs/runtime.rs).  Each worker runs         *)
(* drive_local over the residents of its thread; a job that waits for others *)
(* runs the same loop again in a nested frame on the same stack, so that the *)
(* thread helps instead of blocking.  One action is one section under the    *)
(* registry mutex or one step between two of them.                           *)
(*                                                                           *)
(* A notification is sent after the mutex is released: `signals` holds the   *)
(* ones that are decided and not yet delivered.  wake_epoch and the          *)
(* seen_epoch of a frame matter only as "equal or not": `stale` of a frame   *)
(* says that they differ, `bumped` that the epoch has left zero.             *)
EXTENDS Integers, Sequences, FiniteSets, SequencesExt, Collections

CONSTANTS
    Worker, Client,
    Job, NoJob,
    Program,     \* [Job -> Seq(Op)]: what the program of each job does
    Root,        \* jobs the foreground submits; the others are spawned
    Cancelable,  \* jobs somebody outside cancels
    Watch,       \* [Client -> SUBSET Job]: what a foreground wait is for
    Outcome,     \* how a program may end
    Fault,       \* what may go wrong
    PanicLimit   \* panics in a row that break the runtime; 3 in the code

Op == [op : {"quantum"}] \cup [op : {"host"}]
        \cup [op : {"spawn"}, job : Job]
        \cup [op : {"wait"}, jobs : SUBSET Job, all : BOOLEAN, timed : BOOLEAN]

ASSUME PoolAssumption ==
    /\ IsFiniteSet(Worker) /\ NoJob \notin Job
    /\ Program \in [Job -> Seq(Op)]
    /\ Root \subseteq Job /\ Cancelable \subseteq Job
    /\ Watch \in [Client -> SUBSET Job]
    /\ Outcome \subseteq {"completed", "failed", "panic"}
    /\ Fault \subseteq {"load", "prepare", "panic", "shutdown", "refuse"}
    /\ PanicLimit \in Nat \ {0}

VARIABLES
    rt,         \* "open", or the runtime is "closed" or "broken"
    status,     \* [Job -> status]
    cancelReq,  \* jobs whose cancel flag is raised
    queue,      \* the global FIFO
    prog,       \* [Job -> what is left of its program]
    host,       \* [Job -> state of its host operation]
    ringing,    \* jobs whose completion is delivered and waker not yet called
    residents,  \* [Worker -> Seq of the jobs of the thread with `waiting`]
    stack,      \* [Worker -> Seq of the drive_local frames of the thread]
    loaded,     \* workers that have built their catalogue
    progress, panics,   \* what worker_supervisor knows of its worker
    bumped, signals,
    published,  \* jobs whose write-set is committed
    client      \* [Client -> position in wait_terminal_blocking]

jobVars == <<status, queue, published>>
vars == <<rt, jobVars, cancelReq, prog, host, ringing, residents, stack, loaded,
          progress, panics, bumped, signals, client>>

Terminal == {"completed", "failed", "aborted", "canceled"}
Frame == [pc : {"loop", "asleep", "load", "start", "prepare", "poll", "exec",
                "park", "claim", "commit", "finish", "exited"},
          job : Job \cup {NoJob},
          how : {"", "completed", "failed"},
          stale : BOOLEAN]

Closed == rt # "open"
Live(j) == status[j] \in {"queued", "running", "committing"}
Over(j) == status[j] \in Terminal

Depth(w) == Len(stack[w])
Top(w) == stack[w][Depth(w)]
At(w, pc) == Top(w).pc = pc
Helping(w) == Depth(w) > 1

(* The job whose wait the top frame serves, and that wait.                   *)
Parent(w) == stack[w][Depth(w) - 1].job
Awaited(w) == Head(prog[Parent(w)])
WaitOver(op) == IF op.all THEN \A k \in op.jobs : Over(k)
                ELSE op.jobs = {} \/ \E k \in op.jobs : Over(k)
Done(w) == Parent(w) \in cancelReq \/ WaitOver(Awaited(w))

JobsOf(w) == {residents[w][i].job : i \in DOMAIN residents[w]}
Runnable(w) == {i \in DOMAIN residents[w] : ~residents[w][i].waiting}
FirstRunnable(w) == CHOOSE i \in Runnable(w) : \A k \in Runnable(w) : i <= k

NewFrame == [pc |-> "loop", job |-> NoJob, how |-> "", stale |-> bumped]
Idle(f) == [f EXCEPT !.pc = "loop", !.job = NoJob, !.how = ""]
SetTop(w, f) == stack' = [stack EXCEPT ![w][Depth(w)] = f]
Goto(w, pc) == SetTop(w, [Top(w) EXCEPT !.pc = pc])
Consume(j) == prog' = [prog EXCEPT ![j] = Tail(@)]

(* Every frame of every thread learns that wake_epoch has grown.             *)
Bump ==
    /\ bumped' = TRUE
    /\ stack' = [w \in Worker |->
                   [i \in DOMAIN stack[w] |-> [stack[w][i] EXCEPT !.stale = TRUE]]]

Notify(kinds) ==
    signals' = [one  |-> IF "one" \in kinds THEN signals.one + 1 ELSE signals.one,
                work |-> signals.work \/ "work" \in kinds,
                term |-> signals.term \/ "term" \in kinds]

(* finish() of the registry for the live jobs of S.                          *)
End(S, st) ==
    /\ status' = [j \in Job |-> IF j \in S /\ Live(j) THEN st ELSE status[j]]
    /\ queue' = Without(queue, S)
    /\ UNCHANGED published

(* fail_resident_jobs: everything but the jobs whose driver has the claim.   *)
Unclaimed == {j \in Job : status[j] \in {"queued", "running"}}

(* mark_progress: only the frame of the worker itself tells the supervisor.  *)
MarkProgress(w) == progress' = IF Helping(w) THEN progress ELSE progress \cup {w}

-----------------------------------------------------------------------------
(* Mutants: the same operations with a plausible bug, for testing that the   *)
(* properties notice it.                                                     *)

(* A submission wakes no worker.                                             *)
EnqueueQuietly(j) ==
    /\ status' = [status EXCEPT ![j] = "queued"]
    /\ queue' = Append(queue, j)
    /\ Notify({"term"})
    /\ UNCHANGED published

(* The end of a job is not announced.                                        *)
FinishQuietly(w, st) ==
    /\ End({Top(w).job}, st)
    /\ SetTop(w, Idle(Top(w)))
    /\ MarkProgress(w)
    /\ UNCHANGED <<rt, cancelReq, prog, host, ringing, residents, loaded, panics,
                   bumped, signals, client>>

(* A job that keeps its place in the frame when it parks.                    *)
ParkTwice(w) ==
    /\ At(w, "park")
    /\ residents' = [residents EXCEPT ![w] =
                       Append(@, [job |-> Top(w).job, waiting |-> TRUE])]
    /\ Goto(w, "loop")
    /\ UNCHANGED <<rt, jobVars, cancelReq, prog, host, ringing, loaded, progress,
                   panics, bumped, signals, client>>

(* The claim does not look at the state of the runtime.                      *)
ClaimAnyway(w) ==
    /\ At(w, "claim")
    /\ status' = [status EXCEPT ![Top(w).job] = "committing"]
    /\ Goto(w, "commit")
    /\ UNCHANGED <<rt, queue, published, cancelReq, prog, host, ringing, residents,
                   loaded, progress, panics, bumped, signals, client>>

(* The waker forgets the nested frames, which sleep on terminal_watch.       *)
CallWakerForWorkers(j) ==
    /\ j \in ringing
    /\ ringing' = ringing \ {j}
    /\ Bump
    /\ Notify({"work"})
    /\ UNCHANGED <<rt, jobVars, cancelReq, prog, host, residents, loaded, progress,
                   panics, client>>

(* A running job gets its flag and nobody is woken to look at it.            *)
CancelQuietly(j) ==
    /\ j \in Cancelable /\ ~Closed
    /\ status[j] \in {"running", "committing"} /\ j \notin cancelReq
    /\ cancelReq' = cancelReq \cup {j}
    /\ UNCHANGED <<rt, jobVars, prog, host, ringing, residents, stack, loaded,
                   progress, panics, bumped, signals, client>>

(* Shutdown wakes only those who wait for jobs.                              *)
ShutdownForWaiters ==
    /\ "shutdown" \in Fault /\ rt # "closed"
    /\ rt' = "closed"
    /\ End({j \in Job : status[j] = "queued"}, "canceled")
    /\ cancelReq' = cancelReq \cup
                      {j \in Job : status[j] \in {"running", "committing"}}
    /\ Notify({"term"})
    /\ UNCHANGED <<prog, host, ringing, residents, stack, loaded, progress, panics,
                   bumped, client>>

-----------------------------------------------------------------------------
(* submit_shared for a job with a free place in the budgets, and its         *)
(* notifications.                                                            *)
Enqueue(j) ==
    /\ status' = [status EXCEPT ![j] = "queued"]
    /\ queue' = Append(queue, j)
    /\ Notify({"one", "term"})
    /\ UNCHANGED published

Init ==
    /\ rt = "open"
    /\ status = [j \in Job |-> "new"]
    /\ cancelReq = {}
    /\ queue = <<>>
    /\ prog = Program
    /\ host = [j \in Job |-> "idle"]
    /\ ringing = {}
    /\ residents = [w \in Worker |-> <<>>]
    /\ bumped = FALSE
    /\ stack = [w \in Worker |-> <<NewFrame>>]
    /\ loaded = {}
    /\ progress = {}
    /\ panics = [w \in Worker |-> 0]
    /\ signals = [one |-> 0, work |-> FALSE, term |-> FALSE]
    /\ published = {}
    /\ client = [c \in Client |-> "away"]

-----------------------------------------------------------------------------
(* The loop of drive_local, under the mutex: what a frame does next.         *)

(* A nested frame returns when the runtime is stopped, its wait is over, its *)
(* job is canceled, or its deadline has passed.  A canceled job goes on to   *)
(* the check at the start of a quantum: RtError::Canceled is not catchable.  *)
Return(w) ==
    /\ Helping(w)
    /\ \/ At(w, "loop") /\ (Closed \/ Done(w))
       \/ Top(w).pc \in {"loop", "asleep"} /\ Awaited(w).timed
    /\ LET below == Front(stack[w]) IN
       stack' = [stack EXCEPT ![w] =
                   IF Parent(w) \in cancelReq
                   THEN [below EXCEPT ![Len(below)].pc = "poll"] ELSE below]
    /\ Consume(Parent(w))
    /\ UNCHANGED <<rt, jobVars, cancelReq, host, ringing, residents, loaded,
                   progress, panics, bumped, signals, client>>

(* A worker of a stopped runtime cancels its residents and exits.            *)
Exit(w) ==
    /\ ~Helping(w) /\ At(w, "loop") /\ Closed
    /\ End(JobsOf(w), "canceled")
    /\ residents' = [residents EXCEPT ![w] = <<>>]
    /\ Goto(w, "exited")
    /\ Notify({"term"})
    /\ UNCHANGED <<rt, cancelReq, prog, host, ringing, loaded, progress, panics,
                   bumped, client>>

(* The frame stays in the loop: no reason to leave it.                       *)
Looping(w) == At(w, "loop") /\ ~Closed /\ (Helping(w) => ~Done(w))

(* A runnable resident is taken out of the pool for a quantum.               *)
PickResident(w) ==
    /\ Looping(w) /\ Runnable(w) # {}
    /\ LET i == FirstRunnable(w) IN
         /\ SetTop(w, [Top(w) EXCEPT !.pc = "poll", !.job = residents[w][i].job])
         /\ residents' = [residents EXCEPT ![w] = RemoveAt(@, i)]
    /\ UNCHANGED <<rt, jobVars, cancelReq, prog, host, ringing, loaded, progress,
                   panics, bumped, signals, client>>

(* Nothing to run locally: the oldest job of the global FIFO.                *)
PopQueue(w) ==
    /\ Looping(w) /\ Runnable(w) = {} /\ queue # <<>>
    /\ SetTop(w, [Top(w) EXCEPT !.job = Head(queue),
                    !.pc = IF Helping(w) \/ w \in loaded THEN "start" ELSE "load"])
    /\ queue' = Tail(queue)
    /\ UNCHANGED <<rt, status, published, cancelReq, prog, host, ringing,
                   residents, loaded, progress, panics, bumped, signals, client>>

(* A host event since the last look: every waiting resident is polled again. *)
Recheck(w) ==
    /\ Looping(w) /\ Runnable(w) = {} /\ queue = <<>>
    /\ residents[w] # <<>> /\ Top(w).stale
    /\ SetTop(w, [Top(w) EXCEPT !.pc = "poll", !.stale = FALSE,
                                !.job = residents[w][1].job])
    /\ residents' = [residents EXCEPT ![w] =
                       [i \in 1..(Len(@) - 1) |->
                          [job |-> @[i + 1].job, waiting |-> FALSE]]]
    /\ UNCHANGED <<rt, jobVars, cancelReq, prog, host, ringing, loaded, progress,
                   panics, bumped, signals, client>>

Sleep(w) ==
    /\ Looping(w) /\ Runnable(w) = {} /\ queue = <<>>
    /\ residents[w] = <<>> \/ ~Top(w).stale
    /\ Goto(w, "asleep")
    /\ UNCHANGED <<rt, jobVars, cancelReq, prog, host, ringing, residents, loaded,
                   progress, panics, bumped, signals, client>>

-----------------------------------------------------------------------------
(* Starting a popped job.                                                    *)

LoadCatalog(w) ==
    /\ At(w, "load")
    /\ loaded' = loaded \cup {w}
    /\ Goto(w, "start")
    /\ UNCHANGED <<rt, jobVars, cancelReq, prog, host, ringing, residents,
                   progress, panics, bumped, signals, client>>

(* The recipe of the catalogue does not parse: the runtime is broken unless  *)
(* it is closed, the StartGuard fails the popped job, the worker exits.      *)
LoadFails(w) ==
    /\ "load" \in Fault /\ At(w, "load")
    /\ rt' = IF rt = "closed" THEN rt ELSE "broken"
    /\ End(IF rt = "closed" THEN {Top(w).job} ELSE Unclaimed, "aborted")
    /\ Goto(w, "exited")
    /\ Notify({"term", "work"})
    /\ UNCHANGED <<cancelReq, prog, host, ringing, residents, loaded, progress,
                   panics, bumped, client>>

(* start_job, its lock section: the job may have ended since the pop.        *)
Start(w) ==
    /\ At(w, "start")
    /\ LET j == Top(w).job IN
       IF status[j] = "queued" /\ ~Closed
       THEN /\ status' = [status EXCEPT ![j] = "running"]
            /\ Goto(w, "prepare")
            /\ Notify({"term"})
       ELSE /\ SetTop(w, Idle(Top(w)))
            /\ UNCHANGED <<status, signals>>
    /\ UNCHANGED <<rt, queue, published, cancelReq, prog, host, ringing,
                   residents, loaded, progress, panics, bumped, client>>

(* prepare_job.  The new resident is the only runnable one: it is polled.    *)
Prepare(w) ==
    /\ At(w, "prepare")
    /\ Goto(w, "poll")
    /\ UNCHANGED <<rt, jobVars, cancelReq, prog, host, ringing, residents, loaded,
                   progress, panics, bumped, signals, client>>

(* finish_job for the job of the top frame, which goes back to the loop.     *)
FinishTop(w, st) ==
    /\ End({Top(w).job}, st)
    /\ SetTop(w, Idle(Top(w)))
    /\ Notify({"term"})
    /\ MarkProgress(w)
    /\ UNCHANGED <<rt, cancelReq, prog, host, ringing, residents, loaded, panics,
                   bumped, client>>

PrepareFails(w) == "prepare" \in Fault /\ At(w, "prepare") /\ FinishTop(w, "aborted")

(* A panic outside the program of a job.  In a nested frame it unwinds into  *)
(* the quantum below and takes that job along; in the frame of the worker    *)
(* the supervisor fails the residents and starts the worker again, until too *)
(* many panics in a row break the runtime.                                   *)
Panic(w) ==
    /\ "panic" \in Fault
    /\ Top(w).pc \in {"load", "prepare"}
    /\ IF Helping(w)
       THEN /\ End({Top(w).job, Parent(w)}, "aborted")
            /\ LET below == Front(stack[w]) IN
               stack' = [stack EXCEPT ![w] = [below EXCEPT ![Len(below)] = Idle(Last(below))]]
            /\ Notify({"term"})
            /\ progress' = IF Depth(w) = 2 THEN progress \cup {w} ELSE progress
            /\ UNCHANGED <<rt, residents, loaded, panics>>
       ELSE LET n == IF w \in progress THEN 1 ELSE panics[w] + 1
                last == n = PanicLimit
            IN /\ panics' = [panics EXCEPT ![w] = n]
               /\ progress' = progress \ {w}
               /\ residents' = [residents EXCEPT ![w] = <<>>]
               /\ loaded' = loaded \ {w}
               /\ End(IF last THEN Unclaimed ELSE JobsOf(w) \cup {Top(w).job},
                      "aborted")
               /\ rt' = IF last THEN "broken" ELSE rt
               /\ SetTop(w, IF last THEN [NewFrame EXCEPT !.pc = "exited"]
                                    ELSE NewFrame)
               /\ Notify(IF last THEN {"term", "work"} ELSE {"term"})
    /\ UNCHANGED <<cancelReq, prog, host, ringing, bumped, client>>

-----------------------------------------------------------------------------
(* A quantum of the job of the top frame.                                    *)

Quantum(w, op) == /\ At(w, "exec")
                  /\ prog[Top(w).job] # <<>>
                  /\ Head(prog[Top(w).job]).op = op

(* The cancel flag is looked at when a quantum starts, also by a job that is *)
(* parked on its host operation.                                             *)
Poll(w) ==
    /\ At(w, "poll")
    /\ \/ /\ Top(w).job \in cancelReq
          /\ FinishTop(w, "canceled")
       \/ /\ Top(w).job \notin cancelReq
          /\ Goto(w, "exec")
          /\ UNCHANGED <<rt, jobVars, cancelReq, prog, host, ringing, residents,
                         loaded, progress, panics, bumped, signals, client>>

(* The budget is used up: the job goes to the end of the local FIFO.         *)
EndQuantum(w) ==
    /\ Quantum(w, "quantum")
    /\ Consume(Top(w).job)
    /\ residents' = [residents EXCEPT ![w] =
                       Append(@, [job |-> Top(w).job, waiting |-> FALSE])]
    /\ SetTop(w, Idle(Top(w)))
    /\ UNCHANGED <<rt, jobVars, cancelReq, host, ringing, loaded, progress, panics,
                   bumped, signals, client>>

(* A synchronous host operation: begun, still pending, or answered.          *)
HostCall(w) ==
    /\ Quantum(w, "host")
    /\ LET j == Top(w).job IN
       IF host[j] = "done"
       THEN /\ host' = [host EXCEPT ![j] = "idle"]
            /\ Consume(j)
            /\ UNCHANGED stack
       ELSE /\ host' = [host EXCEPT ![j] = "pending"]
            /\ Goto(w, "park")
            /\ UNCHANGED prog
    /\ UNCHANGED <<rt, jobVars, cancelReq, ringing, residents, loaded, progress,
                   panics, bumped, signals, client>>

(* The poll has returned Waiting; the answer may have come meanwhile.        *)
Park(w) ==
    /\ At(w, "park")
    /\ residents' = [residents EXCEPT ![w] =
                       Append(@, [job |-> Top(w).job, waiting |-> TRUE])]
    /\ SetTop(w, Idle(Top(w)))
    /\ UNCHANGED <<rt, jobVars, cancelReq, prog, host, ringing, loaded, progress,
                   panics, bumped, signals, client>>

(* WorkerJobService::submit; the error of a stopped runtime can be caught.   *)
Spawn(w) ==
    /\ Quantum(w, "spawn")
    /\ LET j == Top(w).job IN
       /\ IF Closed \/ status[Head(prog[j]).job] # "new"
          THEN UNCHANGED <<jobVars, signals>>
          ELSE Enqueue(Head(prog[j]).job)
       /\ Consume(j)
    /\ UNCHANGED <<rt, cancelReq, host, ringing, residents, stack, loaded,
                   progress, panics, bumped, client>>

(* wait_terminal and wait_first_change of WorkerJobService: a nested frame,  *)
(* or a catchable error for a stopped runtime or an unknown job.             *)
Wait(w) ==
    /\ Quantum(w, "wait")
    /\ LET j == Top(w).job IN
       IF Closed \/ \E k \in Head(prog[j]).jobs : status[k] = "new"
       THEN Consume(j) /\ UNCHANGED stack
       ELSE /\ stack' = [stack EXCEPT ![w] = Append(@, NewFrame)]
            /\ UNCHANGED prog
    /\ UNCHANGED <<rt, jobVars, cancelReq, host, ringing, residents, loaded,
                   progress, panics, bumped, signals, client>>

(* The program ends, with success, with an uncaught error, or in a panic.    *)
EndProgram(w) ==
    /\ At(w, "exec") /\ prog[Top(w).job] = <<>>
    /\ \/ /\ "panic" \in Outcome
          /\ FinishTop(w, "aborted")
       \/ \E how \in Outcome \ {"panic"} :
            /\ SetTop(w, [Top(w) EXCEPT !.pc = "claim", !.how = how])
            /\ UNCHANGED <<rt, jobVars, cancelReq, prog, host, ringing, residents,
                           loaded, progress, panics, bumped, signals, client>>

(* claim_terminal.                                                           *)
Claim(w) ==
    /\ At(w, "claim")
    /\ LET j == Top(w).job IN
       IF ~Closed /\ status[j] = "running"
       THEN /\ status' = [status EXCEPT ![j] = "committing"]
            /\ Goto(w, "commit")
            /\ UNCHANGED <<rt, queue, published, cancelReq, prog, host, ringing,
                           residents, loaded, progress, panics, bumped, signals,
                           client>>
       ELSE FinishTop(w, IF Closed THEN "canceled" ELSE "aborted")

(* commit_staged; without the session of the caller a success is a failure.  *)
Commit(w) ==
    /\ At(w, "commit")
    /\ \/ /\ published' = published \cup {Top(w).job}
          /\ Goto(w, "finish")
       \/ /\ "refuse" \in Fault
          /\ SetTop(w, [Top(w) EXCEPT !.pc = "finish", !.how = "failed"])
          /\ UNCHANGED published
    /\ UNCHANGED <<rt, status, queue, cancelReq, prog, host, ringing, residents,
                   loaded, progress, panics, bumped, signals, client>>

Finish(w) == At(w, "finish") /\ FinishTop(w, Top(w).how)

-----------------------------------------------------------------------------
(* Transports, the foreground, and the delivery of notifications.            *)

(* A transport delivers an answer, then calls the waker of the job.          *)
HostAnswers(j) ==
    /\ host[j] = "pending"
    /\ host' = [host EXCEPT ![j] = "done"]
    /\ ringing' = ringing \cup {j}
    /\ UNCHANGED <<rt, jobVars, cancelReq, prog, residents, stack, loaded,
                   progress, panics, bumped, signals, client>>

CallWaker(j) ==
    /\ j \in ringing
    /\ ringing' = ringing \ {j}
    /\ Bump
    /\ Notify({"work", "term"})
    /\ UNCHANGED <<rt, jobVars, cancelReq, prog, host, residents, loaded, progress,
                   panics, client>>

Submit(j) ==
    /\ j \in Root /\ status[j] = "new" /\ ~Closed
    /\ Enqueue(j)
    /\ UNCHANGED <<rt, cancelReq, prog, host, ringing, residents, stack, loaded,
                   progress, panics, bumped, client>>

Cancel(j) ==
    /\ j \in Cancelable /\ ~Closed
    /\ \/ /\ status[j] = "queued"
          /\ End({j}, "canceled")
          /\ Notify({"term"})
          /\ UNCHANGED <<cancelReq, stack, bumped>>
       \/ /\ status[j] \in {"running", "committing"} /\ j \notin cancelReq
          /\ cancelReq' = cancelReq \cup {j}
          /\ Bump
          /\ Notify({"work", "term"})
          /\ UNCHANGED jobVars
    /\ UNCHANGED <<rt, prog, host, ringing, residents, loaded, progress, panics,
                   client>>

Shutdown ==
    /\ "shutdown" \in Fault /\ rt # "closed"
    /\ rt' = "closed"
    /\ End({j \in Job : status[j] = "queued"}, "canceled")
    /\ cancelReq' = cancelReq \cup
                      {j \in Job : status[j] \in {"running", "committing"}}
    /\ Notify({"work", "term"})
    /\ UNCHANGED <<prog, host, ringing, residents, stack, loaded, progress, panics,
                   bumped, client>>

(* wait_terminal_blocking of a foreground session.                           *)
Call(c) ==
    /\ client[c] = "away"
    /\ \A j \in Watch[c] : status[j] # "new"
    /\ client' = [client EXCEPT ![c] = "check"]
    /\ UNCHANGED <<rt, jobVars, cancelReq, prog, host, ringing, residents, stack,
                   loaded, progress, panics, bumped, signals>>

Check(c) ==
    /\ client[c] = "check"
    /\ client' = [client EXCEPT ![c] =
                    IF Closed \/ \A j \in Watch[c] : Over(j) THEN "back" ELSE "asleep"]
    /\ UNCHANGED <<rt, jobVars, cancelReq, prog, host, ringing, residents, stack,
                   loaded, progress, panics, bumped, signals>>

(* work_available has the workers themselves, terminal_watch the nested      *)
(* frames and the foreground.                                                *)
OnWork == {w \in Worker : At(w, "asleep") /\ ~Helping(w)}
OnTerm == {w \in Worker : At(w, "asleep") /\ Helping(w)}
Wake(S) == stack' = [w \in Worker |->
                       IF w \in S THEN [stack[w] EXCEPT ![Depth(w)].pc = "loop"]
                                  ELSE stack[w]]

DeliverOne ==
    /\ signals.one > 0
    /\ signals' = [signals EXCEPT !.one = @ - 1]
    /\ IF OnWork = {} THEN UNCHANGED stack ELSE \E w \in OnWork : Wake({w})
    /\ UNCHANGED <<rt, jobVars, cancelReq, prog, host, ringing, residents, loaded,
                   progress, panics, bumped, client>>

DeliverWork ==
    /\ signals.work
    /\ signals' = [signals EXCEPT !.work = FALSE]
    /\ Wake(OnWork)
    /\ UNCHANGED <<rt, jobVars, cancelReq, prog, host, ringing, residents, loaded,
                   progress, panics, bumped, client>>

DeliverTerm ==
    /\ signals.term
    /\ signals' = [signals EXCEPT !.term = FALSE]
    /\ Wake(OnTerm)
    /\ client' = [c \in Client |->
                    IF client[c] = "asleep" THEN "check" ELSE client[c]]
    /\ UNCHANGED <<rt, jobVars, cancelReq, prog, host, ringing, residents, loaded,
                   progress, panics, bumped>>

WorkerStep(w) ==
    \/ Return(w) \/ Exit(w) \/ PickResident(w) \/ PopQueue(w) \/ Recheck(w) \/ Sleep(w)
    \/ LoadCatalog(w) \/ LoadFails(w) \/ Start(w) \/ Prepare(w) \/ PrepareFails(w)
    \/ Panic(w)
    \/ Poll(w) \/ EndQuantum(w) \/ HostCall(w) \/ Park(w) \/ Spawn(w) \/ Wait(w)
    \/ EndProgram(w) \/ Claim(w) \/ Commit(w) \/ Finish(w)

Delivery == DeliverOne \/ DeliverWork \/ DeliverTerm

Next ==
    \/ \E w \in Worker : WorkerStep(w)
    \/ Delivery
    \/ \E j \in Job : HostAnswers(j) \/ CallWaker(j) \/ Submit(j) \/ Cancel(j)
    \/ Shutdown
    \/ \E c \in Client : Call(c) \/ Check(c)

Spec == Init /\ [][Next]_vars

(* What the operating system and the condition variables give: every thread  *)
(* that can run does run, every decided notification is sent.                *)
Scheduling ==
    /\ \A w \in Worker : WF_vars(WorkerStep(w))
    /\ WF_vars(DeliverOne) /\ WF_vars(DeliverWork) /\ WF_vars(DeliverTerm)
    /\ \A j \in Job : WF_vars(CallWaker(j))
    /\ \A c \in Client : WF_vars(Check(c))

(* Nothing is said of the transports: that they answer is an assumption of   *)
(* the properties that need it.                                              *)
FairSpec == Spec /\ Scheduling
HostsAnswer == \A j \in Job : WF_vars(HostAnswers(j))

-----------------------------------------------------------------------------
(* Properties.                                                               *)

(* Every variable has its type.                                              *)
TypeOK ==
    /\ rt \in {"open", "closed", "broken"}
    /\ status \in [Job -> {"new", "queued", "running", "committing"} \cup Terminal]
    /\ cancelReq \subseteq Job /\ ringing \subseteq Job /\ published \subseteq Job
    /\ queue \in Seq(Job)
    /\ prog \in [Job -> Seq(Op)]
    /\ host \in [Job -> {"idle", "pending", "done"}]
    /\ residents \in [Worker -> Seq([job : Job, waiting : BOOLEAN])]
    /\ stack \in [Worker -> Seq(Frame)]
    /\ \A w \in Worker : stack[w] # <<>>
    /\ loaded \subseteq Worker /\ progress \subseteq Worker
    /\ panics \in [Worker -> 0..PanicLimit]
    /\ bumped \in BOOLEAN
    /\ signals \in [one : Nat, work : BOOLEAN, term : BOOLEAN]
    /\ client \in [Client -> {"away", "check", "asleep", "back"}]

(* Where a job is: in the FIFO, in the pool of a thread, or in a frame.      *)
Places(j) ==
    {<<"queue", i>> : i \in {k \in DOMAIN queue : queue[k] = j}}
    \cup (UNION {{<<"resident", w, i>> :
                    i \in {k \in DOMAIN residents[w] : residents[w][k].job = j}}
                 : w \in Worker})
    \cup (UNION {{<<"frame", w, i>> :
                    i \in {k \in DOMAIN stack[w] : stack[w][k].job = j}}
                 : w \in Worker})

(* A started job belongs to one thread and one frame of it: a live job is in *)
(* exactly one place, so no job is lost by a panic, a nested wait or a race  *)
(* for the queue, none is polled twice at a time, and a thread that exits    *)
(* leaves nothing behind.  (With the types of all variables.)                *)
SingleOwner ==
    /\ TypeOK
    /\ \A j \in Job : Live(j) => Cardinality(Places(j)) = 1
    /\ \A w \in Worker : At(w, "exited") => residents[w] = <<>> /\ Depth(w) = 1

(* No lost wakeup: whoever sleeps with no notification on its way really has *)
(* nothing to do.  A host event counts once its waker has been called.       *)
SleepersHaveNothingToDo ==
    /\ ~signals.term =>
         /\ \A w \in OnTerm : ~Closed /\ ~Done(w) /\ queue = <<>>
                              /\ (residents[w] = <<>> \/ ~Top(w).stale)
         /\ \A c \in Client : client[c] = "asleep" =>
                                ~Closed /\ \E j \in Watch[c] : ~Over(j)
    /\ ~signals.work => \A w \in OnWork : ~Closed
                              /\ (residents[w] = <<>> \/ ~Top(w).stale)

(* notify_one is enough: while a worker sleeps on work_available, every job  *)
(* in the FIFO has a notification on its way or a thread awake that will     *)
(* look at the FIFO before it sleeps.                                        *)
QueuedWorkIsSignalled ==
    OnWork # {} =>
        Len(queue) <= signals.one
                        + Cardinality({w \in Worker : ~At(w, "asleep") /\ ~At(w, "exited")})

(* A parked job that has its answer is not overlooked: its waker is still to *)
(* be called, or every frame of its thread that could sleep over it knows.   *)
AnswersAreNoticed ==
    \A w \in Worker : \A i \in DOMAIN residents[w] :
        LET j == residents[w][i].job IN
        residents[w][i].waiting /\ host[j] = "done" =>
            j \in ringing \/ Top(w).stale

(* The three together: no wake-up is lost, on either condition variable, for *)
(* queued work, the end of an awaited job or the answer of a transport.      *)
NoWakeupIsLost ==
    SleepersHaveNothingToDo /\ QueuedWorkIsSignalled /\ AnswersAreNoticed

(* The phase of a job as the abstract lifecycle sees it.                     *)
PhaseOf(j) == CASE status[j] = "committing" -> "publishing"
                [] status[j] = "aborted"    -> "failed"
                [] OTHER                    -> status[j]

Lifecycle == INSTANCE JobLifecycle
                WITH phase <- [j \in Job |-> PhaseOf(j)], open <- ~Closed

(* The pool with its nested frames implements the lifecycle of a job.        *)
ImplementsLifecycle == Lifecycle!Spec

(* Helping does not change what a wait means: when the jobs a job waits for  *)
(* have ended, the wait returns.                                             *)
Waiting(j) == \E w \in Worker : \E i \in 1..(Depth(w) - 1) : stack[w][i].job = j
WaitIsHonoured ==
    HostsAnswer => \A j \in Job : Waiting(j) /\ WaitOver(Head(prog[j])) ~> ~Waiting(j)

(* Every admitted job ends.                                                  *)
JobsEnd == HostsAnswer => \A j \in Job : status[j] = "queued" ~> Over(j)

(* A foreground wait comes back.                                             *)
WaitsReturn == HostsAnswer => \A c \in Client : client[c] = "check" ~> client[c] = "back"

(* A stopped runtime comes to rest: every job ends and every thread exits,   *)
(* also the threads deep in nested waits and the jobs whose transport never  *)
(* answers.  The call is one of the program that the driver parks; a call    *)
(* made in a nested execution of a handler, which the driver cannot leave,   *)
(* is not modelled.                                                          *)
StoppedDrains ==
    Closed ~> /\ \A j \in Job : ~Live(j)
              /\ \A w \in Worker : At(w, "exited")

(* A canceled job ends although the transport of a call it is parked on      *)
(* never answers.                                                            *)
CancelEnds == \A j \in Job : j \in cancelReq ~> Over(j)
=============================================================================
