---------------------------- MODULE VmScheduler ----------------------------
(* One execution of the virtual machine (bsl-vm/src/scheduler.rs, the loop   *)
(* of poll_linked in bsl-vm/src/lib.rs, notifications.rs): cooperative tasks *)
(* that wait for promises, operations of the host that complete on other     *)
(* threads, calls that freeze the execution, evaluation of expressions by    *)
(* the debugger in a paused task, and the drop of the execution.  The VM     *)
(* thread runs one instruction at a time; what other threads do meanwhile is *)
(* to complete operations into a channel and to raise the cancel flag.       *)
(*                                                                           *)
(* A program is a sequence of instructions that matter to the scheduler.  A  *)
(* variable holds a promise or a plain value (0); tasks share it.  A safe    *)
(* point may or may not be the one that ends the quantum of the task.        *)
EXTENDS Integers, Sequences, FiniteSets, SequencesExt, Collections

CONSTANTS
    Slot,     \* variables of the module
    Body,     \* names of programs
    Code,     \* [Body -> Seq(Op)]
    Main,     \* programs an execution may start with
    Eval,     \* expressions the debugger may evaluate
    MaxEval,  \* how often it does (bound)
    Fault     \* what goes wrong or is broken off, see Faults

Faults == {"prepare", "refuse", "answer", "cancel", "terminate", "drop"}
Kind == {"file", "temp", "http", "app"}

(* try: the instruction stands in a try block that ends with it.             *)
Op == [do : {"work", "raise", "enter"}, try : BOOLEAN]
        \cup [do : {"function", "procedure", "notify"}, body : Body, slot : Slot,
              try : BOOLEAN]
        \cup [do : {"await"}, slot : Slot, try : BOOLEAN]
        \cup [do : {"host"}, kind : Kind, slot : Slot, try : BOOLEAN]
        \cup [do : {"sync"}, kind : {"http", "app"}, try : BOOLEAN]

(* What stands before the program of a notification.                         *)
Handle == [do |-> "handle", try |-> TRUE]

ASSUME VmAssumption ==
    /\ Code \in [Body -> Seq(Op)]
    /\ Main \subseteq Body /\ Main # {} /\ Eval \subseteq Body
    /\ MaxEval \in Nat
    /\ Fault \subseteq Faults

VARIABLES
    tasks,     \* Seq of [live, code, ends, promise]: ends is TaskCompletion
    current,   \* the task that runs, 0: the VM is between tasks
    ready,     \* the FIFO of events: a task, or the error of a procedure
    promises,  \* Seq of [state, waiters, op], op: ghost number of the operation
    hosts,     \* [promise -> kind] for the pending host promises
    syncWait,  \* the frozen call: [task, promise], or NoWait
    draining,  \* drain_completions: "no", "blocked" in recv, "more" to take;
               \* "nested": a nested execution is blocked in its own
    slots,     \* [Slot -> promise or 0]
    result,    \* the root has returned
    paused,    \* the execution behind an evaluation, or NotPaused
    verdict,   \* what poll reports: "none" while there is something to do
    phase,     \* "live", "dropping", "gone"
    canceled,  \* the cancel flag
    sliced,    \* its driver polls it in slices; otherwise without end
    running,   \* operations on other threads
    channel,   \* completions sent and not received
    dropWaits, \* temporary files the drop still waits for
    nextOp, evals, files  \* ghosts: numbers used, evaluations, [made, kept]

vmVars == <<tasks, current, ready, promises, hosts, syncWait, draining, slots,
            result, paused, verdict>>
outVars == <<running, channel, files>>
vars == <<vmVars, phase, canceled, sliced, outVars, dropWaits, nextOp, evals>>

NoWait == [task |-> 0, promise |-> 0]
NotPaused == [task |-> 0, floor |-> 0, ready |-> <<>>]

Task(t) == [is |-> "task", of |-> t]
Error(t) == [is |-> "error", of |-> t]

Parked(t) == t \in DOMAIN tasks /\ tasks[t].live /\ t # current
Evaluating == paused # NotPaused
Frozen == syncWait # NoWait

NewTask(code, ends, p) == [live |-> TRUE, code |-> code, ends |-> ends, promise |-> p]
NewPromise(st, ws) == [state |-> st, waiters |-> ws, op |-> nextOp]
Pending(p) == p \in DOMAIN promises /\ promises[p].state = "pending"

Instr == Head(tasks[current].code)
Next1(t) == [tasks EXCEPT ![t].code = Tail(@)]
Ended(t) == [tasks EXCEPT ![t].live = FALSE]

(* resolve_promise: the waiters become ready in the order in which they came *)
(* to wait.  A second resolution is an internal error.                       *)
Resolve(p, st, queue) ==
    /\ promises' = [promises EXCEPT ![p].state = st, ![p].waiters = <<>>]
    /\ ready' = queue \o [i \in DOMAIN promises[p].waiters |->
                             Task(promises[p].waiters[i])]

(* poll_linked after a task has left the VM.                                 *)
Settled ==
    /\ result /\ ~Evaluating /\ ready = <<>>
    /\ \A t \in DOMAIN tasks : ~tasks[t].live
Break ==
    /\ current' = 0
    /\ verdict' = IF Settled' THEN "complete" ELSE "none"
BackToTop == current' = 0 /\ UNCHANGED verdict
Abort(why) == current' = 0 /\ verdict' = why
Go == UNCHANGED <<current, verdict>>

-----------------------------------------------------------------------------
Init ==
    /\ \E b \in Main : tasks = <<NewTask(Code[b], "root", 0)>>
    /\ current = 0 /\ ready = <<Task(1)>>
    /\ promises = <<>> /\ hosts = <<>>
    /\ syncWait = NoWait /\ draining = "no"
    /\ slots = [s \in Slot |-> 0]
    /\ result = FALSE /\ paused = NotPaused /\ verdict = "none"
    /\ phase = "live" /\ canceled = FALSE /\ sliced \in BOOLEAN
    /\ running = {} /\ channel = <<>> /\ files = [made |-> {}, kept |-> {}]
    /\ dropWaits = {} /\ nextOp = 1 /\ evals = 0

-----------------------------------------------------------------------------
(* Between tasks.                                                            *)

(* Mutant: an evaluation takes whatever comes.                               *)
EligibleForAll ==
    IF Frozen THEN {i \in DOMAIN ready : ready[i] = Task(syncWait.task)}
    ELSE DOMAIN ready

(* The events poll_linked may take: only the frozen task while a call is     *)
(* frozen; only new tasks and errors during an evaluation.                   *)
Eligible ==
    IF Frozen THEN {i \in DOMAIN ready : ready[i] = Task(syncWait.task)}
    ELSE IF Evaluating
         THEN {i \in DOMAIN ready : ready[i].is = "error" \/ ready[i].of >= paused.floor}
         ELSE DOMAIN ready
First(i) == i \in Eligible /\ \A k \in Eligible : i <= k
Between == phase = "live" /\ current = 0 /\ verdict = "none"

PopCanceled ==
    /\ Between /\ canceled
    /\ \E i \in Eligible : First(i) /\ ready' = RemoveAt(ready, i)
    /\ Abort("canceled")
    /\ UNCHANGED <<tasks, promises, hosts, syncWait, draining, slots, result, paused>>

PopError ==
    /\ Between /\ ~canceled
    /\ \E i \in Eligible :
         First(i) /\ ready[i].is = "error" /\ ready' = RemoveAt(ready, i)
    /\ Abort("failed")
    /\ UNCHANGED <<tasks, promises, hosts, syncWait, draining, slots, result, paused>>

PopTask ==
    /\ Between /\ ~canceled /\ ~Frozen
    /\ draining' = "no"
    /\ \E i \in Eligible :
         /\ First(i) /\ ready[i].is = "task"
         /\ ready' = RemoveAt(ready, i)
         /\ IF Parked(ready[i].of)
            THEN current' = ready[i].of /\ UNCHANGED verdict
            ELSE Abort("broken")
    /\ UNCHANGED <<tasks, promises, hosts, syncWait, slots, result, paused>>

(* Mutant: the error of a detached procedure goes to the front.              *)
ThrowFirst(t, try, queue, settle) ==
    IF try
    THEN /\ tasks' = Next1(t)
         /\ current' = t
         /\ ready' = queue
         /\ UNCHANGED <<promises, verdict>>
    ELSE /\ tasks' = Ended(t)
         /\ tasks[t].ends = "detached"
         /\ ready' = <<Error(t)>> \o queue
         /\ Break
         /\ UNCHANGED promises

(* An error that leaves an instruction of task t: the handler of the try     *)
(* block, or the end of the task.  `queue` is what is left in ready; `Leave` *)
(* is what the loop does next, and an error in a task of a detached          *)
(* procedure becomes an event of its own.                                    *)
Throw(t, try, queue, settle) ==
    LET Leave == IF settle THEN Break ELSE BackToTop IN
    IF try
    THEN /\ tasks' = Next1(t)
         /\ current' = t
         /\ ready' = queue
         /\ UNCHANGED <<promises, verdict>>
    ELSE /\ tasks' = Ended(t)
         /\ \/ /\ tasks[t].ends \in {"root", "notification"}
               /\ ready' = queue
               /\ Abort("failed")
               /\ UNCHANGED promises
            \/ /\ tasks[t].ends = "detached"
               /\ ready' = Append(queue, Error(t))
               /\ Leave
               /\ UNCHANGED promises
            \/ /\ tasks[t].ends = "promise"
               /\ Resolve(tasks[t].promise, "err", queue)
               /\ IF Pending(tasks[t].promise) THEN Leave ELSE Abort("broken")

(* resume_parked_task: the answer of a frozen call goes to the register of   *)
(* its instruction and is taken out of the table of promises.  If the error  *)
(* ends the task, the loop starts over without looking whether all is done.  *)
PopFrozen ==
    /\ Between /\ Frozen /\ ~canceled
    /\ draining' = "no"
    /\ syncWait' = NoWait
    /\ \E i \in Eligible :
         /\ First(i)
         /\ LET t == syncWait.task
                p == syncWait.promise
                left == RemoveAt(ready, i)
            IN IF ~Parked(t) \/ Pending(p)
               THEN Abort("broken") /\ ready' = left /\ UNCHANGED <<tasks, promises>>
               ELSE IF promises[p].state = "ok"
               THEN /\ tasks' = Next1(t) /\ current' = t /\ ready' = left
                    /\ UNCHANGED <<promises, verdict>>
               ELSE Throw(t, Head(tasks[t].code).try, left, FALSE)
    /\ UNCHANGED <<hosts, slots, result, paused>>

(* A poll without a bound on its answers waits inside recv: that of an       *)
(* evaluation, of a run to completion, and of every nested execution.  A     *)
(* driver that polls in slices gets Waiting and comes again.                 *)
MustWait == Eligible = {} /\ DOMAIN hosts # {}
Block ==
    /\ Between /\ (Evaluating \/ ~sliced) /\ MustWait /\ ~canceled /\ draining # "blocked"
    /\ draining' = "blocked"
    /\ Go
    /\ UNCHANGED <<tasks, ready, promises, hosts, syncWait, slots, result, paused>>

(* Nothing is eligible: drain_completions.  The answer must be of an         *)
(* operation that is pending, and of its kind.                               *)
Accept ==
    /\ Between /\ channel # <<>>
    /\ draining # "no" \/ (MustWait /\ ~canceled)
    /\ draining' = "more"
    /\ channel' = Tail(channel)
    /\ LET c == Head(channel) IN
       IF c.promise \in DOMAIN hosts /\ hosts[c.promise] = c.kind /\ Pending(c.promise)
       THEN /\ hosts' = [p \in DOMAIN hosts \ {c.promise} |-> hosts[p]]
            /\ Resolve(c.promise, IF c.ok THEN "ok" ELSE "err", ready)
            /\ files' = IF c.kind = "temp" /\ c.ok
                        THEN [files EXCEPT !.kept = @ \cup {c.op}] ELSE files
            /\ Go
       ELSE Abort("broken") /\ UNCHANGED <<hosts, promises, ready, files>>
    /\ UNCHANGED <<tasks, syncWait, slots, result, paused, running>>

(* Mutant: the flag is looked at only after a completion.                    *)
WaitCanceledLate ==
    /\ Between /\ MustWait /\ canceled /\ draining = "more"
    /\ Abort("canceled")
    /\ UNCHANGED <<tasks, ready, promises, hosts, syncWait, draining, slots, result,
                   paused>>

WaitCanceled ==
    /\ Between /\ MustWait /\ canceled /\ draining # "blocked"
    /\ Abort("canceled")
    /\ UNCHANGED <<tasks, ready, promises, hosts, syncWait, draining, slots, result,
                   paused>>

(* Mutant: pending host operations are not looked at.                        *)
StuckAnyway ==
    /\ Between /\ Eligible = {}
    /\ Abort("stuck")
    /\ UNCHANGED <<tasks, ready, promises, hosts, syncWait, draining, slots, result,
                   paused>>

(* No event, and nobody outside who could make one.                          *)
Stuck ==
    /\ Between /\ Eligible = {} /\ DOMAIN hosts = {}
    /\ IF result /\ ~Evaluating /\ \A t \in DOMAIN tasks : ~tasks[t].live
       THEN Abort("complete") ELSE Abort("stuck")
    /\ UNCHANGED <<tasks, ready, promises, hosts, syncWait, draining, slots, result,
                   paused>>

-----------------------------------------------------------------------------
(* Instructions of the current task.                                         *)

Runs(what) ==
    /\ phase = "live" /\ current # 0
    /\ tasks[current].code # <<>> /\ Instr.do = what
Continue == tasks' = Next1(current) /\ Go

(* A safe point: the task goes on, or its quantum is over.                   *)
Work ==
    /\ Runs("work")
    /\ UNCHANGED <<promises, hosts, syncWait, draining, slots, result, paused>>
    /\ \/ Continue /\ UNCHANGED ready
       \/ tasks' = Next1(current) /\ ready' = Append(ready, Task(current)) /\ Break

Raise ==
    /\ Runs("raise")
    /\ UNCHANGED <<hosts, syncWait, draining, slots, result, paused>>
    /\ Throw(current, Instr.try, ready, TRUE)

(* A handler, an event or the body of a module runs in an execution of its   *)
(* own (an instance of this module with ~sliced and without a cancel flag),  *)
(* which the instruction polls to its end.  It waits for its own hosts: the  *)
(* instruction may not return for as long as they are silent.                *)
NestedReturns ==
    /\ draining' = "no"
    /\ UNCHANGED <<hosts, syncWait, slots, result, paused>>
    /\ \/ Continue /\ UNCHANGED <<promises, ready>>
       \/ Throw(current, Instr.try, ready, TRUE)

Enter ==
    /\ Runs("enter") /\ draining = "no"
    /\ \/ NestedReturns
       \/ /\ draining' = "nested" /\ Go
          /\ UNCHANGED <<tasks, ready, promises, hosts, syncWait, slots, result, paused>>

Leave == Runs("enter") /\ draining = "nested" /\ NestedReturns

(* A call of an async function or procedure: the callee runs first, then the *)
(* caller, then those who were ready before.                                 *)
StartAsync ==
    /\ Runs("function") \/ Runs("procedure")
    /\ UNCHANGED <<hosts, syncWait, draining, result, paused>>
    /\ LET fn == Instr.do = "function"
           p == IF fn THEN Len(promises) + 1 ELSE 0
           child == Len(tasks) + 1
       IN /\ promises' = IF fn THEN Append(promises, NewPromise("pending", <<>>))
                               ELSE promises
          /\ slots' = [slots EXCEPT ![Instr.slot] = p]
          /\ tasks' = Append(Next1(current),
                        NewTask(Code[Instr.body], IF fn THEN "promise" ELSE "detached", p))
          /\ ready' = <<Task(child), Task(current)>> \o ready
    /\ Break

(* Await of something that is no promise only yields.                        *)
AwaitValue ==
    /\ Runs("await") /\ slots[Instr.slot] = 0
    /\ UNCHANGED <<promises, hosts, syncWait, draining, slots, result, paused>>
    /\ tasks' = Next1(current)
    /\ ready' = Append(ready, Task(current))
    /\ Break

(* The instruction stays, to be executed again when the task is woken.       *)
Suspend(p) ==
    /\ promises' = IF Contains(promises[p].waiters, current) THEN promises
                   ELSE [promises EXCEPT ![p].waiters = Append(@, current)]
    /\ UNCHANGED <<tasks, ready>>
    /\ Break

AwaitPromise ==
    /\ Runs("await") /\ slots[Instr.slot] # 0
    /\ UNCHANGED <<hosts, syncWait, draining, slots, result, paused>>
    /\ LET p == slots[Instr.slot] IN
       CASE promises[p].state = "pending" -> Suspend(p)
         [] promises[p].state = "ok" ->
              /\ tasks' = Next1(current)
              /\ ready' = Append(ready, Task(current))
              /\ UNCHANGED promises
              /\ Break
         [] promises[p].state = "err" -> Throw(current, Instr.try, ready, TRUE)

(* The first instruction of the task of a notification awaits its own        *)
(* promise.  An answer does not lose its turn; an error goes to the handler. *)
HandleNotification ==
    /\ Runs("handle")
    /\ UNCHANGED <<hosts, syncWait, draining, slots, result, paused>>
    /\ LET p == tasks[current].promise IN
       CASE promises[p].state = "pending" -> Suspend(p)
         [] promises[p].state = "ok" ->
              /\ tasks' = Next1(current)
              /\ ready' = <<Task(current)>> \o ready
              /\ UNCHANGED promises
              /\ Break
         [] promises[p].state = "err" -> Continue /\ UNCHANGED <<ready, promises>>

(* The task returns.  A notification whose operation failed ends the         *)
(* execution unless its handler has dealt with the error.                    *)
Done ==
    /\ phase = "live" /\ current # 0 /\ tasks[current].code = <<>>
    /\ UNCHANGED <<hosts, syncWait, draining, slots, paused>>
    /\ tasks' = Ended(current)
    /\ LET p == tasks[current].promise IN
       CASE tasks[current].ends = "root" ->
              /\ UNCHANGED <<ready, promises>>
              /\ IF Evaluating
                 THEN Abort("complete") /\ UNCHANGED result
                 ELSE result' = TRUE /\ Break
         [] tasks[current].ends = "promise" ->
              /\ Resolve(p, "ok", ready)
              /\ UNCHANGED result
              /\ IF Pending(p) THEN Break ELSE Abort("broken")
         [] tasks[current].ends = "detached" ->
              UNCHANGED <<ready, promises, result>> /\ Break
         [] tasks[current].ends = "notification" ->
              /\ UNCHANGED <<ready, promises, result>>
              /\ \/ Break
                 \/ promises[p].state = "err" /\ Abort("failed")

-----------------------------------------------------------------------------
(* Operations of the host.                                                   *)

(* A number for a new promise; `p` is the promise of operation nextOp.       *)
Fresh == Len(promises) + 1
Start(kind) ==
    /\ running' = running \cup {[op |-> nextOp, promise |-> Fresh, kind |-> kind,
                                 at |-> "thread", canceled |-> FALSE]}
    /\ hosts' = [p \in DOMAIN hosts \cup {Fresh} |->
                    IF p = Fresh THEN kind ELSE hosts[p]]
    /\ nextOp' = nextOp + 1

(* The operation is accepted: its promise is pending.                        *)
HostCall ==
    /\ Runs("host")
    /\ Start(Instr.kind)
    /\ promises' = Append(promises, NewPromise("pending", <<>>))
    /\ slots' = [slots EXCEPT ![Instr.slot] = Fresh]
    /\ Continue
    /\ UNCHANGED <<ready, syncWait, draining, result, paused, channel, files>>

(* The promise is settled when it is made: there is nothing to do (an empty  *)
(* command, a path that needs no operation), or an error of preparation, of  *)
(* the start of the thread, or of a launcher, seen by whoever awaits.        *)
MadeSettled(kind) ==
    /\ \E st \in (IF kind = "temp" THEN {} ELSE {"ok"})
                  \cup (IF "prepare" \in Fault THEN {"err"} ELSE {}) :
         promises' = Append(promises, NewPromise(st, <<>>))
    /\ nextOp' = nextOp + 1
    /\ UNCHANGED <<hosts, running>>

HostCallSettles ==
    /\ Runs("host") /\ Instr.kind # "http" /\ MadeSettled(Instr.kind)
    /\ slots' = [slots EXCEPT ![Instr.slot] = Fresh]
    /\ Continue
    /\ UNCHANGED <<ready, syncWait, draining, result, paused, channel, files>>

(* Mutant: the promise of a refused request stays.                           *)
HostRefusesKeeps ==
    /\ Runs("host") /\ Instr.kind = "http" /\ Instr.try /\ "refuse" \in Fault
    /\ UNCHANGED <<hosts, syncWait, draining, slots, result, paused, outVars, ready>>
    /\ promises' = Append(promises, NewPromise("pending", <<>>))
    /\ nextOp' = nextOp + 1
    /\ Continue

(* A transport that refuses a request raises at the call; the promise made   *)
(* for it is taken back, and the next one gets the same number.  It never    *)
(* uses the sink it was given: that is the contract of submit (http.rs:244,  *)
(* application.rs:329), and nothing in the VM would tell a late answer apart.*)
HostRefuses ==
    /\ UNCHANGED <<hosts, syncWait, draining, slots, result, paused, outVars>>
    /\ (Runs("host") /\ Instr.kind = "http") \/ Runs("sync")
    /\ "refuse" \in Fault
    /\ Throw(current, Instr.try, ready, TRUE)
    /\ nextOp' = nextOp + 1

(* begin_sync_host_call: the task waits for a promise nobody else knows, and *)
(* no other task runs until it has its answer.                               *)
SyncCall ==
    /\ Runs("sync")
    /\ UNCHANGED <<tasks, ready, draining, slots, result, paused, channel, files>>
    /\ Start(Instr.kind)
    /\ promises' = Append(promises, NewPromise("pending", <<current>>))
    /\ syncWait' = [task |-> current, promise |-> Fresh]
    /\ Break

(* notifications::register: a file operation, under way or settled at once,  *)
(* with a task that awaits it.                                               *)
Notify ==
    /\ Runs("notify")
    /\ tasks' = Append(Next1(current),
                  NewTask(<<Handle>> \o Code[Instr.body], "notification", Fresh))
    /\ ready' = Append(ready, Task(Len(tasks) + 1))
    /\ Go
    /\ \/ Start("file") /\ promises' = Append(promises, NewPromise("pending", <<>>))
       \/ MadeSettled("file")
    /\ UNCHANGED <<syncWait, draining, slots, result, paused, channel, files>>

-----------------------------------------------------------------------------
(* The debugger.                                                             *)

(* run_dynamic_snippet: the events of the paused execution are set aside, a  *)
(* new root runs, and only tasks as new as it.                               *)
Evaluate(b) ==
    /\ phase = "live" /\ current # 0 /\ ~Evaluating /\ evals < MaxEval
    /\ draining = "no"
    /\ tasks[current].ends # "notification"
    /\ tasks' = Append(tasks, NewTask(Code[b], "root", 0))
    /\ paused' = [task |-> current, floor |-> Len(tasks) + 1, ready |-> ready]
    /\ ready' = <<Task(Len(tasks) + 1)>>
    /\ current' = 0
    /\ evals' = evals + 1
    /\ UNCHANGED <<promises, hosts, syncWait, draining, slots, result, verdict>>

(* The hook ends the run.                                                    *)
Terminate ==
    /\ phase = "live" /\ current # 0 /\ ~Evaluating /\ "terminate" \in Fault
    /\ draining = "no"
    /\ tasks[current].ends # "notification"
    /\ Abort("terminated")
    /\ UNCHANGED <<tasks, ready, promises, hosts, syncWait, draining, slots, result,
                   paused>>

(* Mutant: the events of the evaluation are dropped with it.                 *)
EndEvaluationDropsEvents ==
    /\ phase = "live" /\ Evaluating /\ verdict \notin {"none", "broken"}
    /\ tasks' = Ended(paused.floor)
    /\ ready' = paused.ready
    /\ promises' = [p \in DOMAIN promises |->
                      [promises[p] EXCEPT !.waiters = Without(@, {paused.floor})]]
    /\ syncWait' = IF syncWait.task = paused.floor THEN NoWait ELSE syncWait
    /\ current' = paused.task /\ paused' = NotPaused
    /\ verdict' = "none" /\ draining' = "no"
    /\ UNCHANGED <<hosts, slots, result>>

(* discard_debug_task and the return to the paused task.                     *)
EndEvaluation ==
    /\ phase = "live" /\ Evaluating /\ verdict \notin {"none", "broken"}
    /\ LET root == paused.floor
       IN /\ tasks' = Ended(root)
          /\ ready' = paused.ready \o Without(ready, {Task(root)})
          /\ promises' = [p \in DOMAIN promises |->
                            [promises[p] EXCEPT !.waiters = Without(@, {root})]]
          /\ syncWait' = IF syncWait.task = root THEN NoWait ELSE syncWait
    /\ current' = paused.task
    /\ paused' = NotPaused
    /\ verdict' = "none"
    /\ draining' = "no"
    /\ UNCHANGED <<hosts, slots, result>>

-----------------------------------------------------------------------------
(* Other threads.                                                            *)

(* The thread of a temporary file looks at its flag once, then is in the     *)
(* file system.                                                              *)
EnterHost(o) ==
    /\ o \in running /\ o.kind = "temp" /\ o.at = "thread" /\ ~o.canceled
    /\ running' = (running \ {o}) \cup {[o EXCEPT !.at = "inside"]}
    /\ UNCHANGED <<channel, files>>

Complete(o) ==
    /\ o \in running
    /\ o.kind = "temp" => o.at = "inside" \/ o.canceled
    /\ running' = running \ {o}
    /\ \E ok \in IF o.kind = "temp" /\ o.at = "thread" THEN {FALSE}
                 ELSE IF "answer" \in Fault THEN BOOLEAN ELSE {TRUE} :
         /\ channel' = Append(channel, [op |-> o.op, promise |-> o.promise,
                                        kind |-> o.kind, ok |-> ok])
         /\ files' = IF o.kind = "temp" /\ ok
                     THEN [files EXCEPT !.made = @ \cup {o.op}] ELSE files

Cancel ==
    /\ "cancel" \in Fault /\ phase = "live" /\ ~canceled
    /\ canceled' = TRUE

-----------------------------------------------------------------------------
(* Mutant: the drop waits for nobody.                                        *)
DropBeginsQuietly ==
    /\ phase = "live" /\ current = 0 /\ ~Evaluating
    /\ verdict # "none" \/ "drop" \in Fault
    /\ phase' = "dropping"
    /\ dropWaits' = {}
    /\ UNCHANGED <<running, channel, files>>

(* Drop of AsyncState, after a verdict or between two polls.                 *)
DropBegins ==
    /\ phase = "live" /\ current = 0 /\ ~Evaluating
    /\ verdict # "none" \/ "drop" \in Fault
    /\ phase' = "dropping"
    /\ running' = {IF o.kind = "app" THEN o ELSE [o EXCEPT !.canceled = TRUE]
                     : o \in running}
    /\ dropWaits' = {p \in DOMAIN hosts : hosts[p] = "temp"}
    /\ UNCHANGED <<channel, files>>

(* Only temporary files are waited for: they must reach the registry, which  *)
(* deletes them with the session.                                            *)
DropReceives ==
    /\ phase = "dropping" /\ dropWaits # {} /\ channel # <<>>
    /\ channel' = Tail(channel)
    /\ LET c == Head(channel) IN
       /\ dropWaits' = dropWaits \ {c.promise}
       /\ files' = IF c.promise \in dropWaits /\ c.kind = "temp" /\ c.ok
                   THEN [files EXCEPT !.kept = @ \cup {c.op}] ELSE files
    /\ UNCHANGED <<running, phase>>

DropEnds ==
    /\ phase = "dropping" /\ dropWaits = {}
    /\ phase' = "gone"
    /\ UNCHANGED <<running, channel, files, dropWaits>>

-----------------------------------------------------------------------------
Quiet == UNCHANGED <<outVars, nextOp>>

VmStep ==
    \/ /\ \/ PopCanceled \/ PopError \/ PopTask \/ PopFrozen \/ Block \/ WaitCanceled
          \/ Stuck \/ Terminate \/ Work \/ Raise \/ Enter \/ AwaitValue
          \/ AwaitPromise \/ HandleNotification \/ Done \/ EndEvaluation
       /\ Quiet
    \/ StartAsync /\ UNCHANGED outVars /\ nextOp' = nextOp + 1
    \/ Accept /\ UNCHANGED nextOp
    \/ HostCall \/ HostCallSettles \/ HostRefuses \/ SyncCall \/ Notify

Thread == \E o \in running : EnterHost(o) \/ Complete(o)
Drop == DropBegins \/ DropReceives \/ DropEnds

Next ==
    \/ VmStep /\ UNCHANGED <<phase, canceled, sliced, dropWaits, evals>>
    \/ Leave /\ Quiet /\ UNCHANGED <<phase, canceled, sliced, dropWaits, evals>>
    \/ (\E b \in Eval : Evaluate(b)) /\ Quiet /\ UNCHANGED <<phase, canceled, sliced, dropWaits>>
    \/ Thread /\ UNCHANGED <<vmVars, phase, canceled, sliced, dropWaits, nextOp, evals>>
    \/ Cancel /\ UNCHANGED <<vmVars, phase, sliced, outVars, dropWaits, nextOp, evals>>
    \/ Drop /\ UNCHANGED <<vmVars, canceled, sliced, nextOp, evals>>

Spec == Init /\ [][Next]_vars

(* The VM takes steps while it can; threads of files and the drop go on.     *)
(* Nothing is assumed of transports, launchers, the debugger, cancel, and of *)
(* what a nested execution waits for.                                        *)
FileThread == \E o \in running : o.kind \in {"file", "temp"} /\ (EnterHost(o) \/ Complete(o))
FairSpec ==
    /\ Spec
    /\ WF_vars(VmStep /\ UNCHANGED <<phase, canceled, sliced, dropWaits, evals>>)
    /\ WF_vars(FileThread /\ UNCHANGED <<vmVars, phase, canceled, sliced, dropWaits, nextOp, evals>>)
    /\ WF_vars((DropReceives \/ DropEnds) /\ UNCHANGED <<vmVars, canceled, sliced, nextOp, evals>>)

-----------------------------------------------------------------------------
(* Properties.                                                               *)

InFlight == running \cup {[op |-> c.op, promise |-> c.promise, kind |-> c.kind] : c \in Range(channel)}
Events == [is : {"task", "error"}, of : DOMAIN tasks]

(* The shape of the state; while an operation is on its way its number is    *)
(* its own.                                                                  *)
TypeOK ==
    /\ current \in 0..Len(tasks)
    /\ current # 0 => tasks[current].live
    /\ ready \in Seq(Events) /\ paused.ready \in Seq(Events)
    /\ \A t \in DOMAIN tasks : tasks[t].promise \in 0..Len(promises)
    /\ \A p \in DOMAIN promises :
         /\ promises[p].state \in {"pending", "ok", "err"}
         /\ Range(promises[p].waiters) \subseteq DOMAIN tasks
         /\ promises[p].state # "pending" => promises[p].waiters = <<>>
    /\ DOMAIN hosts \subseteq DOMAIN promises
    /\ \A s \in Slot : slots[s] \in 0..Len(promises)
    /\ syncWait.promise \in 0..Len(promises)
    /\ draining \in {"no", "blocked", "more", "nested"}
    /\ verdict \in {"none", "complete", "failed", "canceled", "stuck", "terminated",
                    "broken"}
    /\ \A o, x \in InFlight : o.op = x.op => o.promise = x.promise

(* The events in the order in which they will be taken: those that an        *)
(* evaluation has set aside come first.                                      *)
Line == paused.ready \o ready

Places(t) ==
    Cardinality({i \in DOMAIN Line : Line[i] = Task(t)})
    + Cardinality({w \in (DOMAIN promises) \X (1..Len(tasks)) :
                     /\ w[2] \in DOMAIN promises[w[1]].waiters
                     /\ promises[w[1]].waiters[w[2]] = t})

(* A live task that does not run stands in exactly one place, the line or    *)
(* the waiters of one pending promise, and a dead or a running one nowhere:  *)
(* no wake-up is lost, none comes twice.  (A canceled evaluation does lose   *)
(* the event it has taken; the execution is canceled with it.)  And nothing  *)
(* inside is broken: no promise is resolved twice, no completion comes for   *)
(* an operation that is not pending, no event names a task that is gone, a   *)
(* frozen task is not woken before its answer.                               *)
OnePlace ==
    /\ TypeOK
    /\ verdict # "broken"
    /\ phase = "live" /\ verdict = "none" /\ ~canceled =>
          \A t \in DOMAIN tasks :
            Places(t) = IF tasks[t].live /\ t \notin {current, paused.task} THEN 1 ELSE 0

(* A pending promise has exactly one producer, the operation it was made for *)
(* or the task that runs its function; an operation on its way, or answered  *)
(* and not taken, is always that of the promise it will resolve, although a  *)
(* refused one gives its number back.                                        *)
Producers ==
    phase = "live" =>
        /\ \A p \in DOMAIN promises :
             LET ops == {o \in InFlight : o.promise = p}
                 fns == {t \in DOMAIN tasks : /\ tasks[t].live
                                              /\ tasks[t].ends = "promise"
                                              /\ tasks[t].promise = p}
             IN /\ Pending(p) <=> Cardinality(ops) + Cardinality(fns) = 1
                /\ ~Pending(p) => ops = {} /\ fns = {}
                /\ p \in DOMAIN hosts <=> ops # {}
                /\ \A o \in ops : o.op = promises[p].op /\ o.kind = hosts[p]
        /\ \A o \in InFlight : o.promise \in DOMAIN promises

(* An execution is reported stuck only if its live tasks wait for each       *)
(* other's functions: nobody outside and no event could wake one of them.    *)
StuckMeansCycle ==
    verdict = "stuck" /\ ~Evaluating /\ ~canceled =>
        \A t \in DOMAIN tasks : tasks[t].live =>
            \E p \in DOMAIN promises, u \in DOMAIN tasks :
                /\ t \in Range(promises[p].waiters)
                /\ tasks[u].live /\ tasks[u].ends = "promise" /\ tasks[u].promise = p

Before(q, e, f) == \E i, k \in DOMAIN q : i < k /\ q[i] = e /\ q[k] = f

(* The line is a FIFO: what stands in it keeps its order, also over an       *)
(* evaluation, and a task that is woken and the error of a detached          *)
(* procedure come last.  Only the task that runs and one it has started may  *)
(* go to the front.                                                          *)
NoOvertaking ==
    [][\A e, f \in Range(Line') : f \in Range(Line) =>
          IF e \in Range(Line)
          THEN Before(Line, e, f) => Before(Line', e, f)
          ELSE e.is = "error" \/ (e.of # current /\ e.of \in DOMAIN tasks)
                 => Before(Line', f, e)]_vars

(* While the debugger evaluates an expression, no task of the paused         *)
(* execution runs.                                                           *)
EvaluationIsAlone ==
    [][Evaluating => \A t \in DOMAIN tasks : t < paused.floor => tasks'[t] = tasks[t]]_vars

(* When an execution is gone, every temporary file made for it is in the     *)
(* registry that deletes it, and nobody is making another.                   *)
FilesAreKept ==
    phase = "gone" => /\ files.made \subseteq files.kept
                      /\ \A o \in running : o.kind # "temp"

HostsAnswer == []<>(\A o \in running : o.kind \in {"file", "temp"})
NestedAnswer == []<>(draining # "nested")
Over == phase # "live" \/ (verdict # "none" /\ ~Evaluating)

(* An execution ends if transports and launchers answer it and the nested    *)
(* executions it enters.  A canceled one that is polled in slices ends       *)
(* although its own hosts are silent, if it evaluates nothing and no nested  *)
(* execution is blocked for ever: a poll inside recv does not look at the    *)
(* flag, and a nested execution has none.  A drop waits for its temporary    *)
(* files only.                                                               *)
ExecutionEnds ==
    /\ HostsAnswer /\ NestedAnswer => <>Over
    /\ NestedAnswer => ((canceled /\ sliced /\ ~Evaluating) ~> Over)
    /\ (phase = "dropping") ~> (phase = "gone")
=============================================================================
