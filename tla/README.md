# Verification of the concurrent core of open-bsl

open-bsl runs programs of the 1C:Enterprise language: a compiler to bytecode, a
virtual machine with cooperative tasks, and a host that gives each session its
own state. A session may start *background jobs*, which run on a pool of worker
threads inside the process and return their results through a storage. This
directory holds TLA+ models of the parts of that program where the order of
steps decides: the jobs, their threads and their storage; the scheduler of the
virtual machine and the operations of its host; the parameters and modes of a
session, whose handlers call each other; and the debug adapter, which talks to
an editor while a script runs. A wrong order of two steps there loses a job, a
wake-up, a file or a request, and a test is unlikely to see it.

The models are checked with TLC on small instances, and most of their safety
properties are proved with TLAPS for every instance. `PROJECT.json` lists the
components, the runs, the source lines behind every definition (`map`), the
hazards with the properties that watch over them, the findings and the theorems.
Paths below are relative to `src/crates/open-bsl/src` unless they begin with a
crate.

## 1. Inventory

### Modelled

| component | state it keeps | operations | what makes it correct |
|---|---|---|---|
| **Job registry** `jobs/registry.rs` | live records, FIFO, reserved keys, in-flight and byte counters, terminal history with messages; one mutex around all | admit, cancel, messages, start, push message, claim, finish, shutdown, break | counters equal the real totals; a key has one live job; a terminal row is final; a claimed job is ended by its driver only; what was published agrees with how the job ended |
| **Worker pool** `jobs/worker.rs`, `jobs/service.rs` | residents of each thread, stack of nested `drive_local` frames, wake epoch, two condition variables | pop, start, prepare, quantum, park, wait by helping, claim, commit, finish, panic and supervisor | one owner for a started job; no lost wake-up; jobs and waits end; a stopped pool drains |
| **Runtime lifecycle** `jobs/runtime.rs` | Cold/Starting/Running/Broken/Closed, list of thread handles | submit, bootstrap of siblings, supervision, shutdown with a deadline, Drop | the list knows every thread; an open runtime with work has a thread; shutdown returns and accounts for the threads |
| **Temporary storage** `bsl-rt/src/temp_storage.rs` | addresses of a session, staged write-set of a job, mailbox of published values, per-job and global credits | put, get, delete, stage, take, commit | credits add up; the newest write is read; a write-set is seen whole or not at all |
| **VM scheduler and promises** `bsl-vm/src/scheduler.rs`, `lib.rs`, `notifications.rs` | tasks, FIFO of ready tasks and errors, promises with their waiters, pending host operations, the frozen call, cancel flag | start a function or a procedure, await, host call and its refusal, completion, notification, cancel, evaluate, drop | a live task stands in one place; a pending promise has one producer; stuck means a cycle; temporary files are not leaked; executions end |
| **Session parameters and modes** (partly) `bsl-session/src/parameters.rs`, `bsl-vm/src/lib.rs` | value or mark of each parameter, initialisation of the session module, mode counters of each frame | read with lazy initialisation, set, clear, request, call, event, switch a mode, raise, catch | nothing stays marked; writes remain; safe mode holds in everything called from it; a caller gets its modes back |
| **Debug adapter, debugged run** (partly) `bsl-cli/src/dap/*`, `bsl-cli/src/main.rs`, `bsl-vm/src/debug.rs` | bytes not yet cut into frames, channel of requests, breakpoints, mode of stepping, last position | read, cut, serve, stop, step, pause, resolve lines | requests are served once and in order; a breakpoint stops once per pass; frames show their lines |
| **Preparation of a job session** (partly) `jobs/prepare.rs` | session of the job | prepare | a failure ends the job once and leaves the thread in the pool |
| **VM modules, dynamic code** (partly) `bsl-vm/src/snippet.rs` | module bodies, evaluated expressions | evaluate in a paused task, initialise on first use | the paused execution does not move |

How they interact. `JobRuntime::submit` admits into the registry, makes sure
there are threads, and notifies. A worker pops from the registry, loads the
catalogue, prepares a session (which registers its temporary storage with that
of the caller) and drives the VM in quanta. When the program ends the worker
*claims* the job in the registry, *commits* the staged writes into the mailbox
of the caller's session, and *finishes* the job in the registry: three steps,
with the lock released between them. Transports put completions in the channel
of the execution they belong to and call a waker, which raises the wake epoch
under the registry mutex and notifies both condition variables. Shutdown and the
failure of a thread change the registry under the same mutex and notify
everybody. Inside an execution everything happens on one thread; what other
threads do is to complete host operations and to raise the cancel flag. The body
and the handler of the session module run in executions nested in an
instruction of the session's caller and inherit its modes. The debug adapter is
a thread that reads a socket and a hook that the VM calls before each
instruction; the two share a channel.

The hard behaviours, with their lines, are the hazards of `PROJECT.json`. In
short: state read under the lock and used after it (pop, then load, then start;
submit, then spawn); notifications sent after the unlock, to two populations of
sleepers; nested frames that finish in stack order; panics in nested frames; three ways to stop the runtime which race with the claim; counters
maintained in five places; numbers of promises that are given back and used
again while completions are on their way; evaluations that set aside the events
of the execution they run in; files that are opened for an execution that is
gone; handlers that read what they are initialising; decisions of a debugger
that rest on the last position alone.

### Not modelled

| component | why |
|---|---|
| On-demand catalogue `engine_on_demand.rs` | read and left out: a catalogue is prepared on one thread, its source of modules is `Send + Sync` and has no way back into the catalogue that asks it, and a batch is published only after all of it has been verified. What remains is a sequential computation with caches that are filled once |
| Engine facade, event log, settings | assembly and records of one session, without steps that interleave |
| HTTP adapter | tokio and reqwest do the work; what the VM sees of it is `Complete` of VmScheduler and `HostAnswers` of JobPool |
| Value graph, numbers, formats, data libraries | recursive or arithmetic data algorithms; unit and property tests reach them better |
| Front end, compiler, configuration sources, object-relational layer | sequential translations and readers without a state that survives a call; by size they are most of the repository |
| Command line arguments, REPL, examples | terminal and file I/O |

The models cover the code with concurrency, callbacks and failures, which is a
small share of the two hundred thousand lines; the rest computes results from
inputs, and a model of it would repeat it.

## 2. The modules

| module | what it is |
|---|---|
| `JobLifecycle` | abstract specification: phases of a job, when its write-set may be published, what a stopped runtime may do |
| `JobRegistry` | the registry, one action per lock section, and the position of the driver of each job |
| `JobPool` | workers with nested frames, signals, wakers, foreground waits |
| `PoolBootstrap` | creation, supervision and joining of threads |
| `TempStorage` | addresses, staging, publication, credits |
| `VmScheduler` | one execution: tasks, promises, host operations, evaluation, drop |
| `Session` | parameters, session module, modes of frames |
| `DebugAdapter` | wire, reader thread, setup, hook, the stack of a run |
| `Collections` | `Without`, the `retain` of queues, as a recursive function |
| `MC*` | instances for TLC: small programs, sets of callers, symmetry |
| `JobRegistryProofs`, `JobPoolProofs`, `PoolBootstrapProofs`, `TempStorageProofs`, `VmSchedulerProofs`, `SessionProofs`, `DebugAdapterProofs` | theorems, section 5 |
| `CollectionTheorems` | the lemmas they share: induction over a set of numbers, what `Without`, `RemoveAt` and `SubSeq` leave, sums over finite sets |

`JobRegistry` and `JobPool` both implement `JobLifecycle`, which ties them
together: the pool sees of the registry what the lifecycle promises.

### JobRegistry

`records`, `queue`, `keys`, `inflight`, `liveBytes`, `history`,
`historyMessages`, `historyBytes` are the fields of `RegistryInner`; `state` is
its `RuntimeState`. `drv[j]` is the place in the code of the thread that drives
job `j`: it popped it, runs it, has won the claim, has committed or was refused.
`published`, `said` and `taken` are history variables. Every terminal path of
the code ends in `finish`, which is `Finish` here: it gives back the admission
budgets, the key and the place in the queue, appends a row, and evicts the
oldest rows until both limits of the history hold. `Break` and `Shutdown` finish
several jobs in an unspecified order because the code walks a hash map. Sizes
are small numbers. A row is measured with its error cut to `MaxError`; draining
messages changes neither the size of a row nor the message budget of a job, as
in the code.

### JobPool

A worker is a stack of frames. Frame 1 is `drive_local` called by the worker, a
frame above it is `drive_local` called by a wait inside the job of the frame
below. `Top(w).pc` is the position in the loop; each action is either one
section under the registry mutex or a step between two of them that other
threads can come between. `residents[w]` is the pool of the thread, shared by
its frames. Notifications are decided with the change (`Notify`) and delivered
later (`DeliverOne`, `DeliverWork`, `DeliverTerm`), since the code notifies
after the unlock. The wake epoch is a counter compared for equality only, so a
frame keeps `stale`, "my seen epoch differs". Programs are short sequences of
operations: a quantum, a host call, a submission, a wait. The registry appears
here by its effect on a job's status; budgets, keys and history are in
`JobRegistry`.

### PoolBootstrap

The mutex of the thread list is held over several steps (`ensure_workers`, the
sibling loop of `worker_bootstrap`), so it has an explicit holder. A thread has
its position, its panics in a row and the jobs it runs. `Shutter` threads close,
take the list, join until the deadline, detach the rest and report.

### TempStorage

`local` holds the owner's entries, `committed` the ones published by jobs, each
with a number of visibility from the counter of the session. The owner takes a
number first and inserts later, without the lock; a publishing job does both
under the mailbox lock. Measuring takes credits one by one, so two jobs compete
for the last ones. `latest`, `wrote` and `visible` are history variables.

### VmScheduler

One execution. `tasks`, `promises`, `ready`, `hosts`, `syncWait`, `slots` are
fields of the scheduler and the variables of the module; `running` are the
operations of the host that other threads work on, `channel` their completions.
A program is the sequence of instructions that matter to the scheduler: work
that may end the quantum, a raise, the start of a function or a procedure, an
await, a host call that returns a promise, one that freezes the execution, a
notification; any of them may stand in a try block. An operation has a ghost
number of its own, so that `Producers` can tell which operation a promise was
made for although the number of the promise is given back when the host refuses
it. The loop of `poll_linked` is `PopCanceled`, `PopError`, `PopTask`,
`PopFrozen`, `Block`, `Accept`, `WaitCanceled` and `Stuck`; between them the task
that was popped runs instruction by instruction. Four details of the code are
kept because properties rest on them:

- a poll without a bound on its answers blocks in `recv` and there does not look
  at the cancel flag (`bsl-vm/src/lib.rs:1378`). The driver of a job polls in
  slices (`sliced`) and never blocks; an evaluation, `drive_linked` and every
  nested execution do. So `ExecutionEnds` promises nothing to a canceled
  evaluation, nor to an execution that is run to its end in one poll;
- the body and the handlers of a configuration module and the events of an object
  run in an execution of their own, polled without a bound and without a flag
  (`lib.rs:2033`, `lib.rs:2084`, `object_instance.rs:314`) by the instruction that
  entered it. Inside, that execution is another instance of this module with
  `sliced` false and no `Cancel`. In its caller it is the instruction `enter`: it
  returns at once, or blocks (`draining` is "nested") until `Leave`, for which
  nothing is fair. `ExecutionEnds` therefore has the premise `NestedAnswer`, and
  without it a canceled job whose handler waits for a silent transport does not
  end;
- when the error of a frozen call ends its task, the loop goes back to its top
  without the check of what was settled (`bsl-vm/src/lib.rs:1438`), so an
  execution may be reported complete by the branch that otherwise reports it
  stuck;
- an evaluation that is canceled loses the event it has popped, and a frozen
  call may outlive it; both happen only in an execution that is canceled too,
  which is part of the invariant (`FrozenWaits`).

The hook of the debugger runs neither in the task of a notification nor inside
an evaluation, so `Evaluate` starts in other tasks only and is not nested.

### Session

A stack of frames of one thread. A call stays in the task of its caller; the
body of the session module, its handler and an event of an object run in an
execution of their own, with a snapshot of the modes (`inh`). `Own` are the
frames of the running execution. `Request` marks the names and enters the body
or the handler, `BodyReturns` and `HandlerReturns` go on, `RequestFails` unmarks
what is still marked. The field `was` of a frame is a history variable, the
modes of the caller; `must` and `lift` say whether safe mode was on at the entry
and whether the frame is an event that was entered without it.

### DebugAdapter

The editor writes requests in any order the protocol does not forbid (`Proper`);
`Pump` reads any number of halves of frames, `NextFrame` cuts one. `Setup` serves
requests before the run, `BeforeInstruction` is the hook, `Serve` serves one
request while the run stands. The run itself is `Execute` on a stack of
routines, with calls, implicit returns and the bodies of modules initialised on
first use. The assumption `DebugAssumption` on the code of routines is what the
verifier of bytecode establishes: jump targets lie within the chunk or at its
end (`bsl-bytecode/src/image.rs:222`), where a routine returns implicitly. `stood`
is a history variable: the run has stood at this line since it came to it.

## 3. The runs

Twelve runs, one for each question; each passing property has a mutant, a
plausible bug in a mapped definition under which TLC finds it violated.

| run | instance | shows |
|---|---|---|
| `Registry` | 3 jobs, 1 key, sizes 1 and 2, 2 in flight, 2 bytes, 2 rows or 6 bytes of history, one job that says two messages | over all races between drivers, cancel, shutdown, Drop, break and readers: `Accounting` (counters are the real totals and within their limits), `KeyExclusive`, `NobodyForgotten`, `ClaimHeld`, `PublicationMatrix`, `MessagesOnce`, `HistoryIsFinal`, and `ImplementsLifecycle` |
| `PoolSafety` | 2 workers; a parent waits for the first of its child, a job with a host call; faults: catalogue, preparation, panic, shutdown; cancel | `SingleOwner`, `NoWakeupIsLost`, `ImplementsLifecycle`, also through panics and supervisors |
| `PoolLiveness` | 2 workers, a parent and its child, a foreground client; cancel, shutdown, refused commits | `JobsEnd` and `WaitsReturn` when the host answers; `StoppedDrains` and `CancelEnds` although it is silent |
| `PoolCrossWait` (violation) | 1 worker; `c` waits for `a`, which waits for `b` | finding 1 |
| `Bootstrap` | 2 submitters, 1 shutdown, pool of 2; spawns fail, workers panic or hang | `ThreadsAreListed`, `SiblingsAreAccounted`, `NeverReopens`, `JobsEnd`, `ShutdownReturns`, `ThreadsLeave` |
| `BootstrapEscape` (violation) | 1 submitter, 1 shutdown | finding 2 |
| `Storage` | 2 jobs of one session, 2 addresses, 4 writes, sizes 1 and 2, credits 3 and 4 | `BudgetExact`, `NewestWins`, `AllOrNothing` |
| `StorageDeleted` (violation) | the same with 3 writes | finding 3 |
| `VmTasks` | 5 programs, 3 expressions, one evaluation, polled in slices or without end; refusals, answers that are ready at once, failed answers, failed preparation, cancel, termination, drop | `OnePlace`, `Producers`, `StuckMeansCycle`, `FilesAreKept`, `NoOvertaking`, `EvaluationIsAlone`, `ExecutionEnds` |
| `Session` | 2 parameters, 3 frames, one switch of each mode in a frame | `NothingIsLeftHalfDone`, `SafeModeHolds`, `WritesRemain`, `ModesAreRestored` |
| `Debug` | up to 5 requests of any kind, an editor that counts lines from 0 or from 1, a script with a loop, calls, a module body, lines without code | `NothingIsLost`, `ConfirmedIsCompared`, `FramesShowTheirCalls`, `StopsOncePerPass`, `RequestsAreServed` |
| `DebugNext` (violation) | the same | finding 4 |

**Bounds.** They are sets and numbers in the `.cfg` files and the `MC` modules.
Three jobs are the least with which two hold the budget and a third is refused,
and with which two terminal rows fill the history and a third evicts. One job of
a behaviour speaks (`OneSpeaks`), a message of size 1 and then one of size 2, in
any interleaving with its drains, its end and the eviction of its row; messages
of several jobs are in the theorems `MessagesArriveOnce` and `AccountsAreExact`. Two
workers and a nested frame give each kind of sleeper beside a busy thread.
`PanicLimit` is the constant of the code (3); `PoolSafety` sets it to 2, the
least with which a supervisor both restarts and gives up. `MaxWrites` bounds the
values a storage run makes. The programs of `VmTasks` were chosen by what they
meet: promises made inside a function and awaited outside, two functions that
wait for each other and a third party that waits for them, a frozen call while a
task is frozen out, a notification next to an error of a detached procedure, a
handler entered while an operation of the host is on its way.
`MaxEval` is 1, since evaluations do not nest. `MaxDepth` 3 of `Session` is the
session's caller, a handler and what the handler calls; 5 requests of `Debug`
are the three of the setup, one step or pause, and one more that is in the
channel when the first is served. What a run cannot reach at these sizes the
theorems cover where there is one: two shutdowns next to two submissions
(`PoolBootstrapProofs`), deeper stacks, more names and longer programs.

**Deadlock** is not checked: all jobs ended, the pool asleep or gone, an
execution dropped, an editor that writes no more, is where the systems rest.

**Fairness.** `FairSpec` of JobPool asks for weak fairness of every thread,
every waker already due, every decided notification and every foreground check
that may run. The code relies on the same of the operating system and its
condition variables. No job, cancel or shutdown has to happen. That a pending
host call is answered is assumed only by the properties about jobs that wait for
a transport; `StoppedDrains` and `CancelEnds` do without, because the code
promises them without. In PoolBootstrap workers may hang: `FairSpec` covers the
callers and the bootstrap only, and the properties that need workers to run say
so in their premise, which never asks a thread to panic. `FairSpec` of
VmScheduler lets the VM thread, the threads of file operations and the drop go
on; those threads are created by the library itself and only do file I/O.
Transports and launchers are foreign, so `ExecutionEnds` assumes them to answer
(`HostsAnswer`) in its first part only; that what a nested execution waits for
answers (`NestedAnswer`) it assumes in two of its three parts, because a flag does
not reach it. `FairSpec` of DebugAdapter lets the
reader thread and the run go on; the editor owes nothing. No strong fairness is
used.

## 4. What was found

Each finding is a run whose property TLC violates.

1. **A wait inside a job may not return although it is over** (`PoolCrossWait`,
   `jobs/service.rs:153`). `a` waits for its child `b`; the thread helps and
   pops `c`, which knows `a` from the list of jobs and waits for it. The frame
   of `c` is above the frame of `a`. When `b` ends, the wait of `a` is over, but
   its frame cannot return before `c` does, and `c` waits for `a`. With more
   threads it still happens when those two meet on one. The comments promise
   that helping does not change the semantics of a wait. Waits for one's own
   children are safe: both the edge "waits for" and the edge "is blocked by a
   frame above" then lead to a job that started later, so they form no cycle.
   `PoolLiveness` checks an instance of this.
2. **A thread escapes shutdown** (`BootstrapEscape`, `jobs/runtime.rs:640`). A
   submission is admitted, shutdown takes the empty list of threads and returns,
   and only then does the submission spawn worker-0. The thread sees the closed
   runtime and leaves, but is neither joined nor in the report. The code closes
   this window for siblings (`SiblingsAreAccounted` holds), not for the first.
3. **A deleted address can come back** (`StorageDeleted`,
   `bsl-rt/src/temp_storage.rs:328`). A job that holds an address of its caller
   publishes there after the caller deleted it; the address reads as that value
   instead of Undefined.
4. **`next` stops on the line it should leave** (`DebugNext`,
   `bsl-cli/src/dap/hook.rs:413`). The hook compares with the line of the last
   instruction executed, which a callee overwrites (`hook.rs:420`). When the
   call returns in the middle of its line, the line has "changed" and the step
   is over where it began.

Smaller divergences were read in the code or met in the models; they have no
run of their own.

- A spawn failure that comes late turns Closed into Broken
  (`jobs/runtime.rs:657`), while the state diagram has Closed as final.
  `NeverReopens` shows that nothing follows from it for admission.
- `commit_staged` comes before `finish_job` (`jobs/worker.rs:254`), so a caller
  may read the value of a job whose snapshot still says that it runs, which the
  architecture document excludes (`docs/architecture/component-architecture.md:1074`).
  `PublicationMatrix` is weaker than that promise: it allows the window between
  the two steps, and only while the job is claimed. The model follows the code, so
  no property of a run states the promise of the document.
- A canceled job does not end while a handler of a configuration module that it
  has entered waits for a silent transport, since neither the flag nor the slice
  of the driver reaches the nested execution (`bsl-vm/src/lib.rs:2033`). The
  comment at `lib.rs:1370` names the check for jobs parked by the driver only.
- A handler that clears the parameters while they are being initialised removes
  the mark, and a read of the same name enters the handler again
  (`Open, BodyReturns, Request, Clear, Request` in `Session`), where
  `openspec/specs/configuration-session-runtime/spec.md:235` wants an error.
- A request for several parameters that fails at the second name leaves the
  first one marked (`bsl-session/src/parameters.rs:153`). Nobody in the
  repository asks for several; the action `Request` models it, the run and the
  theorem `PreparationIsBalanced` keep to single names (`OneByOne`).
- In the modes of stepping breakpoints are not looked at, so after `stepOut`
  from the outermost frame none fires again; lines are compared without their
  file, so a breakpoint of a script may fire in a module of another file;
  `setBreakpoints` for another file replaces those of the script; a `pause`
  followed by `stepIn` stops on the same line; a call of an empty routine in the
  middle of a line with a breakpoint does not stop a second time, a call of any
  other routine does.

## 5. What is proved

Each theorem holds for every value of the constants that satisfies the
assumption of its module. The assumptions only give constants their types,
relate limits that the code relates, and, in `DebugAdapter` and `VmScheduler`,
say that code is well formed; TLC evaluates each of them in a run. None of the
properties below is inductive alone; every proof has one lemma for each action,
or for each kind of step the actions are made of.

Every invariant, action property and refinement that a passing run checks is
proved; only the liveness properties are not.

**`JobRegistryProofs`**: `KeyExclusive`, `NobodyForgotten`, `ClaimHeld` and
`PublicationMatrix` from `IInv`. It adds `Shape`, the types of what the argument
reads, and that live and published jobs have been issued; `Fresh`, a job in the
history is never live again and every ticket of the FIFO is older than the next
one, without which a new submission could collide with an old row or an old
ticket; and `Positions`, a driver that has popped a job finds it queued if it is
live, one that runs it finds it running, one that has committed has published,
without which a claim could start from a queued record, or a job could end
Completed without its write-set. All endings go through `EndingKeepsIInv`: if
the jobs of a set leave the live records, give back key and queue place, and
every new row is theirs and agrees with the matrix, then `IInv` is kept.

The same module proves four things more.

- `ImplementsLifecycle`. The phase of a job is a function of the live records,
  the history and the ids already given out. It needs one invariant more, that
  ids are unique in the history (`Rows`); then each action moves every job along
  the phases of `JobLifecycle` or stutters, whatever is evicted.
- `MessagesOnce`, through the drains of the live record, the hand-over to the
  history, the drains of the row and its eviction, from `MInv`: the messages of
  a job are in one place.
- `Accounting`, from `Books`. Sums over the live records and over the rows are
  folds, and the lemmas on sums say what one more, one less, a changed term and
  an eviction do to them. `Roomy` is the part that makes the arithmetic work:
  admission has checked room for the largest error and the whole budget of
  messages, so the row of a job never outgrows what was admitted, and one row
  always fits an empty history, which ends the eviction. `Archived` says that
  the counters of the history are the totals of its rows.
- `HistoryIsFinal`, from the same invariant and what `Finish` and eviction do to
  the sequence of rows.

**`JobPoolProofs`**: `SingleOwner`, `ImplementsLifecycle` and `NoWakeupIsLost`
for any number of jobs and workers and any depth of nested frames. `IInv` has
three parts beyond the types. `Placed` says that the queue, the residents of the
threads and the frames hold no job twice, and every live job; `Standings` what
the position of a frame says of the status of its job, without which a frame
that unwinds could end a job that another has committed; `Threads` that only the
top frame of a thread is awake, that each frame below it serves a wait, and that
a thread without a catalogue has started nothing. A panic in a
nested frame ends that frame and the job of the frame below, whose slice catches
it; one in the first frame ends all the jobs of its thread. `WInv`, which
says who has been told, is inductive relative to `IInv`: a resident that waits
for an answer already given has its waker due, or its thread knows that it has
looked too early (`Heard`).

**`PoolBootstrapProofs`**: `ThreadsAreListed`, `SiblingsAreAccounted`,
`NeverReopens`, for every number of submitters, shutdowns and workers. The
invariant says who may hold the lock of the list in which position (`Locked`),
that thread 1 makes all siblings and how many there are (`Counted`), and that
after a shutdown has taken the list only a late worker-0 can enter it (`Taken`).

**`TempStorageProofs`**: `NewestWins`, `AllOrNothing` and `BudgetExact`. `Reads` says of an
address which value is the newest, also between the two steps of a put, when a
job may have published meanwhile; `Apart` says that no value is the
responsibility of two jobs; `Whole` where a job stands in its publication.
`BudgetExact` follows from `Credits`: what a job holds and has left is its
budget while it can still stage, what it holds is the weight of its staged
writes and of the one being replaced, and the global counter is the sum over the
jobs of what they hold and have reserved.

**`VmSchedulerProofs`**: `OnePlace`, `NoOvertaking`, `EvaluationIsAlone`,
`Producers`, `FilesAreKept`, `StuckMeansCycle`, for every program, host and order
of answers. `Turns` says who may run while somebody is paused;
`FrozenWaits` and `Awaited` that the task of a frozen call waits for its answer or
has it, and waits while the answer is pending; `Produced` and `Flights` tie
promises, pending operations, running operations and completions together;
`FilesOnTheirWay` what is made and not yet kept; `NobodyLost` that a live task
stands somewhere, `Once` that nobody stands in two places and only those stand
that may be woken; `Numbered` that operations have numbers of their own and that
events set aside are older than the evaluation. There are some thirty actions, but
each of them is one of a few moves of tasks, promises and operations, and each
part is kept by the moves rather than by the actions. For the line a move is
`Moved(gone, fresh, late)`: who has left it, who has come, and who of those has
come last. `Once` and `NoOvertaking` are both read off that.

**`SessionProofs`**: `ModesAreRestored`, `SafeModeHolds` and `WritesRemain` for
every depth of nesting and any requests; `NothingIsLeftHalfDone` under the
hypothesis `OneByOne` of section 4. The modes are a function of the stack
(`ModesOf`), and the lemmas follow what `was` and `inh` say of it frame by
frame.

**`DebugAdapterProofs`**: `FramesShowTheirCalls` and `StopsOncePerPass` from
`PInv`: where each frame of the stack is (`Calls`), and that the last position
the hook remembers and the pass of the run agree (`Passes`, `InEmpty`);
`ConfirmedIsCompared` from `LInv`, which follows the requests over the wire;
`NothingIsLost` from `LInv` and `Rendered`, which compares the answers and the
channel with the requests cut so far: a frame that is cut comes last on both
sides, a request that is taken goes from the head of the channel to the end of
the answers.

Only model-checked:

- liveness (`JobsEnd`, `WaitsReturn`, `StoppedDrains`, `CancelEnds`,
  `ShutdownReturns`, `ThreadsLeave`, `ExecutionEnds`, `RequestsAreServed`): the
  prover does not reach fairness and ENABLED.

The induction theorems of the library take an operator as a parameter, which the
provers cannot instantiate. Where a proof needs an induction, over the places of
a queue or the members of a finite set, it is an induction over the set of the
numbers for which a fact holds (`InductionOn` in `CollectionTheorems`), which
says as much and is first-order. Recursive functions are used in place of
recursive operators for the same reason.

## 6. What the models leave out

- Poisoned mutexes: no section under the registry mutex calls foreign code.
- Time: a deadline may pass at any moment; how late a timed wait returns is open,
  and with it the delay of a timed wait that helps with another job.
- Memory ordering: shared state is under mutexes, in channels, or in atomic
  counters that are modelled as such.
- Overflow of the sums of sizes: `checked_add` refuses what the limit refuses.
- Resolution of a job's target, and the contents of values, messages and errors.
- Chains of more than two nested waits in `JobPool`, and of sessions in
  `TempStorage` (a job that publishes to a job): no run is large enough.
- In `JobPool` a host call made inside a nested execution of a handler: the driver
  does not get the thread back before it is answered. `StoppedDrains` and
  `CancelEnds` are about calls of the program that the driver parks.
- A late use of the completion sink by a transport that has refused: the contract
  of `submit` excludes it (`bsl-rt/src/http.rs:244`, `application.rs:329`), and
  `Producers` rests on that contract.
- In `VmScheduler` that promises of dynamic code belong to the execution around it
  (`HostIo::file_promises`). Then the instructions that do not concern the scheduler, and the
  swapping of module variables between frames.
- In `Session` the modes of data separation and the values of parameters, and the
  tasks of notifications, which start with default modes
  (`bsl-vm/src/notifications.rs:173`): `SafeModeHolds` is about what is called.
- In `DebugAdapter` the contents of answers, fragments of dynamic code (the hook
  does not enter them), and other async tasks, which share the last position and
  the depth with the one that is stepped.

## 7. What is left of the plan

1. `JobPool` composed with `TempStorage` at the commit, and a chain of sessions.
2. Several async tasks in `DebugAdapter`, and the evaluation of an expression at
   a stop composed with `VmScheduler`.
3. The modes of data separation in `Session`.
