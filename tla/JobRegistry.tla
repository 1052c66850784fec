---------------------------- MODULE JobRegistry ----------------------------
(* The registry of background jobs (jobs/registry.rs): live records, the     *)
(* global FIFO, key reservations, admission budgets and the terminal         *)
(* history.  All of it lives under one mutex, so each action is one lock     *)
(* section.  The actors are callers (submit, cancel, read messages, shut     *)
(* down) and drivers, the worker loops that own a popped job until it is     *)
(* terminal; drv is the local position of the driver of each job.            *)
(*                                                                           *)
(* The usize sums of admission are exact here: `checked_add` turns an        *)
(* overflow into the refusal that the limit gives anyway.                    *)
EXTENDS Integers, Sequences, FiniteSets, Functions, SequencesExt

CONSTANTS
    Job,            \* job ids; id_source never repeats one
    Key, NoKey,     \* key reservations: module, method and key value
    ParamBytes,     \* sizes of parameters, key and strings of a submission
    ErrorBytes,     \* sizes of error descriptions before `bounded`
    MessageBytes,   \* sizes of user messages
    MaxInflight, MaxLiveBytes, MaxHistoryJobs, MaxHistoryBytes,
    MaxSingle, MaxError, MaxMessage

ASSUME ConfigAssumption ==
    /\ {MaxInflight, MaxLiveBytes, MaxHistoryJobs, MaxHistoryBytes,
        MaxSingle, MaxError, MaxMessage} \subseteq Nat
    /\ ParamBytes \cup ErrorBytes \cup MessageBytes \subseteq Nat
    /\ NoKey \notin Key
    /\ IsFiniteSet(Job)

(* BackgroundJobConfig::validate                                             *)
ASSUME ValidConfig ==
    /\ MaxSingle <= MaxHistoryBytes
    /\ MaxError + MaxMessage <= MaxSingle
    /\ MaxInflight # 0

VARIABLES
    state,            \* RuntimeState
    records,          \* live records, a function on the ids that have one
    queue,            \* the global FIFO: <<ticket, id>>, oldest ticket first
    keys,             \* reservations <<key, owner>>
    inflight,         \* admission counter
    liveBytes,        \* admission byte counter
    history,          \* terminal rows, oldest first
    historyMessages,  \* messages of terminal jobs that are still in history
    historyBytes,     \* history byte counter
    drv,              \* [Job -> position of the driver that owns the job]
    published,        \* jobs whose write-set was committed to the caller
    issued,           \* ids given out so far
    said, taken       \* accepted and drained messages of each job (history)

registryVars == <<state, records, queue, keys, inflight, liveBytes, history,
                  historyMessages, historyBytes>>
vars == <<registryVars, drv, published, issued, said, taken>>

RuntimeState == {"Cold", "Starting", "Running", "Broken", "Closed"}
Terminal == {"Completed", "Failed", "Canceled"}
Driver == {"none", "popped", "running", "won", "committed", "refused"}

Record == [status : {"Queued", "Running"}, base : Nat, key : Key \cup {NoKey},
           cancel : BOOLEAN, messages : Seq(MessageBytes), spent : Nat,
           committing : BOOLEAN]
(* "bsl": the program ended by itself; "infra": panic, preparation failure,  *)
(* broken runtime.  The code tells them apart by the error text.             *)
Row == [id : Job, state : Terminal, why : {"bsl", "infra"}, bytes : Nat]

Open == state \notin {"Broken", "Closed"}
Live == DOMAIN records
Kept == {history[i].id : i \in DOMAIN history}

Bytes(rows) == SumFunction([i \in DOMAIN rows |-> rows[i].bytes])
Total(sizes) == SumFunction(sizes)
BaseOf(S) == SumFunction([j \in S |-> records[j].base])
Remaining(S) == [j \in Live \ S |-> records[j]]
WithFlag(S, f) == [j \in DOMAIN f |->
                     IF j \in S THEN [f[j] EXCEPT !.cancel = TRUE] ELSE f[j]]
Bounded(error) == IF error <= MaxError THEN error ELSE MaxError

(* Mutant of AfterEviction: the newest rows go first.                        *)
EvictNewest(rows, n) == SubSeq(rows, 1, Len(rows) - n)

(* The eviction loop drops the oldest rows one by one and stops when count   *)
(* and bytes fit again, or nothing is left.                                  *)
Fits(rows, bytes, n) ==
    \/ /\ Len(rows) - n <= MaxHistoryJobs
       /\ bytes - Bytes(SubSeq(rows, 1, n)) <= MaxHistoryBytes
    \/ n = Len(rows)

AfterEviction(rows, n) == SubSeq(rows, n + 1, Len(rows))

(* finish() for the live jobs of order, one after the other: gives every     *)
(* reservation back and moves the record into the history.  Each use also    *)
(* says what becomes of records.                                             *)
Finish(order, st, why, error) ==
    LET done  == ToSet(order)
        rows  == [i \in 1..Len(order) |->
                    [id |-> order[i], state |-> st, why |-> why,
                     bytes |-> records[order[i]].base + Bounded(error)
                                 + Total(records[order[i]].messages)]]
        grown == history \o rows
        bytes == historyBytes + Bytes(rows)
    IN  /\ inflight' = inflight - Len(order)
        /\ liveBytes' = liveBytes - BaseOf(done)
        /\ keys' = {r \in keys : r[2] \notin done}
        /\ queue' = {q \in queue : q[2] \notin done}
        /\ \E gone \in 0..Len(grown) :
             /\ Fits(grown, bytes, gone)
             /\ \A n \in 0..(gone - 1) : ~Fits(grown, bytes, n)
             /\ history' = AfterEviction(grown, gone)
             /\ historyBytes' = bytes - Bytes(SubSeq(grown, 1, gone))
             /\ historyMessages' =
                  [j \in (DOMAIN historyMessages \cup done)
                            \ {grown[i].id : i \in 1..gone} |->
                     IF j \in done THEN records[j].messages
                                   ELSE historyMessages[j]]

FinishOne(j, st, why, error) ==
    IF j \in Live
    THEN Finish(<<j>>, st, why, error) /\ records' = Remaining({j})
    ELSE UNCHANGED <<records, queue, keys, inflight, liveBytes, history,
                     historyMessages, historyBytes>>

Init ==
    /\ state = "Cold"
    /\ records = [j \in {} |-> {}]
    /\ queue = {}
    /\ keys = {}
    /\ inflight = 0
    /\ liveBytes = 0
    /\ history = <<>>
    /\ historyMessages = [j \in {} |-> <<>>]
    /\ historyBytes = 0
    /\ drv = [j \in Job |-> "none"]
    /\ published = {}
    /\ issued = {}
    /\ said = [j \in Job |-> <<>>]
    /\ taken = [j \in Job |-> <<>>]

-----------------------------------------------------------------------------
(* Mutants: the same operations with a plausible bug, for testing that the   *)
(* properties notice it.                                                     *)

(* Two live jobs may hold the same key.                                      *)
AdmitSameKey(k, base) ==
    /\ Open
    /\ inflight < MaxInflight
    /\ base + MaxError + MaxMessage <= MaxSingle
    /\ liveBytes + base <= MaxLiveBytes

(* The counters are cleared although the drivers still give them back.       *)
DropAndReset ==
    /\ state # "Closed"
    /\ state' = "Closed"
    /\ inflight' = 0 /\ liveBytes' = 0
    /\ records' = WithFlag(Live, records)
    /\ UNCHANGED <<queue, keys, history, historyMessages, historyBytes, drv,
                   published, issued, said, taken>>

(* A broken runtime fails claimed jobs too.                                  *)
BreakEverything ==
    /\ state # "Cold"
    /\ state' = "Broken"
    /\ \E order \in SetToSeqs(Live), error \in ErrorBytes :
          Finish(order, "Failed", "infra", error)
    /\ records' = Remaining(Live)
    /\ UNCHANGED <<drv, published, issued, said, taken>>

(* The popped job stays in the queue.                                        *)
PeekFront ==
    /\ Open
    /\ \E q \in queue : drv' = [drv EXCEPT ![q[2]] = "popped"]
    /\ UNCHANGED <<registryVars, published, issued, said, taken>>

(* The claim does not look at the state of the runtime.                      *)
ClaimAnyway(j) ==
    /\ drv[j] = "running"
    /\ IF j \in Live /\ ~records[j].committing
       THEN /\ records' = [records EXCEPT ![j].committing = TRUE]
            /\ drv' = [drv EXCEPT ![j] = "won"]
       ELSE /\ drv' = [drv EXCEPT ![j] = "none"]
            /\ UNCHANGED records
    /\ UNCHANGED <<state, queue, keys, inflight, liveBytes, history,
                   historyMessages, historyBytes, published, issued, said,
                   taken>>

(* The write-set is committed before the claim.                              *)
CommitEarly(j) ==
    /\ drv[j] \in {"running", "won"}
    /\ published' = published \cup {j}
    /\ drv' = IF drv[j] = "won" THEN [drv EXCEPT ![j] = "committed"] ELSE drv
    /\ UNCHANGED <<registryVars, issued, said, taken>>

-----------------------------------------------------------------------------
(* Callers.                                                                  *)

(* The guards of admit(), in its order; a refusal changes nothing.           *)
Admissible(k, base) ==
    /\ Open
    /\ inflight < MaxInflight
    /\ base + MaxError + MaxMessage <= MaxSingle
    /\ liveBytes + base <= MaxLiveBytes
    /\ k # NoKey => \A r \in keys : r[1] # k

(* submit_shared: admit, then the first job wakes a cold runtime.            *)
Submit(j, k, base) ==
    /\ j \notin issued
    /\ Admissible(k, base)
    /\ issued' = issued \cup {j}
    /\ keys' = IF k = NoKey THEN keys ELSE keys \cup {<<k, j>>}
    /\ inflight' = inflight + 1
    /\ liveBytes' = liveBytes + base
    /\ records' = [i \in Live \cup {j} |->
                     IF i = j
                     THEN [status |-> "Queued", base |-> base, key |-> k,
                           cancel |-> FALSE, messages |-> <<>>, spent |-> 0,
                           committing |-> FALSE]
                     ELSE records[i]]
    /\ queue' = queue \cup {<<Cardinality(issued), j>>}
    /\ state' = IF state = "Cold" THEN "Starting" ELSE state
    /\ UNCHANGED <<history, historyMessages, historyBytes, drv, published,
                   said, taken>>

(* cancel: a queued job ends at once, a running one gets its flag; a job     *)
(* that is only in the history is left alone.                                *)
Cancel(j) ==
    /\ Open
    /\ j \in Live
    /\ \/ /\ records[j].status = "Queued"
          /\ FinishOne(j, "Canceled", "bsl", 0)
       \/ /\ records[j].status = "Running"
          /\ records' = WithFlag({j}, records)
          /\ UNCHANGED <<queue, keys, inflight, liveBytes, history,
                         historyMessages, historyBytes>>
    /\ UNCHANGED <<state, drv, published, issued, said, taken>>

(* take_messages with remove: drains the live record or the history row.     *)
TakeMessages(j) ==
    /\ Open
    /\ \/ /\ j \in Live
          /\ taken' = [taken EXCEPT ![j] = @ \o records[j].messages]
          /\ records' = [records EXCEPT ![j].messages = <<>>]
          /\ UNCHANGED historyMessages
       \/ /\ j \notin Live
          /\ j \in DOMAIN historyMessages
          /\ taken' = [taken EXCEPT ![j] = @ \o historyMessages[j]]
          /\ historyMessages' = [historyMessages EXCEPT ![j] = <<>>]
          /\ UNCHANGED records
    /\ UNCHANGED <<state, queue, keys, inflight, liveBytes, history,
                   historyBytes, drv, published, issued, said>>

(* JobRuntime::shutdown: queued jobs end, running ones are flagged.          *)
Shutdown ==
    /\ state # "Closed"
    /\ state' = "Closed"
    /\ LET queued == {j \in Live : records[j].status = "Queued"} IN
       \E order \in SetToSeqs(queued) :
          /\ Finish(order, "Canceled", "bsl", 0)
          /\ records' = WithFlag(Live, Remaining(queued))
    /\ UNCHANGED <<drv, published, issued, said, taken>>

(* The last owner of the runtime goes away: flags, but nothing is finished.  *)
DropRuntime ==
    /\ state # "Closed"
    /\ state' = "Closed"
    /\ records' = WithFlag(Live, records)
    /\ UNCHANGED <<queue, keys, inflight, liveBytes, history, historyMessages,
                   historyBytes, drv, published, issued, said, taken>>
-----------------------------------------------------------------------------
(* The runtime itself.                                                       *)

(* worker_bootstrap has created the last sibling.                            *)
BootstrapDone ==
    /\ state = "Starting"
    /\ state' = "Running"
    /\ UNCHANGED <<records, queue, keys, inflight, liveBytes, history,
                   historyMessages, historyBytes, drv, published, issued, said,
                   taken>>

(* A thread cannot be spawned or keeps panicking: the runtime is Broken and  *)
(* fail_resident_jobs ends every live job that no driver has claimed.  Only  *)
(* the catalogue failure looks for Closed first.                             *)
Break ==
    /\ state # "Cold"
    /\ state' = "Broken"
    /\ LET unclaimed == {j \in Live : ~records[j].committing} IN
       \E order \in SetToSeqs(unclaimed), error \in ErrorBytes :
          /\ Finish(order, "Failed", "infra", error)
          /\ records' = Remaining(unclaimed)
    /\ UNCHANGED <<drv, published, issued, said, taken>>

-----------------------------------------------------------------------------
(* Drivers.                                                                  *)

(* drive_local takes the oldest queued job of an open runtime.               *)
PopFront ==
    /\ Open
    /\ \E q \in queue :
          /\ \A r \in queue : q[1] <= r[1]
          /\ queue' = queue \ {q}
          /\ drv' = [drv EXCEPT ![q[2]] = "popped"]
    /\ UNCHANGED <<state, records, keys, inflight, liveBytes, history,
                   historyMessages, historyBytes, published, issued, said,
                   taken>>

(* start_job: Queued -> Running if the record is still there and queued, and *)
(* the runtime open; otherwise the driver lets go of the job.                *)
StartJob(j) ==
    /\ drv[j] = "popped"
    /\ IF j \in Live /\ Open /\ records[j].status = "Queued"
       THEN /\ records' = [records EXCEPT ![j].status = "Running"]
            /\ drv' = [drv EXCEPT ![j] = "running"]
       ELSE /\ drv' = [drv EXCEPT ![j] = "none"]
            /\ UNCHANGED records
    /\ UNCHANGED <<state, queue, keys, inflight, liveBytes, history,
                   historyMessages, historyBytes, published, issued, said,
                   taken>>

(* Mutant: the newest message comes first.                                   *)
PushMessageFirst(j, bytes) ==
    /\ drv[j] = "running"
    /\ j \in Live
    /\ records[j].spent + bytes <= MaxMessage
    /\ records' = [records EXCEPT ![j].messages = <<bytes>> \o @,
                                  ![j].spent = @ + bytes]
    /\ said' = [said EXCEPT ![j] = Append(@, bytes)]
    /\ UNCHANGED <<state, queue, keys, inflight, liveBytes, history,
                   historyMessages, historyBytes, drv, published, issued,
                   taken>>

(* push_message: only a live record takes messages, within a budget that a   *)
(* drain does not give back.                                                 *)
PushMessage(j, bytes) ==
    /\ drv[j] = "running"
    /\ j \in Live
    /\ records[j].spent + bytes <= MaxMessage
    /\ records' = [records EXCEPT ![j].messages = Append(@, bytes),
                                  ![j].spent = @ + bytes]
    /\ said' = [said EXCEPT ![j] = Append(@, bytes)]
    /\ UNCHANGED <<state, queue, keys, inflight, liveBytes, history,
                   historyMessages, historyBytes, drv, published, issued,
                   taken>>

(* claim_terminal: the program has ended by itself and its driver asks for   *)
(* the right to publish.  A stopped runtime ends the job "Canceled" instead. *)
ClaimTerminal(j) ==
    /\ drv[j] = "running"
    /\ \/ /\ ~Open
          /\ FinishOne(j, "Canceled", "infra", 0)
          /\ drv' = [drv EXCEPT ![j] = "none"]
       \/ /\ Open
          /\ IF j \in Live /\ ~records[j].committing
             THEN /\ records' = [records EXCEPT ![j].committing = TRUE]
                  /\ drv' = [drv EXCEPT ![j] = "won"]
             ELSE /\ drv' = [drv EXCEPT ![j] = "none"]
                  /\ UNCHANGED records
          /\ UNCHANGED <<queue, keys, inflight, liveBytes, history,
                         historyMessages, historyBytes>>
    /\ UNCHANGED <<state, published, issued, said, taken>>

(* commit_staged: outside the lock; refused when the session of the caller   *)
(* is gone.  A job without staged writes commits trivially.                  *)
CommitStaged(j) ==
    /\ drv[j] = "won"
    /\ \/ /\ published' = published \cup {j}
          /\ drv' = [drv EXCEPT ![j] = "committed"]
       \/ /\ drv' = [drv EXCEPT ![j] = "refused"]
          /\ UNCHANGED published
    /\ UNCHANGED <<registryVars, issued, said, taken>>

(* finish_job of the driver that holds the claim.                            *)
FinishClaimed(j) ==
    /\ drv[j] \in {"committed", "refused"}
    /\ drv' = [drv EXCEPT ![j] = "none"]
    /\ \/ /\ drv[j] = "committed"
          /\ FinishOne(j, "Completed", "bsl", 0)
       \/ \E error \in ErrorBytes : FinishOne(j, "Failed", "bsl", error)
    /\ UNCHANGED <<state, published, issued, said, taken>>

(* The job stops without a claim: canceled at a quantum boundary or by the   *)
(* closing worker, or Failed by a panic, a refused preparation or a guard.   *)
FinishUnclaimed(j) ==
    /\ drv[j] \in {"popped", "running"}
    /\ drv' = [drv EXCEPT ![j] = "none"]
    /\ \/ /\ drv[j] = "running"
          /\ ~Open \/ (j \in Live /\ records[j].cancel)
          /\ FinishOne(j, "Canceled", "infra", 0)
       \/ \E error \in ErrorBytes : FinishOne(j, "Failed", "infra", error)
    /\ UNCHANGED <<state, published, issued, said, taken>>

CallerStep ==
    \/ \E j \in Job, k \in Key \cup {NoKey}, b \in ParamBytes : Submit(j, k, b)
    \/ \E j \in Job : Cancel(j) \/ TakeMessages(j)
    \/ Shutdown
    \/ DropRuntime

DriverStep ==
    \/ PopFront
    \/ \E j \in Job :
          \/ StartJob(j) \/ ClaimTerminal(j) \/ CommitStaged(j)
          \/ FinishClaimed(j) \/ FinishUnclaimed(j)
          \/ \E m \in MessageBytes : PushMessage(j, m)

Next == CallerStep \/ DriverStep \/ BootstrapDone \/ Break

Spec == Init /\ [][Next]_vars

-----------------------------------------------------------------------------
(* Properties.                                                               *)

(* Every variable has its type; a counter below zero would be a usize that   *)
(* wrapped around.                                                           *)
TypeOK ==
    /\ state \in RuntimeState
    /\ Live \subseteq Job
    /\ records \in [Live -> Record]
    /\ queue \subseteq Nat \X Job
    /\ keys \subseteq Key \X Job
    /\ inflight \in Nat
    /\ liveBytes \in Nat
    /\ history \in Seq(Row)
    /\ DOMAIN historyMessages \subseteq Job
    /\ historyMessages \in [DOMAIN historyMessages -> Seq(MessageBytes)]
    /\ historyBytes \in Nat
    /\ drv \in [Job -> Driver]
    /\ published \subseteq Job
    /\ issued \subseteq Job
    /\ said \in [Job -> Seq(MessageBytes)]
    /\ taken \in [Job -> Seq(MessageBytes)]

(* The counters that admission and eviction trust are the real totals:       *)
(* whatever path ends a job gives back exactly what admission took, and      *)
(* eviction subtracts exactly what the row added.                            *)
CountersExact ==
    /\ inflight = Cardinality(Live)
    /\ liveBytes = BaseOf(Live)
    /\ historyBytes = Bytes(history)
    /\ DOMAIN historyMessages = Kept
    /\ Cardinality(Kept) = Len(history)

(* The memory of the runtime stays inside its configuration, and a terminal  *)
(* record with its error and messages never outgrows the size that admission *)
(* checked in advance (the debug_assert of finish).                          *)
WithinBudgets ==
    /\ inflight <= MaxInflight
    /\ liveBytes <= MaxLiveBytes
    /\ Len(history) <= MaxHistoryJobs
    /\ historyBytes <= MaxHistoryBytes
    /\ \A i \in DOMAIN history : history[i].bytes <= MaxSingle

(* The bookkeeping as a whole: types, exact totals, kept limits.             *)
Accounting == TypeOK /\ CountersExact /\ WithinBudgets

(* Two live jobs never hold the same key, and a key is reserved exactly as   *)
(* long as its job is live.                                                  *)
KeyExclusive ==
    /\ keys = {<<records[j].key, j>> : j \in {i \in Live : records[i].key # NoKey}}
    /\ \A r, s \in keys : r[1] = s[1] => r = s

(* A live job is always somebody's: a queued job waits in the FIFO once or   *)
(* has been popped by a driver, a running job has its driver.  Only a        *)
(* stopped runtime may leave a queued record to nobody.                      *)
NobodyForgotten ==
    /\ \A q, r \in queue : q[1] = r[1] \/ q[2] = r[2] => q = r
    /\ \A q \in queue : /\ q[2] \in Live
                        /\ records[q[2]].status = "Queued"
                        /\ drv[q[2]] = "none"
    /\ \A j \in Live :
          /\ records[j].status = "Running" =>
                drv[j] \in {"running", "won", "committed", "refused"}
          /\ records[j].status = "Queued" /\ Open =>
                (\E q \in queue : q[2] = j) \/ drv[j] = "popped"

(* The claim decides: a job is claimed exactly while its driver publishes,   *)
(* so nothing else ends it meanwhile.                                        *)
ClaimHeld ==
    \A j \in Job : drv[j] \in {"won", "committed", "refused"} <=>
                      j \in Live /\ records[j].committing

(* The publication matrix: a published write-set belongs to a job that is    *)
(* still claimed, or has ended Completed or with its own BSL error; it is    *)
(* rolled back by cancellation, panic, close and break.                      *)
PublicationMatrix ==
    /\ \A j \in published \cap Live : records[j].committing
    /\ \A i \in DOMAIN history :
          /\ history[i].id \in published =>
                history[i].state # "Canceled" /\ history[i].why = "bsl"
          /\ history[i].state = "Completed" => history[i].id \in published

(* A draining reader gets every message once and in order, also when the job *)
(* ends between two reads.                                                   *)
MessagesOnce ==
    \A j \in Job :
        /\ j \in Live => said[j] = taken[j] \o records[j].messages
        /\ j \in DOMAIN historyMessages =>
              said[j] = taken[j] \o historyMessages[j]

(* Terminal is final.  Rows stay in order and unchanged and leave the        *)
(* history oldest first, and only under pressure: keeping one row more would *)
(* break a limit, or rows of this very step had to go as well.  An id that   *)
(* has been terminal is never live again.                                    *)
HistoryIsFinal ==
    [][LET ended == Live \ Live' IN
       /\ \E n \in 0..Len(history) :
            /\ IsPrefix(AfterEviction(history, n), history')
            /\ n > 0 => \/ Len(history') = MaxHistoryJobs
                        \/ historyBytes' + history[n].bytes > MaxHistoryBytes
                        \/ ~(ended \subseteq Kept')
       /\ ended \subseteq Kept' \/ Kept \cap Kept' = {}
       /\ \A j \in issued \ Live : j \notin Live']_vars

-----------------------------------------------------------------------------
(* Refinement: the phase of a job as the abstract lifecycle sees it.         *)

RowOf(j) == CHOOSE i \in DOMAIN history : history[i].id = j

PhaseOf(j) ==
    IF j \in Live
    THEN IF records[j].committing THEN "publishing"
         ELSE IF records[j].status = "Queued" THEN "queued" ELSE "running"
    ELSE IF j \in Kept
         THEN CASE history[RowOf(j)].state = "Completed" -> "completed"
                [] history[RowOf(j)].state = "Failed"    -> "failed"
                [] history[RowOf(j)].state = "Canceled"  -> "canceled"
         ELSE IF j \in issued THEN "forgotten" ELSE "new"

Lifecycle == INSTANCE JobLifecycle
                WITH phase <- [j \in Job |-> PhaseOf(j)], open <- Open

(* The registry implements the abstract lifecycle of a job.                  *)
ImplementsLifecycle == Lifecycle!Spec
=============================================================================
