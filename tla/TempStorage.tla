---------------------------- MODULE TempStorage ----------------------------
(* The temporary storage of sessions (bsl-rt/temp_storage.rs): addresses of  *)
(* a session, writes that a job stages for the session of its caller, their  *)
(* publication when the job ends (jobs/worker.rs, commit_staged), and the    *)
(* credits that staged values are paid with.                                 *)
(*                                                                           *)
(* A session lives on one thread; threads meet in the mailbox of a session   *)
(* (a mutex) and in the global budget (an atomic counter).  A value is the   *)
(* number of the write that made it, 0 is Undefined.                         *)
EXTENDS Integers, Sequences, FiniteSets, FiniteSetsExt, SequencesExt

CONSTANTS
    Foreground,   \* the session that is there from the start
    Job,          \* job sessions
    NoSession,
    Caller,       \* [Job -> session]: who submits the job
    Address, Owner,   \* addresses, and the session named in each
    Sizes,        \* what measuring a staged value may need
    PerJob, Limit,    \* credits of one job and of all of them
    MaxWrites     \* bound on the number of writes

Session == Job \cup {Foreground}

ASSUME StorageAssumption ==
    /\ IsFiniteSet(Job) /\ Caller \in [Job -> Session]
    /\ Owner \in [Address -> Session]
    /\ Sizes \subseteq Nat \ {0}
    /\ {PerJob, Limit, MaxWrites} \subseteq Nat
    /\ NoSession \notin Session

(* BackgroundJobConfig::validate                                             *)
ASSUME StagingFits == PerJob <= Limit

VARIABLES
    phase,      \* [Session -> phase of its life]
    outcome,    \* [Job -> what became of its write-set]
    issued,     \* addresses that their session gave out and did not delete
    ever,       \* addresses that were given out at some time
    local,      \* [Address -> entry written by the owner]
    committed,  \* [Address -> entry published by a job]
    sequence,   \* [Session -> next number of visibility]
    mutex,      \* [Session -> who holds its mailbox]
    staged,     \* [Job -> Seq of staged writes]
    left, taken,    \* [Job -> credits left, credits taken]
    used,       \* credits taken from the global budget
    op,         \* [Session -> the operation it is in]
    made,       \* number of writes so far
    latest,     \* [Address -> value in the order of visibility]
    wrote, visible  \* write-set of a job at its claim; values ever published

storageVars == <<issued, ever, local, committed, sequence, mutex, latest, visible>>
creditVars == <<left, taken, used>>
vars == <<phase, outcome, storageVars, staged, creditVars, op, made, wrote>>

Entry == [seq : Nat, val : 0..MaxWrites]
Absent == [seq |-> 0, val |-> 0]
Staged == [id : Address, val : 1..MaxWrites, bytes : Nat]
Idle == [pc |-> "idle"]
At(s, pc) == op[s].pc = pc
Ready(s) == phase[s] = "open" /\ At(s, "idle")
Goto(s, o) == op' = [op EXCEPT ![s] = o]
Bytes(writes) == SumFunction([i \in DOMAIN writes |-> writes[i].bytes])
Values(writes) == {writes[i].val : i \in DOMAIN writes}
Reserved(j) == IF At(j, "measure") THEN op[j].got ELSE 0

Init ==
    /\ phase = [s \in Session |-> IF s = Foreground THEN "open" ELSE "new"]
    /\ outcome = [j \in Job |-> "none"]
    /\ issued = {} /\ ever = {}
    /\ local = [a \in Address |-> Absent]
    /\ committed = [a \in Address |-> Absent]
    /\ sequence = [s \in Session |-> 0]
    /\ mutex = [s \in Session |-> NoSession]
    /\ staged = [j \in Job |-> <<>>]
    /\ left = [j \in Job |-> PerJob]
    /\ taken = [j \in Job |-> 0]
    /\ used = 0
    /\ op = [s \in Session |-> Idle]
    /\ made = 0
    /\ latest = [a \in Address |-> 0]
    /\ wrote = [j \in Job |-> {}]
    /\ visible = {}

-----------------------------------------------------------------------------
(* Mutants: the same operations with a plausible bug, for testing that the   *)
(* properties notice it.                                                     *)

(* A published value always hides the one of the owner.                      *)
PublishedFirst(a) ==
    IF committed[a].val # 0 THEN committed[a].val ELSE local[a].val

(* A refused put forgets its lease.                                          *)
RefuseKeepsLease(j) ==
    /\ At(j, "measure")
    /\ Goto(j, Idle)
    /\ UNCHANGED <<phase, outcome, storageVars, staged, creditVars, made, wrote>>

(* The mailbox is unlocked after every single write.                         *)
WriteAndUnlock(j) ==
    /\ At(j, "write") /\ op[j].writes # <<>>
    /\ LET w == Head(op[j].writes)
           s == Caller[j]
       IN /\ committed' = [committed EXCEPT ![w.id] =
                             [seq |-> sequence[s], val |-> w.val]]
          /\ sequence' = [sequence EXCEPT ![s] = @ + 1]
          /\ mutex' = [mutex EXCEPT ![s] = NoSession]
          /\ latest' = [latest EXCEPT ![w.id] = w.val]
          /\ visible' = visible \cup {w.val}
          /\ Goto(j, [pc |-> IF Len(op[j].writes) = 1 THEN "write" ELSE "lock",
                      writes |-> Tail(op[j].writes)])
    /\ UNCHANGED <<phase, outcome, issued, ever, local, staged, creditVars, made, wrote>>

-----------------------------------------------------------------------------
(* The addresses of a session, on its own thread.                            *)

(* put at an own address, new or still issued: the number of visibility...   *)
PutOwn(s, a) ==
    /\ Ready(s) /\ Owner[a] = s
    /\ a \in issued \/ a \notin ever
    /\ made < MaxWrites /\ made' = made + 1
    /\ issued' = issued \cup {a}
    /\ ever' = ever \cup {a}
    /\ sequence' = [sequence EXCEPT ![s] = @ + 1]
    /\ latest' = [latest EXCEPT ![a] = made']
    /\ Goto(s, [pc |-> "insert", id |-> a,
                entry |-> [seq |-> sequence[s], val |-> made']])
    /\ UNCHANGED <<phase, outcome, local, committed, mutex, staged, creditVars,
                   wrote, visible>>

(* ...and then the value.                                                    *)
Insert(s) ==
    /\ At(s, "insert")
    /\ local' = [local EXCEPT ![op[s].id] = op[s].entry]
    /\ Goto(s, Idle)
    /\ UNCHANGED <<phase, outcome, issued, ever, committed, sequence, mutex, staged,
                   creditVars, made, latest, wrote, visible>>

Delete(s, a) ==
    /\ Ready(s) /\ Owner[a] = s /\ a \in ever
    /\ mutex[s] = NoSession
    /\ issued' = issued \ {a}
    /\ local' = [local EXCEPT ![a] = Absent]
    /\ committed' = [committed EXCEPT ![a] = Absent]
    /\ latest' = [latest EXCEPT ![a] = 0]
    /\ UNCHANGED <<phase, outcome, ever, sequence, mutex, staged, creditVars, op,
                   made, wrote, visible>>

(* get: of the two entries of an own address the newer one.                  *)
Value(a) ==
    IF local[a].val # 0 /\ (committed[a].val # 0 => local[a].seq >= committed[a].seq)
    THEN local[a].val
    ELSE committed[a].val

(* The owner can read now: it is in no other operation and gets the lock.    *)
Readable(a) == Ready(Owner[a]) /\ mutex[Owner[a]] = NoSession

-----------------------------------------------------------------------------
(* A job stages a write at an address of its caller.                         *)

StartJob(j) ==
    /\ phase[j] = "new" /\ Ready(Caller[j])
    /\ phase' = [phase EXCEPT ![j] = "open"]
    /\ UNCHANGED <<outcome, storageVars, staged, creditVars, op, made, wrote>>

PutCaller(j, a, need) ==
    /\ Ready(j) /\ Owner[a] = Caller[j] /\ a \in ever
    /\ made < MaxWrites /\ made' = made + 1
    /\ Goto(j, [pc |-> "measure", id |-> a, val |-> made', need |-> need, got |-> 0])
    /\ UNCHANGED <<phase, outcome, storageVars, staged, creditVars, wrote>>

(* Measuring pays for each piece before it is allocated, from both budgets.  *)
Grow(j) ==
    /\ At(j, "measure") /\ op[j].got < op[j].need
    /\ op[j].got < left[j]
    /\ used < Limit
    /\ used' = used + 1
    /\ op' = [op EXCEPT ![j].got = @ + 1]
    /\ UNCHANGED <<phase, outcome, storageVars, staged, left, taken, made, wrote>>

(* No credit is left, or the value cannot cross the boundary: the lease is   *)
(* dropped and nothing else changes.                                         *)
Refuse(j) ==
    /\ At(j, "measure")
    /\ used' = used - op[j].got
    /\ Goto(j, Idle)
    /\ UNCHANGED <<phase, outcome, storageVars, staged, left, taken, made, wrote>>

(* The snapshot is built; what it does not need goes back.                   *)
Snap(j) ==
    /\ At(j, "measure") /\ op[j].got = op[j].need
    /\ \E bytes \in 1..op[j].need :
          /\ left' = [left EXCEPT ![j] = @ - bytes]
          /\ taken' = [taken EXCEPT ![j] = @ + bytes]
          /\ used' = used - (op[j].got - bytes)
          /\ Goto(j, [pc |-> "replace",
                      write |-> [id |-> op[j].id, val |-> op[j].val, bytes |-> bytes]])
    /\ UNCHANGED <<phase, outcome, storageVars, staged, made, wrote>>

(* An earlier staged write at the address gives its credits back.            *)
Replace(j) ==
    /\ At(j, "replace")
    /\ LET w    == op[j].write
           same == {i \in DOMAIN staged[j] : staged[j][i].id = w.id}
       IN \/ /\ same = {}
             /\ staged' = [staged EXCEPT ![j] = Append(@, w)]
             /\ UNCHANGED creditVars
          \/ \E i \in same :
                /\ \A k \in same : i <= k
                /\ staged' = [staged EXCEPT ![j] = Append(RemoveAt(@, i), w)]
                /\ used' = used - staged[j][i].bytes
                /\ taken' = [taken EXCEPT ![j] = @ - staged[j][i].bytes]
                /\ left' = [left EXCEPT ![j] = @ + staged[j][i].bytes]
    /\ Goto(j, Idle)
    /\ UNCHANGED <<phase, outcome, storageVars, made, wrote>>

-----------------------------------------------------------------------------
(* The end of a job.                                                         *)

(* The driver has the claim: take_staged gives the credits back.             *)
TakeStaged(j) ==
    /\ Ready(j)
    /\ used' = used - taken[j]
    /\ taken' = [taken EXCEPT ![j] = 0]
    /\ staged' = [staged EXCEPT ![j] = <<>>]
    /\ wrote' = [wrote EXCEPT ![j] = Values(staged[j])]
    /\ phase' = [phase EXCEPT ![j] = "ending"]
    /\ IF staged[j] = <<>>
       THEN outcome' = [outcome EXCEPT ![j] = "published"] /\ UNCHANGED op
       ELSE Goto(j, [pc |-> "upgrade", writes |-> staged[j]]) /\ UNCHANGED outcome
    /\ UNCHANGED <<storageVars, left, made>>

(* commit: without the session of the caller nothing is published.           *)
Upgrade(j) ==
    /\ At(j, "upgrade")
    /\ IF phase[Caller[j]] = "closed"
       THEN /\ outcome' = [outcome EXCEPT ![j] = "refused"]
            /\ Goto(j, Idle)
       ELSE /\ Goto(j, [op[j] EXCEPT !.pc = "lock"])
            /\ UNCHANGED outcome
    /\ UNCHANGED <<phase, storageVars, staged, creditVars, made, wrote>>

Lock(j) ==
    /\ At(j, "lock") /\ mutex[Caller[j]] = NoSession
    /\ mutex' = [mutex EXCEPT ![Caller[j]] = j]
    /\ Goto(j, [op[j] EXCEPT !.pc = "write"])
    /\ UNCHANGED <<phase, outcome, issued, ever, local, committed, sequence, staged,
                   creditVars, made, latest, wrote, visible>>

WriteNext(j) ==
    /\ At(j, "write") /\ op[j].writes # <<>>
    /\ LET w == Head(op[j].writes)
           s == Caller[j]
       IN /\ committed' = [committed EXCEPT ![w.id] =
                             [seq |-> sequence[s], val |-> w.val]]
          /\ sequence' = [sequence EXCEPT ![s] = @ + 1]
          /\ latest' = [latest EXCEPT ![w.id] = w.val]
          /\ visible' = visible \cup {w.val}
          /\ Goto(j, [op[j] EXCEPT !.writes = Tail(@)])
    /\ UNCHANGED <<phase, outcome, issued, ever, local, mutex, staged, creditVars,
                   made, wrote>>

Unlock(j) ==
    /\ At(j, "write") /\ op[j].writes = <<>>
    /\ mutex' = [mutex EXCEPT ![Caller[j]] = NoSession]
    /\ outcome' = [outcome EXCEPT ![j] = "published"]
    /\ Goto(j, Idle)
    /\ UNCHANGED <<phase, issued, ever, local, committed, sequence, staged,
                   creditVars, made, latest, wrote, visible>>

(* The registry announces the end; the session is dropped after that.        *)
Finish(j) ==
    /\ phase[j] = "ending" /\ At(j, "idle")
    /\ phase' = [phase EXCEPT ![j] = "over"]
    /\ UNCHANGED <<outcome, storageVars, staged, creditVars, op, made, wrote>>

(* Cancellation between two quanta, or a panic anywhere: unwinding drops the *)
(* lease of a put.                                                           *)
Abort(j) ==
    /\ phase[j] = "open"
    /\ used' = used - Reserved(j)
    /\ phase' = [phase EXCEPT ![j] = "over"]
    /\ outcome' = [outcome EXCEPT ![j] = "aborted"]
    /\ Goto(j, Idle)
    /\ UNCHANGED <<storageVars, staged, left, taken, made, wrote>>

DropSession(j) ==
    /\ phase[j] = "over"
    /\ phase' = [phase EXCEPT ![j] = "closed"]
    /\ staged' = [staged EXCEPT ![j] = <<>>]
    /\ used' = used - taken[j]
    /\ taken' = [taken EXCEPT ![j] = 0]
    /\ UNCHANGED <<outcome, storageVars, left, op, made, wrote>>

CloseForeground ==
    /\ Ready(Foreground)
    /\ phase' = [phase EXCEPT ![Foreground] = "closed"]
    /\ UNCHANGED <<outcome, storageVars, staged, creditVars, op, made, wrote>>

-----------------------------------------------------------------------------
OwnStep(s) == Insert(s) \/ \E a \in Address : PutOwn(s, a) \/ Delete(s, a)
StageStep(j) ==
    \/ StartJob(j) \/ Grow(j) \/ Refuse(j) \/ Snap(j) \/ Replace(j)
    \/ \E a \in Address, n \in Sizes : PutCaller(j, a, n)
EndStep(j) ==
    \/ TakeStaged(j) \/ Upgrade(j) \/ Lock(j) \/ WriteNext(j) \/ Unlock(j)
    \/ Finish(j) \/ Abort(j) \/ DropSession(j)

Next ==
    \/ \E s \in Session : OwnStep(s)
    \/ \E j \in Job : StageStep(j) \/ EndStep(j)
    \/ CloseForeground

Spec == Init /\ [][Next]_vars

-----------------------------------------------------------------------------
(* Properties.                                                               *)

(* Every variable has its type; a counter of credits below zero would be a   *)
(* usize that wrapped around.                                                *)
TypeOK ==
    /\ phase \in [Session -> {"new", "open", "ending", "over", "closed"}]
    /\ outcome \in [Job -> {"none", "published", "refused", "aborted"}]
    /\ issued \subseteq ever /\ ever \subseteq Address
    /\ local \in [Address -> Entry] /\ committed \in [Address -> Entry]
    /\ sequence \in [Session -> Nat]
    /\ mutex \in [Session -> Job \cup {NoSession}]
    /\ staged \in [Job -> Seq(Staged)]
    /\ left \in [Job -> Nat] /\ taken \in [Job -> Nat] /\ used \in Nat
    /\ DOMAIN op = Session
    /\ made \in 0..MaxWrites
    /\ latest \in [Address -> 0..MaxWrites]
    /\ wrote \in [Job -> SUBSET (1..MaxWrites)] /\ visible \subseteq 1..MaxWrites

(* Credits are neither lost nor invented, whichever way a put or a job ends: *)
(* the global counter is the sum of what the jobs hold, a job holds what its *)
(* staged writes weigh, and neither budget is exceeded even while two jobs   *)
(* measure at the same time or a write replaces another.                     *)
BudgetExact ==
    /\ TypeOK
    /\ used = SumFunction([j \in Job |-> taken[j] + Reserved(j)])
    /\ used <= Limit
    /\ \A j \in Job :
          /\ phase[j] \in {"new", "open"} => left[j] + taken[j] = PerJob
          /\ Reserved(j) <= left[j]
          /\ taken[j] = Bytes(staged[j])
                          + (IF At(j, "replace") THEN op[j].write.bytes ELSE 0)
             \/ phase[j] = "over"

(* A read gives the newest write in the order of visibility, whether the     *)
(* owner wrote it or a job published it between two steps of the owner.      *)
NewestWins == \A a \in Address : Readable(a) => Value(a) = latest[a]

(* A write-set becomes visible as a whole or not at all: not of a canceled   *)
(* or crashed job, not when the caller is gone, never in part.               *)
AllOrNothing ==
    \A j \in Job :
        (\A a \in Address : Owner[a] = Caller[j] => Readable(a)) =>
            IF outcome[j] = "published" THEN wrote[j] \subseteq visible
                                        ELSE wrote[j] \cap visible = {}

(* "A deleted address reads as Undefined" (temp_storage.rs:6-7).             *)
DeletedIsUndefined ==
    \A a \in Address : Readable(a) /\ a \in ever \ issued => Value(a) = 0
=============================================================================
