----------------------------- MODULE MCJobPool -----------------------------
(* Small programs for JobPool.  a is a parent that waits for its child b; c  *)
(* is an unrelated job that the FIFO offers to whoever helps.                *)
EXTENDS JobPool, TLC

CONSTANTS a, b, c, w1, w2, cl

Quanta == [op |-> "quantum"]
HostOp == [op |-> "host"]
SpawnOp(k) == [op |-> "spawn", job |-> k]
WaitOp(k) == [op |-> "wait", jobs |-> {k}, all |-> TRUE, timed |-> FALSE]
TimedWait(k) == [op |-> "wait", jobs |-> {k}, all |-> TRUE, timed |-> TRUE]
WaitFirst(S) == [op |-> "wait", jobs |-> S, all |-> FALSE, timed |-> FALSE]

WorkerSymmetry == Permutations({w1, w2})

WatchNone == [x \in {} |-> {}]
WatchParent == [x \in {cl} |-> {a}]

(* The parent waits for the first of its child, which parks on its transport,*)
(* and c, which waits for the child too and has a deadline.                  *)
Family ==
    (a :> <<SpawnOp(b), WaitFirst({b, c})>>) @@ (b :> <<HostOp>>)
    @@ (c :> <<Quanta, TimedWait(b)>>)

(* A parent and its parked child.                                            *)
ParentAndChild == (a :> <<SpawnOp(b), WaitOp(b)>>) @@ (b :> <<HostOp>>)

(* c knows a from the list of all jobs and waits for it.                     *)
CrossWait ==
    (a :> <<SpawnOp(b), WaitOp(b)>>) @@ (b :> <<HostOp>>) @@ (c :> <<WaitOp(a)>>)
=============================================================================
