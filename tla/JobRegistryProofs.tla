------------------------- MODULE JobRegistryProofs -------------------------
(* Proofs about JobRegistry for every set of jobs and keys and every         *)
(* configuration, in five parts:                                             *)
(*   1 the inductive invariant: key exclusion, ownership of live jobs, the   *)
(*     claim and the publication matrix;                                     *)
(*   2 the registry implements the lifecycle of a job;                       *)
(*   3 a reader who drains the messages of a job gets every one once;        *)
(*   4 the counters are exact and inside their limits;                       *)
(*   5 what is terminal is final.                                            *)
(* Every part stands on the invariants of the earlier ones.                  *)
EXTENDS JobRegistry, CollectionTheorems

-----------------------------------------------------------------------------
(* Part 1: the inductive invariant.                                          *)

(* Types of everything the argument reads; the byte counters are left out.   *)
Shape ==
    /\ state \in RuntimeState
    /\ issued \subseteq Job
    /\ Live \subseteq issued
    /\ records \in [Live -> Record]
    /\ keys \subseteq Key \X Job
    /\ queue \subseteq Nat \X Job
    /\ drv \in [Job -> Driver]
    /\ published \subseteq issued
    /\ \E S : history \in Seq(S)

(* Ids and tickets are fresh: a job that is in the history is not live, and  *)
(* every ticket is smaller than the next one.                                *)
Fresh ==
    /\ IsFiniteSet(issued)
    /\ \A i \in DOMAIN history : history[i].id \in issued \ Live
    /\ \A q \in queue : q[1] < Cardinality(issued)

(* The position of a driver agrees with the record it drives.                *)
Positions ==
    /\ \A j \in Live : drv[j] = "popped" => records[j].status = "Queued"
    /\ \A j \in Live : drv[j] \in {"running", "won", "committed", "refused"}
                          => records[j].status = "Running"
    /\ \A j \in Job : drv[j] # "none" => j \in issued
    /\ \A j \in Job : drv[j] = "committed" => j \in published

IInv ==
    /\ Shape
    /\ Fresh
    /\ Positions
    /\ KeyExclusive
    /\ NobodyForgotten
    /\ ClaimHeld
    /\ PublicationMatrix

(* The empty registry satisfies the invariant.                               *)
LEMMA InitIInv == Init => IInv
<1> SUFFICES ASSUME Init PROVE IInv
  OBVIOUS
<1>1. Live = {} /\ Open
  BY DEF Init, Live, Open
<1>2. Shape
  <2>1. history \in Seq({})
    BY EmptySeq DEF Init
  <2> QED
    BY <1>1, <2>1 DEF Init, Shape, RuntimeState, Driver, Live
<1>3. Fresh
  BY FS_EmptySet DEF Init, Fresh
<1>4. Positions
  BY <1>1 DEF Init, Positions
<1>5. KeyExclusive /\ NobodyForgotten
  BY <1>1 DEF Init, KeyExclusive, NobodyForgotten
<1>6. ClaimHeld /\ PublicationMatrix
  BY <1>1 DEF Init, ClaimHeld, PublicationMatrix
<1> QED
  BY <1>2, <1>3, <1>4, <1>5, <1>6 DEF IInv

-----------------------------------------------------------------------------
(* What Finish means for the invariant: the jobs of D give back their key    *)
(* and their place in the queue, and every row of the new history is an old  *)
(* one or the row of a job of D.                                             *)
Ended(D, st, why) ==
    /\ keys' = {r \in keys : r[2] \notin D}
    /\ queue' = {q \in queue : q[2] \notin D}
    /\ \E S : history' \in Seq(S)
    /\ \A i \in DOMAIN history' :
          \/ \E k \in DOMAIN history : history'[i] = history[k]
          \/ /\ history'[i].id \in D
             /\ history'[i].state = st
             /\ history'[i].why = why

(* Every element of a suffix of s \o t is an element of s or of t.           *)
LEMMA SuffixOfConcat ==
    ASSUME NEW S, NEW s \in Seq(S), NEW t \in Seq(S),
           NEW n \in 0..Len(s \o t)
    PROVE  LET u == SubSeq(s \o t, n + 1, Len(s \o t)) IN
           /\ u \in Seq(S)
           /\ \A i \in DOMAIN u : \/ \E k \in DOMAIN s : u[i] = s[k]
                                  \/ \E k \in DOMAIN t : u[i] = t[k]
<1> DEFINE c == s \o t
           u == SubSeq(c, n + 1, Len(c))
<1>1. /\ c \in Seq(S)
      /\ Len(c) = Len(s) + Len(t)
      /\ \A i \in 1..(Len(s) + Len(t)) :
            c[i] = IF i <= Len(s) THEN s[i] ELSE t[i - Len(s)]
  BY ConcatProperties
<1>2. /\ Len(s) \in Nat /\ DOMAIN s = 1..Len(s)
      /\ Len(t) \in Nat /\ DOMAIN t = 1..Len(t)
  BY LenProperties
<1>3. Len(c) \in Nat /\ n \in Nat /\ n <= Len(c)
  BY <1>1, <1>2
<1> HIDE DEF c
<1>4. \A i \in (n + 1)..Len(c) : c[i] \in S
  BY <1>1, <1>3, ElementOfSeq
<1>5. /\ u \in Seq(S)
      /\ Len(u) = IF n + 1 <= Len(c) THEN Len(c) - n ELSE 0
      /\ \A i \in 1..(Len(c) - n) : u[i] = c[n + i]
  BY <1>3, <1>4, SubSeqProperties
<1>6. DOMAIN u = 1..Len(u)
  BY <1>5, LenProperties
<1> HIDE DEF u
<1>7. ASSUME NEW i \in DOMAIN u
      PROVE  \/ \E k \in DOMAIN s : u[i] = s[k]
             \/ \E k \in DOMAIN t : u[i] = t[k]
  <2>1. n + i \in 1..(Len(s) + Len(t)) /\ u[i] = c[n + i]
    BY <1>1, <1>2, <1>3, <1>5, <1>6
  <2>2. CASE n + i <= Len(s)
    BY <1>1, <1>2, <2>1, <2>2
  <2>3. CASE n + i > Len(s)
    <3>1. n + i - Len(s) \in DOMAIN t
      BY <1>2, <1>3, <1>5, <1>6, <2>1, <2>3
    <3>2. u[i] = t[n + i - Len(s)]
      BY <1>1, <1>2, <1>3, <1>5, <1>6, <2>1, <2>3
    <3> QED
      BY <3>1, <3>2
  <2> QED
    BY <1>2, <1>3, <1>5, <1>6, <2>1, <2>2, <2>3
<1> QED
  BY <1>5, <1>7 DEF u, c

(* Finishing the jobs of a sequence ends exactly these, whatever is evicted. *)
LEMMA FinishEnds ==
    ASSUME Shape, NEW order \in Seq(Job), NEW st, NEW why, NEW error,
           Finish(order, st, why, error)
    PROVE  Ended(ToSet(order), st, why)
<1> DEFINE row(i) == [id |-> order[i], state |-> st, why |-> why,
                      bytes |-> records[order[i]].base + Bounded(error)
                                  + Total(records[order[i]].messages)]
           rows  == [i \in 1..Len(order) |-> row(i)]
           grown == history \o rows
<1>1. PICK S : history \in Seq(S)
  BY DEF Shape
<1> DEFINE T == S \cup {row(i) : i \in 1..Len(order)}
<1>2. history \in Seq(T)
  BY <1>1, SeqMonotonic
<1>3. Len(order) \in Nat /\ DOMAIN order = 1..Len(order)
  BY LenProperties
<1>4. rows \in Seq(T)
  <2>1. rows \in [1..Len(order) -> T]
    OBVIOUS
  <2> QED
    BY <1>3, <2>1, SeqDef
<1>5. PICK gone \in 0..Len(grown) : history' = SubSeq(grown, gone + 1, Len(grown))
  BY DEF Finish, AfterEviction
<1>6. /\ history' \in Seq(T)
      /\ \A i \in DOMAIN history' :
            \/ \E k \in DOMAIN history : history'[i] = history[k]
            \/ \E k \in DOMAIN rows : history'[i] = rows[k]
  <2> HIDE DEF T, rows
  <2> QED
    BY <1>2, <1>4, <1>5, SuffixOfConcat, SMTT(30)
<1>7. \A k \in DOMAIN rows : /\ rows[k].id \in ToSet(order)
                             /\ rows[k].state = st
                             /\ rows[k].why = why
  BY <1>3 DEF ToSet
<1>8. \A i \in DOMAIN history' :
          \/ \E k \in DOMAIN history : history'[i] = history[k]
          \/ /\ history'[i].id \in ToSet(order)
             /\ history'[i].state = st
             /\ history'[i].why = why
  <2> HIDE DEF rows
  <2> QED
    BY <1>6, <1>7
<1> QED
  BY <1>6, <1>8 DEF Finish, Ended

(* A step that ends nothing is the case D = {}.                              *)
LEMMA NothingEnds ==
    ASSUME Shape, UNCHANGED <<keys, queue, history>>, NEW st, NEW why
    PROVE  Ended({}, st, why)
<1>1. /\ keys' = {r \in keys : r[2] \notin {}}
      /\ queue' = {q \in queue : q[2] \notin {}}
  OBVIOUS
<1>2. \E S : history' \in Seq(S)
  BY DEF Shape
<1>3. \A i \in DOMAIN history' : \E k \in DOMAIN history : history'[i] = history[k]
  OBVIOUS
<1> QED
  BY <1>1, <1>2, <1>3 DEF Ended

(* finish() of a job that is no longer live ends nothing, otherwise it ends  *)
(* j.                                                                        *)
LEMMA FinishOneEnds ==
    ASSUME Shape, NEW j \in Job, NEW st, NEW why, NEW error,
           FinishOne(j, st, why, error)
    PROVE  /\ Ended({j} \cap Live, st, why)
           /\ records' = Remaining({j})
<1>1. CASE j \in Live
  <2>1. Finish(<<j>>, st, why, error) /\ records' = Remaining({j})
    BY <1>1 DEF FinishOne
  <2>2. <<j>> \in Seq(Job) /\ ToSet(<<j>>) = {j} \cap Live
    BY <1>1 DEF ToSet
  <2>3. Ended(ToSet(<<j>>), st, why)
    BY <2>1, <2>2, FinishEnds
  <2> QED
    BY <2>1, <2>2, <2>3
<1>2. CASE j \notin Live
  <2>1. {j} \cap Live = {} /\ UNCHANGED <<records, keys, queue, history>>
    BY <1>2 DEF FinishOne
  <2>2. records = Remaining({j})
    BY <1>2 DEF Shape, Remaining
  <2> QED
    BY <2>1, <2>2, NothingEnds
<1> QED
  BY <1>1, <1>2

(* A step that at most ends the jobs of D, with drivers letting go of jobs,  *)
(* keeps the invariant.  Its assumptions are what each action has to show:   *)
(* what is left of the records is still the same job, no ended job keeps a   *)
(* claim, and the matrix allows the way the jobs of D ended.                 *)
Ending(D, st, why) ==
    /\ D \subseteq Live
    /\ Ended(D, st, why)
    /\ Live' = Live \ D
    /\ records' \in [Live' -> Record]
    /\ \A j \in Live' : /\ records'[j].status = records[j].status
                        /\ records'[j].key = records[j].key
                        /\ records'[j].committing = records[j].committing
    /\ state' \in RuntimeState /\ (Open' => Open)
    /\ UNCHANGED <<issued, published>>
    /\ drv' \in [Job -> Driver]
    /\ \A j \in Job : drv'[j] \in {drv[j], "none"}
    /\ \A j \in Live' : drv'[j] = drv[j]
    /\ \A j \in D : drv'[j] \notin {"won", "committed", "refused"}
    /\ D \cap published # {} => st # "Canceled" /\ why = "bsl"
    /\ st = "Completed" => D \subseteq published

(* The common part of all the actions that end a set D of jobs: the          *)
(* invariant survives.                                                       *)
LEMMA EndingKeepsIInv ==
    ASSUME IInv, NEW D, NEW st, NEW why, Ending(D, st, why)
    PROVE  IInv'
<1> USE DEF IInv, Ending
<1>1. Live \subseteq Job /\ Live' \subseteq Live
  BY DEF Shape
<1>2. Shape'
  <2>1. /\ keys' \subseteq Key \X Job /\ queue' \subseteq Nat \X Job
        /\ \E S : history' \in Seq(S)
    BY DEF Shape, Ended
  <2> QED
    BY <2>1, <1>1 DEF Shape, Live
<1>3. Fresh'
  <2>1. \A i \in DOMAIN history' : history'[i].id \in issued \ Live'
    BY <1>1 DEF Fresh, Ended, Shape
  <2>2. \A q \in queue' : q[1] < Cardinality(issued)
    BY DEF Fresh, Ended
  <2> QED
    BY <2>1, <2>2 DEF Fresh
<1>4. Positions'
  BY <1>1, SMTT(30) DEF Positions, Shape
<1>5. KeyExclusive'
  <2>1. keys' = {<<records'[j].key, j>> : j \in {i \in Live' : records'[i].key # NoKey}}
    BY DEF KeyExclusive, Ended
  <2>2. \A r, s \in keys' : r[1] = s[1] => r = s
    BY DEF KeyExclusive, Ended
  <2> QED
    BY <2>1, <2>2 DEF KeyExclusive
<1>6. NobodyForgotten'
  <2>1. \A q, r \in queue' : q[1] = r[1] \/ q[2] = r[2] => q = r
    BY DEF NobodyForgotten, Ended
  <2>2. \A q \in queue' : /\ q[2] \in Live'
                          /\ records'[q[2]].status = "Queued"
                          /\ drv'[q[2]] = "none"
    BY DEF NobodyForgotten, Ended
  <2>3. \A j \in Live' :
          /\ records'[j].status = "Running" =>
                drv'[j] \in {"running", "won", "committed", "refused"}
          /\ records'[j].status = "Queued" /\ Open' =>
                (\E q \in queue' : q[2] = j) \/ drv'[j] = "popped"
    BY <1>1 DEF NobodyForgotten, Ended
  <2> QED
    BY <2>1, <2>2, <2>3 DEF NobodyForgotten
<1>7. ClaimHeld'
  BY <1>1 DEF ClaimHeld
<1>8. PublicationMatrix'
  <2>1. \A j \in published' \cap Live' : records'[j].committing
    BY <1>1 DEF PublicationMatrix
  <2>2. \A i \in DOMAIN history' :
          /\ history'[i].id \in published' =>
                history'[i].state # "Canceled" /\ history'[i].why = "bsl"
          /\ history'[i].state = "Completed" => history'[i].id \in published'
    <3> TAKE i \in DOMAIN history'
    <3>1. CASE \E k \in DOMAIN history : history'[i] = history[k]
      BY <3>1 DEF PublicationMatrix
    <3>2. CASE /\ history'[i].id \in D
               /\ history'[i].state = st
               /\ history'[i].why = why
      BY <3>2
    <3> QED
      BY <3>1, <3>2 DEF Ended
  <2> QED
    BY <2>1, <2>2 DEF PublicationMatrix
<1> QED
  BY <1>2, <1>3, <1>4, <1>5, <1>6, <1>7, <1>8

-----------------------------------------------------------------------------
(* One lemma per action; first those that end jobs.                          *)

(* Letting go of the records of D leaves records as Ending wants them.       *)
LEMMA RemainingIs ==
    ASSUME Shape, NEW D, records' = Remaining(D)
    PROVE  /\ Live' = Live \ D
           /\ records' \in [Live' -> Record]
           /\ \A j \in Live' : records'[j] = records[j]
BY DEF Shape, Remaining, Live

(* Flags change only the cancel bit.                                         *)
LEMMA WithFlagIs ==
    ASSUME Shape, NEW S, NEW D, records' = WithFlag(S, Remaining(D))
    PROVE  /\ Live' = Live \ D
           /\ records' \in [Live' -> Record]
           /\ \A j \in Live' : /\ records'[j].status = records[j].status
                               /\ records'[j].key = records[j].key
                               /\ records'[j].committing = records[j].committing
<1> DEFINE f == Remaining(D)
<1>1. /\ DOMAIN f = Live \ D
      /\ \A j \in DOMAIN f : f[j] = records[j] /\ records[j] \in Record
  BY DEF Remaining, Shape
<1>2. records' = [j \in DOMAIN f |->
                    IF j \in S THEN [f[j] EXCEPT !.cancel = TRUE] ELSE f[j]]
  BY DEF WithFlag
<1> HIDE DEF f
<1>3. Live' = Live \ D
  BY <1>1, <1>2 DEF Live
<1>4. \A j \in Live \ D : [records[j] EXCEPT !.cancel = TRUE] \in Record
  BY <1>1 DEF Record
<1>5. \A j \in Live \ D : records'[j] \in Record
  BY <1>1, <1>2, <1>4
<1>6. \A j \in Live \ D : /\ records'[j].status = records[j].status
                          /\ records'[j].key = records[j].key
                          /\ records'[j].committing = records[j].committing
  BY <1>1, <1>2 DEF Record
<1> QED
  BY <1>1, <1>2, <1>3, <1>5, <1>6

(* The ids of an order of a subset of the live jobs.                         *)
LEMMA OrderIs ==
    ASSUME Shape, Fresh, NEW U, U \subseteq Live, NEW order \in SetToSeqs(U)
    PROVE  order \in Seq(Job) /\ ToSet(order) = U
<1>1. IsFiniteSet(U) /\ U \subseteq Job
  BY FS_Subset DEF Shape, Fresh
<1>2. Cardinality(U) \in Nat
  BY <1>1, FS_CardinalityType
<1> DEFINE n == Cardinality(U)
           V == {order[i] : i \in 1..n}
<1>3. /\ order \in [1..n -> U]
      /\ \A i, k \in 1..n : i # k => order[i] # order[k]
  BY DEF SetToSeqs
<1>4. order \in Seq(Job)
  BY <1>1, <1>2, <1>3, SeqDef
<1>5. V \subseteq U
  BY <1>3
<1>6. Cardinality(V) = n
  <2>1. order \in Bijection(1..n, V)
    BY <1>3 DEF Bijection, Injection, Surjection, IsInjective
  <2> QED
    BY <1>2, <2>1, FS_CountingElements DEF ExistsBijection
<1>7. V = U
  BY <1>1, <1>5, <1>6, FS_Subset
<1>8. ToSet(order) = U
  BY <1>3, <1>7 DEF ToSet
<1> QED
  BY <1>4, <1>8

(* A step that changes nothing the invariant reads about a job.              *)
LEMMA QuietKeepsIInv ==
    ASSUME IInv, UNCHANGED <<keys, queue, history, issued, published, drv>>,
           Live' = Live, records' \in [Live' -> Record],
           \A j \in Live : /\ records'[j].status = records[j].status
                           /\ records'[j].key = records[j].key
                           /\ records'[j].committing = records[j].committing,
           state' \in RuntimeState, Open' => Open
    PROVE  IInv'
<1>1. Ended({}, "Canceled", "infra")
  BY NothingEnds DEF IInv
<1>2. drv' \in [Job -> Driver]
  BY DEF IInv, Shape
<1>3. Ending({}, "Canceled", "infra")
  BY <1>1, <1>2 DEF Ending
<1> QED
  BY <1>3, EndingKeepsIInv

(* JobRuntimeShared::cancel keeps the invariant: a queued job ends, a        *)
(* running one is flagged.                                                   *)
LEMMA CancelKeeps ==
    ASSUME IInv, NEW j \in Job, Cancel(j)
    PROVE  IInv'
<1>1. state' \in RuntimeState /\ (Open' => Open)
  BY DEF Cancel, IInv, Shape, Open
<1>2. CASE records[j].status = "Queued" /\ FinishOne(j, "Canceled", "bsl", 0)
  <2>1. /\ Ended({j} \cap Live, "Canceled", "bsl")
        /\ records' = Remaining({j})
    BY <1>2, FinishOneEnds DEF IInv
  <2>2. {j} \cap Live = {j} /\ j \in Live
    BY DEF Cancel
  <2>3. /\ Live' = Live \ {j}
        /\ records' \in [Live' -> Record]
        /\ \A i \in Live' : records'[i] = records[i]
    BY <2>1, RemainingIs DEF IInv
  <2>4. drv[j] \notin {"running", "won", "committed", "refused"}
    BY <1>2, <2>2 DEF IInv, Positions
  <2>5. {j} \cap published = {}
    BY <2>2, <2>4 DEF IInv, PublicationMatrix, ClaimHeld
  <2>6. UNCHANGED <<issued, published, drv>> /\ drv' \in [Job -> Driver]
    BY DEF Cancel, IInv, Shape
  <2>7. Ending({j}, "Canceled", "bsl")
    BY <1>1, <2>1, <2>2, <2>3, <2>4, <2>5, <2>6 DEF Ending
  <2> QED
    BY <2>7, EndingKeepsIInv
<1>3. CASE /\ records' = WithFlag({j}, records)
           /\ UNCHANGED <<queue, keys, history>>
  <2>1. records = Remaining({})
    BY DEF IInv, Shape, Remaining, Live
  <2>2. /\ Live' = Live \ {}
        /\ records' \in [Live' -> Record]
        /\ \A i \in Live' : /\ records'[i].status = records[i].status
                            /\ records'[i].key = records[i].key
                            /\ records'[i].committing = records[i].committing
    BY <1>3, <2>1, WithFlagIs DEF IInv
  <2> QED
    BY <1>1, <1>3, <2>2, QuietKeepsIInv DEF Cancel
<1> QED
  BY <1>2, <1>3 DEF Cancel

(* The registry section of shutdown keeps the invariant.                     *)
LEMMA ShutdownKeeps == IInv /\ Shutdown => IInv'
<1> SUFFICES ASSUME IInv, Shutdown PROVE IInv'
  OBVIOUS
<1> DEFINE queued == {j \in Live : records[j].status = "Queued"}
<1>1. PICK order \in SetToSeqs(queued) :
         /\ Finish(order, "Canceled", "bsl", 0)
         /\ records' = WithFlag(Live, Remaining(queued))
  BY DEF Shutdown
<1>2. order \in Seq(Job) /\ ToSet(order) = queued
  BY OrderIs DEF IInv
<1>3. Ended(queued, "Canceled", "bsl")
  BY <1>1, <1>2, FinishEnds DEF IInv
<1>4. /\ Live' = Live \ queued
      /\ records' \in [Live' -> Record]
      /\ \A j \in Live' : /\ records'[j].status = records[j].status
                          /\ records'[j].key = records[j].key
                          /\ records'[j].committing = records[j].committing
  BY <1>1, WithFlagIs DEF IInv
<1>5. \A j \in queued : /\ drv[j] \notin {"won", "committed", "refused"}
                        /\ j \notin published
  BY DEF IInv, Positions, PublicationMatrix, ClaimHeld, Shape
<1>6. /\ UNCHANGED <<issued, published, drv>> /\ drv' \in [Job -> Driver]
      /\ state' \in RuntimeState /\ ~Open'
  BY DEF Shutdown, IInv, Shape, Open, RuntimeState
<1>7. Ending(queued, "Canceled", "bsl")
  <2> HIDE DEF queued
  <2>1. queued \subseteq Live
    BY DEF queued
  <2> QED
    BY <1>3, <1>4, <1>5, <1>6, <2>1 DEF Ending
<1> QED
  BY <1>7, EndingKeepsIInv

(* Dropping the runtime keeps the invariant.                                 *)
LEMMA DropRuntimeKeeps == IInv /\ DropRuntime => IInv'
<1> SUFFICES ASSUME IInv, DropRuntime PROVE IInv'
  OBVIOUS
<1>1. records = Remaining({})
  BY DEF IInv, Shape, Remaining, Live
<1>2. /\ Live' = Live \ {}
      /\ records' \in [Live' -> Record]
      /\ \A j \in Live' : /\ records'[j].status = records[j].status
                          /\ records'[j].key = records[j].key
                          /\ records'[j].committing = records[j].committing
  BY <1>1, WithFlagIs DEF IInv, DropRuntime
<1>3. state' \in RuntimeState /\ ~Open'
  BY DEF DropRuntime, Open, RuntimeState
<1> QED
  BY <1>2, <1>3, QuietKeepsIInv DEF DropRuntime

(* fail_all_resident keeps the invariant: it spares the claimed jobs.        *)
LEMMA BreakKeeps == IInv /\ Break => IInv'
<1> SUFFICES ASSUME IInv, Break PROVE IInv'
  OBVIOUS
<1> DEFINE unclaimed == {j \in Live : ~records[j].committing}
<1>1. PICK order \in SetToSeqs(unclaimed), error \in ErrorBytes :
         /\ Finish(order, "Failed", "infra", error)
         /\ records' = Remaining(unclaimed)
  BY DEF Break
<1>2. order \in Seq(Job) /\ ToSet(order) = unclaimed
  BY OrderIs DEF IInv
<1>3. Ended(unclaimed, "Failed", "infra")
  BY <1>1, <1>2, FinishEnds DEF IInv
<1>4. /\ Live' = Live \ unclaimed
      /\ records' \in [Live' -> Record]
      /\ \A j \in Live' : records'[j] = records[j]
  BY <1>1, RemainingIs DEF IInv
<1>5. \A j \in unclaimed : /\ drv[j] \notin {"won", "committed", "refused"}
                           /\ j \notin published
  BY DEF IInv, PublicationMatrix, ClaimHeld, Shape
<1>6. /\ UNCHANGED <<issued, published, drv>> /\ drv' \in [Job -> Driver]
      /\ state' \in RuntimeState /\ ~Open'
  BY DEF Break, IInv, Shape, Open, RuntimeState
<1>7. Ending(unclaimed, "Failed", "infra")
  <2> HIDE DEF unclaimed
  <2>1. unclaimed \subseteq Live
    BY DEF unclaimed
  <2> QED
    BY <1>3, <1>4, <1>5, <1>6, <2>1 DEF Ending
<1> QED
  BY <1>7, EndingKeepsIInv

(* A driver that lets go of j, ending it or finding it gone.                 *)
LEMMA LetGoKeeps ==
    ASSUME IInv, NEW j \in Job, NEW st, NEW why, NEW error,
           FinishOne(j, st, why, error),
           drv' = [drv EXCEPT ![j] = "none"],
           UNCHANGED <<state, issued, published>>,
           j \in published => st # "Canceled" /\ why = "bsl",
           st = "Completed" => j \in published
    PROVE  IInv'
<1> DEFINE D == {j} \cap Live
<1>1. /\ Ended(D, st, why)
      /\ records' = Remaining({j})
  BY FinishOneEnds DEF IInv
<1>2. /\ Live' = Live \ D
      /\ records' \in [Live' -> Record]
      /\ \A i \in Live' : i # j /\ records'[i] = records[i]
  BY <1>1, RemainingIs DEF IInv
<1>3. /\ drv' \in [Job -> Driver]
      /\ \A i \in Job : drv'[i] \in {drv[i], "none"}
      /\ \A i \in Job \ {j} : drv'[i] = drv[i]
      /\ drv'[j] = "none"
  BY DEF IInv, Shape, Driver
<1>4. Live' \subseteq Job \ {j}
  BY <1>2 DEF IInv, Shape
<1>5. state' \in RuntimeState /\ (Open' => Open)
  BY DEF IInv, Shape, Open
<1>6. Ending(D, st, why)
  BY <1>1, <1>2, <1>3, <1>4, <1>5 DEF Ending
<1> QED
  BY <1>6, EndingKeepsIInv

(* The driver that holds the claim ends its job and keeps the invariant.     *)
LEMMA FinishClaimedKeeps ==
    ASSUME IInv, NEW j \in Job, FinishClaimed(j)
    PROVE  IInv'
<1>1. CASE drv[j] = "committed" /\ FinishOne(j, "Completed", "bsl", 0)
  <2>1. j \in published
    BY <1>1 DEF IInv, Positions
  <2> QED
    BY <1>1, <2>1, LetGoKeeps DEF FinishClaimed
<1>2. CASE \E error \in ErrorBytes : FinishOne(j, "Failed", "bsl", error)
  BY <1>2, LetGoKeeps DEF FinishClaimed
<1> QED
  BY <1>1, <1>2 DEF FinishClaimed

(* A driver without a claim has published nothing, so its job may end in any *)
(* way but Completed.                                                        *)
LEMMA UnclaimedIsUnpublished ==
    ASSUME IInv, NEW j \in Live, drv[j] \notin {"won", "committed", "refused"}
    PROVE  j \notin published
BY DEF IInv, PublicationMatrix, ClaimHeld, Shape

(* A finish() that finds no record keeps the invariant.                      *)
LEMMA FinishOneOfNobody ==
    ASSUME IInv, NEW j \in Job \ Live, NEW st, NEW why, NEW error,
           FinishOne(j, st, why, error),
           drv' = [drv EXCEPT ![j] = "none"],
           UNCHANGED <<state, issued, published>>
    PROVE  IInv'
<1>1. Ended({}, st, why)
  BY NothingEnds DEF FinishOne, IInv
<1>2. /\ Live' = Live \ {}
      /\ records' \in [Live' -> Record]
      /\ \A i \in Live' : records'[i] = records[i]
  BY DEF FinishOne, IInv, Shape, Live
<1>3. /\ drv' \in [Job -> Driver]
      /\ \A i \in Job : drv'[i] \in {drv[i], "none"}
      /\ \A i \in Live : drv'[i] = drv[i]
  BY DEF IInv, Shape, Driver
<1>4. state' \in RuntimeState /\ (Open' => Open)
  BY DEF IInv, Shape, Open
<1>5. Ended({}, "Canceled", "infra")
  BY NothingEnds DEF FinishOne, IInv
<1>6. Ending({}, "Canceled", "infra")
  BY <1>2, <1>3, <1>4, <1>5 DEF Ending
<1> QED
  BY <1>6, EndingKeepsIInv

(* A driver without the claim ends its job and keeps the invariant.          *)
LEMMA FinishUnclaimedKeeps ==
    ASSUME IInv, NEW j \in Job, FinishUnclaimed(j)
    PROVE  IInv'
<1>1. PICK st \in {"Canceled", "Failed"}, error \in ErrorBytes \cup {0} :
         FinishOne(j, st, "infra", error)
  BY DEF FinishUnclaimed
<1>2. /\ drv' = [drv EXCEPT ![j] = "none"]
      /\ UNCHANGED <<state, issued, published>>
  BY DEF FinishUnclaimed
<1>3. CASE j \in Live
  <2>1. j \notin published
    BY <1>3, UnclaimedIsUnpublished DEF FinishUnclaimed
  <2> QED
    BY <1>1, <1>2, <2>1, LetGoKeeps
<1>4. CASE j \notin Live
  BY <1>1, <1>2, <1>4, FinishOneOfNobody
<1> QED
  BY <1>3, <1>4

-----------------------------------------------------------------------------
(* Actions that end nothing.                                                 *)

(* take_messages keeps the invariant.                                        *)
LEMMA TakeMessagesKeeps ==
    ASSUME IInv, NEW j \in Job, TakeMessages(j)
    PROVE  IInv'
<1>1. state' \in RuntimeState /\ (Open' => Open)
  BY DEF TakeMessages, IInv, Shape, Open
<1>2. CASE j \in Live /\ records' = [records EXCEPT ![j].messages = <<>>]
  <2>1. /\ Live' = Live
        /\ \A i \in Live : records'[i] =
              IF i = j THEN [records[i] EXCEPT !.messages = <<>>] ELSE records[i]
    BY <1>2 DEF IInv, Shape, Live
  <2>2. \A i \in Live : [records[i] EXCEPT !.messages = <<>>] \in Record
    BY EmptySeq DEF IInv, Shape, Record
  <2>3. \A i \in Live : /\ records'[i] \in Record
                        /\ records'[i].status = records[i].status
                        /\ records'[i].key = records[i].key
                        /\ records'[i].committing = records[i].committing
    BY <2>1, <2>2 DEF IInv, Shape, Record
  <2>4. records' \in [Live' -> Record]
    BY <1>2, <2>1, <2>3 DEF IInv, Shape
  <2> QED
    BY <1>1, <2>1, <2>3, <2>4, QuietKeepsIInv DEF TakeMessages
<1>3. CASE UNCHANGED records
  BY <1>1, <1>3, QuietKeepsIInv DEF TakeMessages, IInv, Shape, Live
<1> QED
  BY <1>2, <1>3 DEF TakeMessages

(* push_message keeps the invariant.                                         *)
LEMMA PushMessageKeeps ==
    ASSUME IInv, NEW j \in Job, NEW m \in MessageBytes, PushMessage(j, m)
    PROVE  IInv'
<1>1. state' \in RuntimeState /\ (Open' => Open)
  BY DEF PushMessage, IInv, Shape, Open
<1> DEFINE said2 == [records[j] EXCEPT !.messages = Append(@, m), !.spent = @ + m]
<1>2. j \in Live /\ records[j] \in Record /\ m \in Nat
  BY ConfigAssumption DEF PushMessage, IInv, Shape
<1>3. /\ Live' = Live
      /\ \A i \in Live : records'[i] = IF i = j THEN said2 ELSE records[i]
      /\ records' = [i \in Live |-> records'[i]]
  BY <1>2 DEF PushMessage, IInv, Shape, Live
<1>4. /\ Append(records[j].messages, m) \in Seq(MessageBytes)
      /\ records[j].spent + m \in Nat
  <2>1. records[j].messages \in Seq(MessageBytes) /\ records[j].spent \in Nat
    BY <1>2 DEF Record
  <2> QED
    BY <1>2, <2>1, AppendProperties
<1>5. /\ said2 \in Record
      /\ said2.status = records[j].status
      /\ said2.key = records[j].key
      /\ said2.committing = records[j].committing
  BY <1>2, <1>4 DEF Record
<1>6. \A i \in Live : /\ records'[i] \in Record
                      /\ records'[i].status = records[i].status
                      /\ records'[i].key = records[i].key
                      /\ records'[i].committing = records[i].committing
  <2> HIDE DEF said2
  <2> QED
    BY <1>3, <1>5 DEF IInv, Shape
<1>7. records' \in [Live' -> Record]
  BY <1>3, <1>6
<1> QED
  BY <1>1, <1>3, <1>6, <1>7, QuietKeepsIInv DEF PushMessage

(* The end of the bootstrap keeps the invariant.                             *)
LEMMA BootstrapDoneKeeps == IInv /\ BootstrapDone => IInv'
<1> SUFFICES ASSUME IInv, BootstrapDone PROVE IInv'
  OBVIOUS
<1>1. state' \in RuntimeState /\ Open
  BY DEF BootstrapDone, RuntimeState, Open
<1> QED
  BY <1>1, QuietKeepsIInv DEF BootstrapDone, IInv, Shape, Live

(* admit() keeps the invariant: its id is fresh, its key was free.           *)
LEMMA SubmitKeeps ==
    ASSUME IInv, NEW j \in Job, NEW k \in Key \cup {NoKey}, NEW b \in ParamBytes,
           Submit(j, k, b)
    PROVE  IInv'
<1> DEFINE new == [status |-> "Queued", base |-> b, key |-> k, cancel |-> FALSE,
                   messages |-> <<>>, spent |-> 0, committing |-> FALSE]
           n == Cardinality(issued)
<1>1. /\ j \notin issued /\ j \notin Live /\ j \notin published
      /\ Open /\ NoKey \notin Key
      /\ \A q \in queue : q[2] # j
      /\ \A r \in keys : r[2] # j
      /\ drv[j] = "none"
  <2>1. j \notin issued /\ Open
    BY DEF Submit, Admissible
  <2>2. \A r \in keys : r[2] \in Live
    BY DEF IInv, KeyExclusive
  <2> QED
    BY <2>1, <2>2, ConfigAssumption
    DEF IInv, Shape, Positions, NobodyForgotten, Driver
<1>2. /\ Live' = Live \cup {j}
      /\ records'[j] = new
      /\ \A i \in Live : records'[i] = records[i]
      /\ new \in Record
      /\ records' \in [Live' -> Record]
  <2>1. b \in Nat /\ <<>> \in Seq(MessageBytes)
    BY ConfigAssumption, EmptySeq
  <2>2. new \in Record
    BY <2>1 DEF Record
  <2>3. records' = [i \in Live \cup {j} |-> IF i = j THEN new ELSE records[i]]
    BY DEF Submit
  <2> HIDE DEF new
  <2> QED
    BY <1>1, <2>2, <2>3 DEF IInv, Shape, Live
<1>3. n \in Nat /\ IsFiniteSet(issued') /\ Cardinality(issued') = n + 1
  BY <1>1, FS_CardinalityType, FS_AddElement DEF Submit, IInv, Fresh
<1>4. state' \in RuntimeState
  BY DEF Submit, IInv, Shape, RuntimeState
<1>5. Shape'
  <2>1. /\ keys' \subseteq Key \X Job /\ queue' \subseteq Nat \X Job
        /\ \E S : history' \in Seq(S)
    BY <1>3 DEF Submit, IInv, Shape
  <2>2. /\ issued' \subseteq Job /\ Live' \subseteq issued'
        /\ published' \subseteq issued' /\ drv' \in [Job -> Driver]
    BY <1>2 DEF Submit, IInv, Shape
  <2> QED
    BY <1>2, <1>4, <2>1, <2>2 DEF Shape, Live
<1>6. Fresh'
  <2>1. \A i \in DOMAIN history' : history'[i].id \in issued' \ Live'
    BY <1>1, <1>2 DEF Submit, IInv, Fresh
  <2>2. \A q \in queue' : q[1] < Cardinality(issued')
    <3> TAKE q \in queue'
    <3>1. CASE q \in queue
      <4>1. q[1] \in Nat /\ q[1] < n
        BY <3>1 DEF IInv, Fresh, Shape
      <4> QED
        BY <1>3, <4>1
    <3>2. CASE q = <<n, j>>
      BY <1>3, <3>2
    <3> QED
      BY <3>1, <3>2 DEF Submit
  <2> QED
    BY <1>3, <2>1, <2>2 DEF Fresh
<1>7. Positions'
  BY <1>1, <1>2 DEF Submit, IInv, Positions
<1>8. KeyExclusive'
  <2>1. keys' = {<<records'[i].key, i>> : i \in {h \in Live' : records'[h].key # NoKey}}
    <3> DEFINE K == {h \in Live : records[h].key # NoKey}
               L == {h \in Live' : records'[h].key # NoKey}
    <3>1. keys = {<<records[i].key, i>> : i \in K}
      BY DEF IInv, KeyExclusive
    <3>2. /\ L = IF k = NoKey THEN K ELSE K \cup {j}
          /\ \A i \in K : records'[i].key = records[i].key
          /\ records'[j].key = k
      BY <1>1, <1>2
    <3>3. keys' = IF k = NoKey THEN keys ELSE keys \cup {<<k, j>>}
      BY DEF Submit
    <3> HIDE DEF K, L, new
    <3>4. keys' = {<<records'[i].key, i>> : i \in L}
      <4>1. CASE k = NoKey
        BY <3>1, <3>2, <3>3, <4>1
      <4>2. CASE k # NoKey
        BY <3>1, <3>2, <3>3, <4>2
      <4> QED
        BY <4>1, <4>2
    <3> QED
      BY <3>4 DEF L
  <2>2. \A r, s \in keys' : r[1] = s[1] => r = s
    BY <1>1 DEF Submit, Admissible, IInv, KeyExclusive
  <2> QED
    BY <2>1, <2>2 DEF KeyExclusive
<1>9. NobodyForgotten'
  <2>1. \A q, r \in queue' : q[1] = r[1] \/ q[2] = r[2] => q = r
    <3>1. \A q \in queue : q[1] # n /\ q[2] # j
      BY <1>1, <1>3 DEF IInv, Fresh, Shape
    <3> QED
      BY <3>1 DEF Submit, IInv, NobodyForgotten
  <2>2. \A q \in queue' : /\ q[2] \in Live'
                          /\ records'[q[2]].status = "Queued"
                          /\ drv'[q[2]] = "none"
    BY <1>1, <1>2 DEF Submit, IInv, NobodyForgotten
  <2>3. \A i \in Live' :
          /\ records'[i].status = "Running" =>
                drv'[i] \in {"running", "won", "committed", "refused"}
          /\ records'[i].status = "Queued" /\ Open' =>
                (\E q \in queue' : q[2] = i) \/ drv'[i] = "popped"
    <3> TAKE i \in Live'
    <3>1. CASE i = j
      <4>1. <<n, j>> \in queue' /\ <<n, j>>[2] = i
        BY <3>1 DEF Submit
      <4>2. records'[i].status = "Queued"
        BY <1>2, <3>1
      <4> QED
        BY <4>1, <4>2, Zenon
    <3>2. CASE i # j
      BY <1>1, <1>2, <3>2 DEF Submit, IInv, NobodyForgotten
    <3> QED
      BY <3>1, <3>2
  <2> QED
    BY <2>1, <2>2, <2>3 DEF NobodyForgotten
<1>10. ClaimHeld'
  BY <1>1, <1>2 DEF Submit, IInv, ClaimHeld
<1>11. PublicationMatrix'
  BY <1>1, <1>2 DEF Submit, IInv, PublicationMatrix
<1> QED
  BY <1>5, <1>6, <1>7, <1>8, <1>9, <1>10, <1>11 DEF IInv

(* pop_front keeps the invariant: the job goes from the FIFO to its driver.  *)
LEMMA PopFrontKeeps == IInv /\ PopFront => IInv'
<1> SUFFICES ASSUME IInv, PopFront PROVE IInv'
  OBVIOUS
<1>1. PICK q \in queue : /\ queue' = queue \ {q}
                         /\ drv' = [drv EXCEPT ![q[2]] = "popped"]
  BY DEF PopFront
<1> DEFINE j == q[2]
<1>2. /\ j \in Live /\ j \in Job
      /\ records[j].status = "Queued"
      /\ drv[j] = "none"
      /\ \A r \in queue' : r[2] # j
  BY <1>1 DEF IInv, NobodyForgotten, Shape
<1>3. /\ drv' \in [Job -> Driver] /\ drv'[j] = "popped"
      /\ \A i \in Job \ {j} : drv'[i] = drv[i]
  BY <1>1, <1>2 DEF IInv, Shape, Driver
<1>4. UNCHANGED <<state, records, keys, history, published, issued>> /\ Open
  BY DEF PopFront
<1>5. Shape' /\ Fresh' /\ KeyExclusive' /\ PublicationMatrix'
  BY <1>1, <1>3, <1>4
  DEF IInv, Shape, Fresh, KeyExclusive, PublicationMatrix, Live
<1>6. Positions'
  BY <1>2, <1>3, <1>4 DEF IInv, Positions, Shape, Live
<1>7. NobodyForgotten'
  <2>1. \A r, s \in queue' : r[1] = s[1] \/ r[2] = s[2] => r = s
    BY <1>1 DEF IInv, NobodyForgotten
  <2>2. \A r \in queue' : /\ r[2] \in Live'
                          /\ records'[r[2]].status = "Queued"
                          /\ drv'[r[2]] = "none"
    BY <1>1, <1>2, <1>3, <1>4 DEF IInv, NobodyForgotten, Shape, Live
  <2>3. \A i \in Live' :
          /\ records'[i].status = "Running" =>
                drv'[i] \in {"running", "won", "committed", "refused"}
          /\ records'[i].status = "Queued" /\ Open' =>
                (\E r \in queue' : r[2] = i) \/ drv'[i] = "popped"
    BY <1>1, <1>2, <1>3, <1>4 DEF IInv, NobodyForgotten, Shape, Live
  <2> QED
    BY <2>1, <2>2, <2>3 DEF NobodyForgotten
<1>8. ClaimHeld'
  BY <1>2, <1>3, <1>4 DEF IInv, ClaimHeld, Live
<1> QED
  BY <1>5, <1>6, <1>7, <1>8 DEF IInv

(* Updating one field of one live record.                                    *)
LEMMA RecordUpdate ==
    ASSUME IInv, NEW j \in Live, NEW r, r \in Record,
           records' = [records EXCEPT ![j] = r]
    PROVE  /\ Live' = Live
           /\ records' \in [Live' -> Record]
           /\ records'[j] = r
           /\ \A i \in Live : i # j => records'[i] = records[i]
BY DEF IInv, Shape, Live

(* start_job keeps the invariant, also when the popped job is gone.          *)
LEMMA StartJobKeeps ==
    ASSUME IInv, NEW j \in Job, StartJob(j)
    PROVE  IInv'
<1>1. UNCHANGED <<state, queue, keys, history, published, issued>>
  BY DEF StartJob
<1>2. /\ drv' \in [Job -> Driver]
      /\ \A i \in Job \ {j} : drv'[i] = drv[i]
      /\ \A q \in queue : q[2] # j
  BY DEF StartJob, IInv, Shape, Driver, NobodyForgotten
<1>3. CASE /\ j \in Live /\ Open /\ records[j].status = "Queued"
           /\ records' = [records EXCEPT ![j].status = "Running"]
           /\ drv' = [drv EXCEPT ![j] = "running"]
  <2> DEFINE r == [records[j] EXCEPT !.status = "Running"]
  <2>1. /\ r \in Record /\ r.status = "Running"
        /\ r.key = records[j].key /\ r.committing = records[j].committing
        /\ records' = [records EXCEPT ![j] = r]
    <3>1. records[j] \in Record
      BY <1>3 DEF IInv, Shape
    <3> QED
      BY <1>3, <3>1 DEF Record
  <2> HIDE DEF r
  <2>2. /\ Live' = Live
        /\ records' \in [Live' -> Record]
        /\ records'[j] = r
        /\ \A i \in Live : i # j => records'[i] = records[i]
    BY <1>3, <2>1, RecordUpdate
  <2>3. drv'[j] = "running" /\ drv[j] = "popped"
    BY <1>3 DEF IInv, Shape, StartJob
  <2>4. Shape' /\ Fresh' /\ Positions'
    BY <1>1, <1>2, <1>3, <2>1, <2>2, <2>3
    DEF IInv, Shape, Fresh, Positions, Live
  <2>5. KeyExclusive'
    BY <1>1, <2>1, <2>2 DEF IInv, KeyExclusive
  <2>6. NobodyForgotten'
    BY <1>1, <1>2, <2>1, <2>2, <2>3 DEF IInv, NobodyForgotten, Shape, Open
  <2>7. ClaimHeld' /\ PublicationMatrix'
    BY <1>1, <1>2, <1>3, <2>1, <2>2, <2>3 DEF IInv, ClaimHeld, PublicationMatrix
  <2> QED
    BY <2>4, <2>5, <2>6, <2>7 DEF IInv
<1>4. CASE /\ ~(j \in Live /\ Open /\ records[j].status = "Queued")
           /\ drv' = [drv EXCEPT ![j] = "none"]
           /\ UNCHANGED records
  <2>1. drv'[j] = "none" /\ drv[j] = "popped" /\ Live' = Live
    BY <1>4 DEF IInv, Shape, StartJob, Live
  <2>2. Shape' /\ Fresh' /\ KeyExclusive' /\ PublicationMatrix'
    BY <1>1, <1>2, <1>4, <2>1
    DEF IInv, Shape, Fresh, KeyExclusive, PublicationMatrix, Live
  <2>3. Positions' /\ ClaimHeld'
    BY <1>1, <1>2, <1>4, <2>1 DEF IInv, Positions, ClaimHeld, Shape
  <2>4. NobodyForgotten'
    BY <1>1, <1>2, <1>4, <2>1 DEF IInv, NobodyForgotten, Positions, Shape, Open
  <2> QED
    BY <2>2, <2>3, <2>4 DEF IInv
<1> QED
  BY <1>3, <1>4 DEF StartJob

(* claim_terminal keeps the invariant, granted or refused.                   *)
LEMMA ClaimTerminalKeeps ==
    ASSUME IInv, NEW j \in Job, ClaimTerminal(j)
    PROVE  IInv'
<1>1. drv[j] = "running" /\ UNCHANGED <<state, published, issued>>
  BY DEF ClaimTerminal
<1>2. CASE /\ FinishOne(j, "Canceled", "infra", 0)
           /\ drv' = [drv EXCEPT ![j] = "none"]
  <2>1. CASE j \in Live
    <3>1. j \notin published
      BY <1>1, <2>1, UnclaimedIsUnpublished
    <3> QED
      BY <1>1, <1>2, <3>1, LetGoKeeps
  <2>2. CASE j \notin Live
    BY <1>1, <1>2, <2>2, FinishOneOfNobody
  <2> QED
    BY <2>1, <2>2
<1>3. CASE /\ j \in Live
           /\ records' = [records EXCEPT ![j].committing = TRUE]
           /\ drv' = [drv EXCEPT ![j] = "won"]
           /\ UNCHANGED <<queue, keys, history>>
  <2> DEFINE r == [records[j] EXCEPT !.committing = TRUE]
  <2>1. /\ r \in Record /\ r.committing
        /\ r.key = records[j].key /\ r.status = records[j].status
        /\ records' = [records EXCEPT ![j] = r]
    <3>1. records[j] \in Record
      BY <1>3 DEF IInv, Shape
    <3> QED
      BY <1>3, <3>1 DEF Record
  <2> HIDE DEF r
  <2>2. /\ Live' = Live
        /\ records' \in [Live' -> Record]
        /\ records'[j] = r
        /\ \A i \in Live : i # j => records'[i] = records[i]
    BY <1>3, <2>1, RecordUpdate
  <2>3. /\ drv' \in [Job -> Driver] /\ drv'[j] = "won"
        /\ \A i \in Job \ {j} : drv'[i] = drv[i]
    BY <1>3 DEF IInv, Shape, Driver
  <2>4. Shape' /\ Fresh' /\ Positions'
    BY <1>1, <1>3, <2>1, <2>2, <2>3
    DEF IInv, Shape, Fresh, Positions, Live
  <2>5. KeyExclusive'
    BY <1>3, <2>1, <2>2 DEF IInv, KeyExclusive
  <2>6. NobodyForgotten'
    BY <1>1, <1>3, <2>1, <2>2, <2>3 DEF IInv, NobodyForgotten, Shape, Open
  <2>7. ClaimHeld' /\ PublicationMatrix'
    BY <1>1, <1>3, <2>1, <2>2, <2>3 DEF IInv, ClaimHeld, PublicationMatrix
  <2> QED
    BY <2>4, <2>5, <2>6, <2>7 DEF IInv
<1>4. CASE /\ ~(j \in Live /\ ~records[j].committing)
           /\ drv' = [drv EXCEPT ![j] = "none"]
           /\ UNCHANGED <<records, queue, keys, history>>
  <2>1. j \notin Live
    BY <1>1, <1>4 DEF IInv, ClaimHeld
  <2>2. Ended({}, "Canceled", "infra")
    BY <1>4, NothingEnds DEF IInv
  <2>3. /\ Live' = Live \ {}
        /\ records' \in [Live' -> Record]
        /\ \A i \in Live' : records'[i] = records[i]
    BY <1>4 DEF IInv, Shape, Live
  <2>4. /\ drv' \in [Job -> Driver]
        /\ \A i \in Job : drv'[i] \in {drv[i], "none"}
        /\ \A i \in Live : drv'[i] = drv[i]
    BY <1>4, <2>1 DEF IInv, Shape, Driver
  <2>5. state' \in RuntimeState /\ (Open' => Open)
    BY <1>1 DEF IInv, Shape, Open
  <2>6. Ending({}, "Canceled", "infra")
    BY <1>1, <2>2, <2>3, <2>4, <2>5 DEF Ending
  <2> QED
    BY <2>6, EndingKeepsIInv
<1> QED
  BY <1>2, <1>3, <1>4 DEF ClaimTerminal

(* commit_staged keeps the invariant: only a claimed job publishes.          *)
LEMMA CommitStagedKeeps ==
    ASSUME IInv, NEW j \in Job, CommitStaged(j)
    PROVE  IInv'
<1>1. /\ drv[j] = "won"
      /\ UNCHANGED <<state, records, queue, keys, history, issued>>
      /\ j \in Live /\ records[j].committing
      /\ j \in issued
  BY DEF CommitStaged, registryVars, IInv, ClaimHeld, Shape
<1>2. PICK to \in {"committed", "refused"} :
         /\ drv' = [drv EXCEPT ![j] = to]
         /\ published' = IF to = "committed" THEN published \cup {j} ELSE published
  BY DEF CommitStaged
<1>3. /\ drv' \in [Job -> Driver] /\ drv'[j] = to
      /\ \A i \in Job \ {j} : drv'[i] = drv[i]
  BY <1>2 DEF IInv, Shape, Driver
<1>4. Live' = Live /\ Open' = Open
  BY <1>1 DEF Live, Open
<1>5. Shape' /\ Fresh' /\ KeyExclusive'
  BY <1>1, <1>2, <1>3, <1>4 DEF IInv, Shape, Fresh, KeyExclusive
<1>6. Positions' /\ NobodyForgotten' /\ ClaimHeld'
  <2>1. Positions'
    BY <1>1, <1>2, <1>3, <1>4 DEF IInv, Positions, Shape
  <2>2. NobodyForgotten'
    BY <1>1, <1>2, <1>3, <1>4 DEF IInv, NobodyForgotten, Shape
  <2>3. ClaimHeld'
    BY <1>1, <1>2, <1>3, <1>4 DEF IInv, ClaimHeld
  <2> QED
    BY <2>1, <2>2, <2>3
<1>7. PublicationMatrix'
  <2>1. \A i \in DOMAIN history : history[i].id # j
    BY <1>1 DEF IInv, Fresh
  <2> QED
    BY <1>1, <1>2, <1>4, <2>1 DEF IInv, PublicationMatrix
<1> QED
  BY <1>5, <1>6, <1>7 DEF IInv

(* Every step of the registry keeps the invariant.                           *)
LEMMA NextIInv == IInv /\ [Next]_vars => IInv'
<1> SUFFICES ASSUME IInv, [Next]_vars PROVE IInv'
  OBVIOUS
<1>1. CASE CallerStep
  BY <1>1, SubmitKeeps, CancelKeeps, TakeMessagesKeeps, ShutdownKeeps,
     DropRuntimeKeeps DEF CallerStep
<1>2. CASE DriverStep
  BY <1>2, PopFrontKeeps, StartJobKeeps, ClaimTerminalKeeps, CommitStagedKeeps,
     FinishClaimedKeeps, FinishUnclaimedKeeps, PushMessageKeeps DEF DriverStep
<1>3. CASE BootstrapDone \/ Break
  BY <1>3, BootstrapDoneKeeps, BreakKeeps
<1>4. CASE UNCHANGED vars
  BY <1>4, QuietKeepsIInv DEF vars, registryVars, IInv, Shape, Live, Open
<1> QED
  BY <1>1, <1>2, <1>3, <1>4 DEF Next

(* The invariant holds in every reachable state.                             *)
THEOREM Inductive == Spec => []IInv
<1> QED
  BY InitIInv, NextIInv, PTL DEF Spec

-----------------------------------------------------------------------------
(* The results.                                                              *)

(* A key is reserved exactly as long as its job is live and by one job only, *)
(* whichever of the paths of finish() ended the earlier ones.                *)
THEOREM KeysAreExclusive == Spec => []KeyExclusive
<1>1. IInv => KeyExclusive
  BY DEF IInv
<1> QED
  BY <1>1, Inductive, PTL

(* No path of the registry forgets a job: while the runtime is open, every   *)
(* queued record is in the FIFO exactly once or in the hands of a driver.    *)
THEOREM NoJobIsForgotten == Spec => []NobodyForgotten
<1>1. IInv => NobodyForgotten
  BY DEF IInv
<1> QED
  BY <1>1, Inductive, PTL

(* A claimed job is ended by nobody but the driver that claimed it, not even *)
(* by shutdown or by the failure of the whole runtime.                       *)
THEOREM ClaimIsHeld == Spec => []ClaimHeld
<1>1. IInv => ClaimHeld
  BY DEF IInv
<1> QED
  BY <1>1, Inductive, PTL

(* What a caller sees of the write-set of a job agrees with how it ended.    *)
THEOREM MatrixHolds == Spec => []PublicationMatrix
<1>1. IInv => PublicationMatrix
  BY DEF IInv
<1> QED
  BY <1>1, Inductive, PTL

-----------------------------------------------------------------------------
(* Part 2: the lifecycle.  Besides the invariant it needs the uniqueness of  *)
(* the ids in the history, without which the phase of a finished job would   *)
(* be that of any of its rows.                                               *)

(* The phase of a job as a function of the three variables that decide it.   *)

Unique(hist) == \A i, k \in DOMAIN hist : hist[i].id = hist[k].id => i = k

Low(st) == CASE st = "Completed" -> "completed"
             [] st = "Failed"    -> "failed"
             [] st = "Canceled"  -> "canceled"

PhaseIn(recs, hist, ids, j) ==
    IF j \in DOMAIN recs
    THEN IF recs[j].committing THEN "publishing"
         ELSE IF recs[j].status = "Queued" THEN "queued" ELSE "running"
    ELSE IF j \in {hist[i].id : i \in DOMAIN hist}
         THEN Low(hist[CHOOSE i \in DOMAIN hist : hist[i].id = j].state)
         ELSE IF j \in ids THEN "forgotten" ELSE "new"

(* It is the phase the refinement mapping speaks of, before and after a step. *)
LEMMA PhaseIsIn ==
    ASSUME NEW j \in Job
    PROVE  /\ PhaseOf(j) = PhaseIn(records, history, issued, j)
           /\ PhaseOf(j)' = PhaseIn(records', history', issued', j)
BY DEF PhaseOf, PhaseIn, RowOf, Low, Live, Kept

(* A job without a record has the phase of its only row.                     *)
LEMMA PhaseCases ==
    ASSUME NEW recs, NEW hist, NEW ids, NEW j, Unique(hist), j \notin DOMAIN recs
    PROVE  /\ \A n \in DOMAIN hist :
                 hist[n].id = j => PhaseIn(recs, hist, ids, j) = Low(hist[n].state)
           /\ (\A n \in DOMAIN hist : hist[n].id # j) =>
                 PhaseIn(recs, hist, ids, j) = IF j \in ids THEN "forgotten" ELSE "new"
<1>1. ASSUME NEW n \in DOMAIN hist, hist[n].id = j
      PROVE  PhaseIn(recs, hist, ids, j) = Low(hist[n].state)
  <2>1. (CHOOSE i \in DOMAIN hist : hist[i].id = j) = n
    BY <1>1 DEF Unique
  <2> QED
    BY <1>1, <2>1 DEF PhaseIn
<1> QED
  BY <1>1 DEF PhaseIn

-----------------------------------------------------------------------------
(* One row per job.                                                          *)

Rows ==
    /\ Unique(history)
    /\ \A i \in DOMAIN history : history[i].state \in Terminal

(* The rows left after an eviction are still one per job.                    *)
LEMMA SuffixIsUnique ==
    ASSUME NEW S, NEW s \in Seq(S), NEW t \in Seq(S), NEW n \in 0..Len(s \o t),
           Unique(s), Unique(t),
           \A i \in DOMAIN s, k \in DOMAIN t : s[i].id # t[k].id
    PROVE  Unique(SubSeq(s \o t, n + 1, Len(s \o t)))
<1> DEFINE c == s \o t
           u == SubSeq(c, n + 1, Len(c))
<1>1. /\ c \in Seq(S)
      /\ Len(c) = Len(s) + Len(t)
      /\ \A i \in 1..(Len(s) + Len(t)) :
            c[i] = IF i <= Len(s) THEN s[i] ELSE t[i - Len(s)]
  BY ConcatProperties
<1>2. /\ Len(s) \in Nat /\ DOMAIN s = 1..Len(s)
      /\ Len(t) \in Nat /\ DOMAIN t = 1..Len(t)
  BY LenProperties
<1>3. Len(c) \in Nat /\ n \in Nat /\ n <= Len(c)
  BY <1>1, <1>2
<1> HIDE DEF c
<1>4. \A i \in (n + 1)..Len(c) : c[i] \in S
  BY <1>1, <1>3, ElementOfSeq
<1>5. /\ Len(u) = IF n + 1 <= Len(c) THEN Len(c) - n ELSE 0
      /\ u \in Seq(S)
      /\ \A i \in 1..(Len(c) - n) : u[i] = c[n + i]
  BY <1>3, <1>4, SubSeqProperties
<1>6. DOMAIN u = 1..Len(u)
  BY <1>5, LenProperties
<1> HIDE DEF u
<1>7. ASSUME NEW i \in 1..Len(c), NEW k \in 1..Len(c), i < k, c[i].id = c[k].id
      PROVE  FALSE
  <2>1. CASE k <= Len(s)
    <3>1. i \in DOMAIN s /\ k \in DOMAIN s /\ c[i] = s[i] /\ c[k] = s[k] /\ i # k
      BY <1>1, <1>2, <1>7, <2>1
    <3> QED
      BY <1>7, <3>1 DEF Unique
  <2>2. CASE i > Len(s)
    <3>1. /\ i - Len(s) \in DOMAIN t /\ k - Len(s) \in DOMAIN t
          /\ i - Len(s) # k - Len(s)
          /\ c[i] = t[i - Len(s)] /\ c[k] = t[k - Len(s)]
      BY <1>1, <1>2, <1>7, <2>2
    <3> QED
      BY <1>7, <3>1 DEF Unique
  <2>3. CASE i <= Len(s) /\ k > Len(s)
    <3>1. /\ i \in DOMAIN s /\ k - Len(s) \in DOMAIN t
          /\ c[i] = s[i] /\ c[k] = t[k - Len(s)]
      BY <1>1, <1>2, <1>7, <2>3
    <3> QED
      BY <1>7, <3>1
  <2> QED
    BY <1>1, <1>2, <1>7, <2>1, <2>2, <2>3
<1>8. \A i, k \in DOMAIN u : u[i].id = u[k].id => i = k
  <2> SUFFICES ASSUME NEW i \in DOMAIN u, NEW k \in DOMAIN u, u[i].id = u[k].id, i # k
               PROVE  FALSE
    OBVIOUS
  <2>1. /\ n + i \in 1..Len(c) /\ n + k \in 1..Len(c)
        /\ u[i] = c[n + i] /\ u[k] = c[n + k]
        /\ i \in Nat /\ k \in Nat
    <3>1. i \in 1..Len(u) /\ k \in 1..Len(u)
      BY <1>6
    <3>2. i \in 1..(Len(c) - n) /\ k \in 1..(Len(c) - n)
      BY <1>3, <1>5, <3>1
    <3> QED
      BY <1>3, <1>5, <3>2, SMTT(30)
  <2>2. CASE i < k
    <3>1. n + i < n + k
      BY <1>3, <2>1, <2>2
    <3> QED
      BY <1>7, <2>1, <3>1
  <2>3. CASE k < i
    <3>1. n + k < n + i
      BY <1>3, <2>1, <2>3
    <3> QED
      BY <1>7, <2>1, <3>1
  <2> QED
    BY <2>1, <2>2, <2>3
<1> QED
  BY <1>8 DEF Unique, u, c

(* Finishing jobs that are live keeps one row per job.                       *)
LEMMA FinishKeepsRows ==
    ASSUME IInv, Rows, NEW order \in Seq(Job), ToSet(order) \subseteq Live,
           \A i, k \in DOMAIN order : order[i] = order[k] => i = k,
           NEW st \in Terminal, NEW why, NEW error, Finish(order, st, why, error)
    PROVE  Rows'
<1> DEFINE row(i) == [id |-> order[i], state |-> st, why |-> why,
                      bytes |-> records[order[i]].base + Bounded(error)
                                  + Total(records[order[i]].messages)]
           rows  == [i \in 1..Len(order) |-> row(i)]
           grown == history \o rows
<1>1. PICK S : history \in Seq(S)
  BY DEF IInv, Shape
<1> DEFINE T == S \cup {row(i) : i \in 1..Len(order)}
<1>2. history \in Seq(T)
  BY <1>1, SeqMonotonic
<1>3. Len(order) \in Nat /\ DOMAIN order = 1..Len(order)
  BY LenProperties
<1>4. rows \in Seq(T)
  <2>1. rows \in [1..Len(order) -> T]
    OBVIOUS
  <2> QED
    BY <1>3, <2>1, SeqDef
<1>5. PICK gone \in 0..Len(grown) : history' = SubSeq(grown, gone + 1, Len(grown))
  BY DEF Finish, AfterEviction
<1>6. DOMAIN rows = DOMAIN order /\ \A k \in DOMAIN rows : rows[k].id = order[k]
  BY <1>3
<1>7. \A k \in DOMAIN rows : rows[k].id \in Live
  BY <1>6 DEF ToSet
<1> HIDE DEF T, rows
<1>8. Unique(rows) /\ Unique(history)
  BY <1>6 DEF Unique, Rows
<1>9. \A i \in DOMAIN history, k \in DOMAIN rows : history[i].id # rows[k].id
  BY <1>7 DEF IInv, Fresh
<1>10. Unique(history')
  BY <1>2, <1>4, <1>5, <1>8, <1>9, SuffixIsUnique
<1>11. Ended(ToSet(order), st, why)
  BY FinishEnds DEF IInv
<1>12. \A i \in DOMAIN history' : history'[i].state \in Terminal
  BY <1>11 DEF Ended, Rows
<1> QED
  BY <1>10, <1>12 DEF Rows

(* So does a step of one driver or caller that ends one job or finds it gone. *)
LEMMA FinishOneKeepsRows ==
    ASSUME IInv, Rows, NEW j \in Job, NEW st \in Terminal, NEW why, NEW error,
           FinishOne(j, st, why, error)
    PROVE  Rows'
<1>1. CASE j \in Live
  <2> DEFINE order == <<j>>
  <2>1. Finish(order, st, why, error)
    BY <1>1 DEF FinishOne
  <2>2. /\ order \in Seq(Job) /\ ToSet(order) \subseteq Live
        /\ \A i, k \in DOMAIN order : order[i] = order[k] => i = k
    BY <1>1 DEF ToSet
  <2> HIDE DEF order
  <2> QED
    BY <2>1, <2>2, FinishKeepsRows
<1>2. CASE j \notin Live
  BY <1>2 DEF FinishOne, Rows
<1> QED
  BY <1>1, <1>2

(* An order of a set names each of its elements once.                        *)
LEMMA OrderOnce ==
    ASSUME NEW U, NEW order \in SetToSeqs(U)
    PROVE  \A i, k \in DOMAIN order : order[i] = order[k] => i = k
<1>1. /\ order \in [1..Cardinality(U) -> U]
      /\ \A i, k \in 1..Cardinality(U) : i # k => order[i] # order[k]
  BY DEF SetToSeqs
<1> QED
  BY <1>1

-----------------------------------------------------------------------------
(* Steps of the lifecycle.                                                   *)

Phases == {"new", "queued", "running", "publishing", "forgotten",
           "completed", "failed", "canceled"}

(* What every job has to show for the step to be an Advance.                 *)
Moves(j) ==
    /\ PhaseOf(j) \in Phases /\ PhaseOf(j)' \in Phases
    /\ PhaseOf(j)' # PhaseOf(j) =>
          /\ PhaseOf(j)' \in Lifecycle!After(PhaseOf(j))
          /\ PhaseOf(j)' \in {"queued", "publishing"} => Open
          /\ PhaseOf(j)' = "completed" => j \in published

(* A step in which every job has shown so is a step of the lifecycle.        *)
LEMMA MovesAdvance ==
    ASSUME \A j \in Job : Moves(j), UNCHANGED published, Open' => Open
    PROVE  Lifecycle!Next
<1>1. Open \in BOOLEAN /\ Open' \in BOOLEAN
  BY DEF Open
<1>2. Open' = Open \/ Open' = FALSE
  BY <1>1
<1>3. Phases = Lifecycle!Phase
  BY DEF Phases, Lifecycle!Phase, Lifecycle!Terminal
<1>4. Lifecycle!Advance
  BY <1>3 DEF Moves, Lifecycle!Advance
<1> QED
  BY <1>2, <1>4 DEF Lifecycle!Next

(* A step that ends the jobs of D with st and leaves the others as they are; *)
(* rows of jobs that have ended earlier may go.                              *)
Advanced(D, st) ==
    /\ D \subseteq Live /\ Live' = Live \ D
    /\ \A j \in Live' : /\ records'[j].status = records[j].status
                        /\ records'[j].committing = records[j].committing
    /\ \A i \in DOMAIN history' :
          \/ \E k \in DOMAIN history : history'[i] = history[k]
          \/ history'[i].id \in D /\ history'[i].state = st
    /\ Open' => Open
    /\ UNCHANGED <<issued, published>>
    /\ st \in Terminal
    /\ st = "Completed" => \A j \in D : records[j].committing /\ j \in published
    /\ st = "Canceled" => \A j \in D : ~records[j].committing

(* Ending the jobs of D is such a step; an evicted row is forgotten.         *)
LEMMA AdvancedIs ==
    ASSUME IInv, Rows, Rows', NEW D, NEW st, Advanced(D, st)
    PROVE  Lifecycle!Next
<1>1. /\ Live \subseteq issued /\ issued' = issued
      /\ \A i \in DOMAIN history : history[i].id \in issued \ Live
      /\ \A j \in Live : records[j].status \in {"Queued", "Running"}
  BY DEF IInv, Shape, Fresh, Record, Advanced
<1>2. ASSUME NEW j \in Job
      PROVE  Moves(j)
  <2> DEFINE p == PhaseIn(records, history, issued, j)
             q == PhaseIn(records', history', issued', j)
  <2>1. PhaseOf(j) = p /\ PhaseOf(j)' = q
    BY PhaseIsIn
  <2>2. /\ Unique(history) /\ Unique(history')
        /\ \A i \in DOMAIN history : history[i].state \in Terminal
    BY DEF Rows
  <2>3. j \in Live => p = IF records[j].committing THEN "publishing"
                          ELSE IF records[j].status = "Queued" THEN "queued" ELSE "running"
    BY DEF PhaseIn, Live
  <2>4. j \notin Live =>
           /\ \A n \in DOMAIN history : history[n].id = j => p = Low(history[n].state)
           /\ (\A n \in DOMAIN history : history[n].id # j) =>
                 p = IF j \in issued THEN "forgotten" ELSE "new"
    BY <2>2, PhaseCases DEF Live
  <2>5. j \in Live' => q = IF records'[j].committing THEN "publishing"
                           ELSE IF records'[j].status = "Queued" THEN "queued" ELSE "running"
    BY DEF PhaseIn, Live
  <2>6. j \notin Live' =>
           /\ \A n \in DOMAIN history' : history'[n].id = j => q = Low(history'[n].state)
           /\ (\A n \in DOMAIN history' : history'[n].id # j) =>
                 q = IF j \in issued' THEN "forgotten" ELSE "new"
    BY <2>2, PhaseCases DEF Live
  <2> HIDE DEF p, q
  <2>7. \A x \in Terminal : Low(x) \in {"completed", "failed", "canceled"}
    BY DEF Low, Terminal
  <2>8. CASE j \in Live'
    <3>1. p = q /\ p \in {"publishing", "queued", "running"}
      BY <2>3, <2>5, <2>8 DEF Advanced
    <3> QED
      BY <2>1, <3>1 DEF Moves, Phases
  <2>9. CASE j \in D
    <3>1. j \in Live /\ j \notin Live' /\ j \in issued'
      BY <1>1, <2>9 DEF Advanced
    <3>2. \A n \in DOMAIN history' : history'[n].id = j => history'[n].state = st
      BY <1>1, <3>1 DEF Advanced
    <3>3. q = Low(st) \/ q = "forgotten"
      BY <2>6, <3>1, <3>2
    <3>4. p \in {"publishing", "queued", "running"}
      BY <2>3, <3>1
    <3>5. CASE st = "Completed"
      <4>1. p = "publishing" /\ j \in published /\ q \in {"completed", "forgotten"}
        BY <2>3, <2>9, <3>1, <3>3, <3>5 DEF Advanced, Low
      <4> QED
        BY <2>1, <4>1 DEF Moves, Phases, Lifecycle!After, Lifecycle!Terminal
    <3>6. CASE st = "Canceled"
      <4>1. p \in {"queued", "running"} /\ q \in {"canceled", "forgotten"}
        BY <2>3, <2>9, <3>1, <3>3, <3>6 DEF Advanced, Low
      <4> QED
        BY <2>1, <4>1 DEF Moves, Phases, Lifecycle!After, Lifecycle!Terminal
    <3>7. CASE st = "Failed"
      <4>1. q \in {"failed", "forgotten"}
        BY <3>3, <3>7 DEF Low
      <4> QED
        BY <2>1, <3>4, <4>1 DEF Moves, Phases, Lifecycle!After, Lifecycle!Terminal
    <3> QED
      BY <3>5, <3>6, <3>7 DEF Advanced, Terminal
  <2>10. CASE j \notin Live
    <3>1. j \notin Live' /\ j \notin D
      BY <2>10 DEF Advanced
    <3>2. CASE \E n \in DOMAIN history : history[n].id = j
      <4>1. PICK n \in DOMAIN history : history[n].id = j
        BY <3>2
      <4>2. p = Low(history[n].state) /\ history[n].state \in Terminal /\ j \in issued'
        BY <1>1, <2>2, <2>4, <2>10, <4>1
      <4>3. \A i \in DOMAIN history' : history'[i].id = j => history'[i].state = history[n].state
        BY <2>2, <3>1, <4>1 DEF Advanced, Unique
      <4>4. q = p \/ q = "forgotten"
        BY <2>6, <3>1, <4>2, <4>3
      <4>5. p \in {"completed", "failed", "canceled"}
        BY <2>7, <4>2
      <4> QED
        BY <2>1, <4>4, <4>5 DEF Moves, Phases, Lifecycle!After, Lifecycle!Terminal
    <3>3. CASE \A n \in DOMAIN history : history[n].id # j
      <4>1. \A n \in DOMAIN history' : history'[n].id # j
        BY <3>1, <3>3 DEF Advanced
      <4>2. p = q /\ p \in {"forgotten", "new"}
        BY <1>1, <2>4, <2>6, <2>10, <3>1, <3>3, <4>1
      <4> QED
        BY <2>1, <4>2 DEF Moves, Phases
    <3> QED
      BY <3>2, <3>3
  <2> QED
    BY <2>8, <2>9, <2>10 DEF Advanced
<1> QED
  BY <1>2, MovesAdvance DEF Advanced

-----------------------------------------------------------------------------
(* The steps of the registry.                                                *)

(* A step that neither ends nor moves a job.                                 *)
LEMMA QuietStutters ==
    ASSUME IInv, Rows, UNCHANGED <<history, issued, published>>,
           Live' = Live, Open' => Open,
           \A j \in Live : /\ records'[j].status = records[j].status
                           /\ records'[j].committing = records[j].committing
    PROVE  Rows' /\ Lifecycle!Next
<1>1. Rows'
  BY DEF Rows
<1>2. Advanced({}, "Failed")
  BY DEF Advanced, Terminal
<1> QED
  BY <1>1, <1>2, AdvancedIs

(* A step that moves job j and leaves the others and the history alone.      *)
LEMMA OneMoves ==
    ASSUME IInv, Rows, NEW j \in Job, Moves(j),
           UNCHANGED <<history, published>>, Open' => Open,
           \A i \in Job \ {j} : /\ i \in Live' <=> i \in Live
                                /\ i \in issued' <=> i \in issued
                                /\ i \in Live => records'[i] = records[i]
    PROVE  Rows' /\ Lifecycle!Next
<1>1. ASSUME NEW i \in Job \ {j}
      PROVE  Moves(i)
  <2>1. PhaseOf(i) = PhaseOf(i)'
    <3>1. /\ PhaseOf(i) = PhaseIn(records, history, issued, i)
          /\ PhaseOf(i)' = PhaseIn(records', history', issued', i)
      BY PhaseIsIn
    <3> QED
      BY <3>1 DEF PhaseIn, Live
  <2>2. PhaseOf(i) \in Phases
    <3>1. CASE i \in Live
      BY <3>1 DEF PhaseOf, Phases
    <3>2. CASE i \notin Live
      <4>1. PhaseOf(i) = PhaseIn(records, history, issued, i)
        BY PhaseIsIn
      <4>2. \A x \in Terminal : Low(x) \in Phases
        BY DEF Low, Terminal, Phases
      <4>3. \A n \in DOMAIN history : history[n].state \in Terminal
        BY DEF Rows
      <4> QED
        BY <3>2, <4>1, <4>2, <4>3, PhaseCases DEF Rows, Phases, Live
    <3> QED
      BY <3>1, <3>2
  <2> QED
    BY <2>1, <2>2 DEF Moves
<1>2. \A i \in Job : Moves(i)
  BY <1>1
<1> QED
  BY <1>2, MovesAdvance DEF Rows

(* submit_shared: one new job becomes queued.                                *)
LEMMA SubmitRefines ==
    ASSUME IInv, Rows, NEW j \in Job, NEW k \in Key \cup {NoKey}, NEW b \in ParamBytes,
           Submit(j, k, b)
    PROVE  Rows' /\ Lifecycle!Next
<1>1. /\ j \notin issued /\ j \notin Live /\ Open
      /\ \A n \in DOMAIN history : history[n].id # j
  BY DEF Submit, Admissible, IInv, Shape, Fresh
<1>2. /\ issued' = issued \cup {j} /\ Live' = Live \cup {j}
      /\ records'[j].committing = FALSE /\ records'[j].status = "Queued"
      /\ \A i \in Live : records'[i] = records[i]
      /\ UNCHANGED <<history, published>>
  BY <1>1 DEF Submit, Live
<1>3. PhaseOf(j) = "new" /\ PhaseOf(j)' = "queued"
  BY <1>1, <1>2 DEF PhaseOf, Kept, Live
<1>4. Moves(j)
  BY <1>1, <1>3 DEF Moves, Phases, Lifecycle!After, Lifecycle!Terminal
<1> QED
  BY <1>1, <1>2, <1>4, OneMoves

(* A record of one job that changes moves that job only.                     *)
LEMMA UpdateMoves ==
    ASSUME IInv, Rows, NEW j \in Live, NEW r \in Record,
           records' = [records EXCEPT ![j] = r], Moves(j),
           UNCHANGED <<history, issued, published, state>>
    PROVE  Rows' /\ Lifecycle!Next
<1>1. /\ Live' = Live
      /\ \A i \in Live : i # j => records'[i] = records[i]
  BY RecordUpdate
<1>2. j \in Job /\ (Open' => Open)
  BY DEF IInv, Shape, Open
<1> QED
  BY <1>1, <1>2, OneMoves

(* start_job: queued to running, or nothing when the driver lets go.         *)
LEMMA StartJobRefines ==
    ASSUME IInv, Rows, NEW j \in Job, StartJob(j)
    PROVE  Rows' /\ Lifecycle!Next
<1>1. UNCHANGED <<state, history, published, issued>>
  BY DEF StartJob
<1>2. CASE j \in Live /\ records[j].status = "Queued"
           /\ records' = [records EXCEPT ![j].status = "Running"]
  <2> DEFINE r == [records[j] EXCEPT !.status = "Running"]
  <2>1. records[j] \in Record /\ ~records[j].committing
    BY <1>2 DEF IInv, Shape, StartJob, ClaimHeld
  <2>2. /\ r \in Record /\ r.status = "Running" /\ ~r.committing
        /\ records' = [records EXCEPT ![j] = r]
    BY <1>2, <2>1 DEF Record
  <2> HIDE DEF r
  <2>3. Live' = Live /\ records'[j] = r
    BY <1>2, <2>2, RecordUpdate
  <2>4. PhaseOf(j) = "queued" /\ PhaseOf(j)' = "running"
    BY <1>2, <2>1, <2>2, <2>3 DEF PhaseOf
  <2>5. Moves(j)
    BY <2>4 DEF Moves, Phases, Lifecycle!After, Lifecycle!Terminal
  <2> QED
    BY <1>1, <1>2, <2>2, <2>5, UpdateMoves
<1>3. CASE UNCHANGED records
  BY <1>1, <1>3, QuietStutters DEF Live, Open
<1> QED
  BY <1>2, <1>3 DEF StartJob

(* commit_staged: the write-set becomes visible under the claim.             *)
LEMMA CommitStagedRefines ==
    ASSUME IInv, Rows, NEW j \in Job, CommitStaged(j)
    PROVE  Rows' /\ [Lifecycle!Next]_(Lifecycle!vars)
<1>1. /\ UNCHANGED <<state, records, history, issued>>
      /\ j \in Live /\ records[j].committing
      /\ published' = published \cup {j} \/ published' = published
  BY DEF CommitStaged, registryVars, IInv, ClaimHeld
<1>2. /\ Rows' /\ Open' = Open
      /\ \A i \in Job : PhaseOf(i)' = PhaseOf(i)
  BY <1>1 DEF Rows, Open, PhaseOf, RowOf, Live, Kept
<1>3. [i \in Job |-> PhaseOf(i)]' = [i \in Job |-> PhaseOf(i)]
  BY <1>2
<1>4. PhaseOf(j) = "publishing"
  BY <1>1 DEF PhaseOf
<1>5. CASE published' = published \cup {j}
  <2>1. Lifecycle!Publish
    BY <1>2, <1>3, <1>4, <1>5 DEF Lifecycle!Publish
  <2> QED
    BY <1>2, <2>1 DEF Lifecycle!Next
<1>6. CASE published' = published
  BY <1>2, <1>3, <1>6 DEF Lifecycle!vars
<1> QED
  BY <1>1, <1>5, <1>6

(* finish() of one job, found or not.                                        *)
LEMMA FinishOneRefines ==
    ASSUME IInv, Rows, NEW j \in Job, NEW st \in Terminal, NEW why, NEW error,
           FinishOne(j, st, why, error),
           UNCHANGED <<state, issued, published>>,
           st = "Completed" /\ j \in Live => records[j].committing /\ j \in published,
           st = "Canceled" /\ j \in Live => ~records[j].committing
    PROVE  Rows' /\ Lifecycle!Next
<1> DEFINE D == {j} \cap Live
<1>1. Rows'
  BY FinishOneKeepsRows
<1>2. Ended(D, st, why) /\ records' = Remaining({j})
  BY FinishOneEnds DEF IInv
<1>3. Live' = Live \ D /\ \A i \in Live' : records'[i] = records[i]
  BY <1>2, RemainingIs DEF IInv
<1>4. Open' => Open
  BY DEF Open
<1>5. \A i \in DOMAIN history' :
          \/ \E k \in DOMAIN history : history'[i] = history[k]
          \/ history'[i].id \in D /\ history'[i].state = st
  BY <1>2 DEF Ended
<1>6. Advanced(D, st)
  BY <1>3, <1>4, <1>5 DEF Advanced
<1> QED
  BY <1>1, <1>6, AdvancedIs

(* Many jobs end at once, and the runtime stops.                             *)
LEMMA FinishAllRefines ==
    ASSUME IInv, Rows, NEW U, U \subseteq Live, NEW order \in SetToSeqs(U),
           NEW st \in {"Failed", "Canceled"}, NEW why, NEW error,
           Finish(order, st, why, error),
           Live' = Live \ U,
           \A j \in Live' : /\ records'[j].status = records[j].status
                            /\ records'[j].committing = records[j].committing,
           \A j \in U : ~records[j].committing,
           ~Open', UNCHANGED <<issued, published>>
    PROVE  Rows' /\ Lifecycle!Next
<1>1. order \in Seq(Job) /\ ToSet(order) = U
  BY OrderIs DEF IInv
<1>2. \A i, k \in DOMAIN order : order[i] = order[k] => i = k
  BY OrderOnce
<1>3. st \in Terminal
  BY DEF Terminal
<1>4. Rows'
  BY <1>1, <1>2, <1>3, FinishKeepsRows
<1>5. Ended(U, st, why)
  BY <1>1, FinishEnds DEF IInv
<1>6. \A i \in DOMAIN history' :
          \/ \E k \in DOMAIN history : history'[i] = history[k]
          \/ history'[i].id \in U /\ history'[i].state = st
  BY <1>5 DEF Ended
<1>7. Advanced(U, st)
  BY <1>3, <1>6 DEF Advanced
<1> QED
  BY <1>4, <1>7, AdvancedIs

(* Shutdown, drop and failure: the ended jobs and the stop are one step.     *)
LEMMA StopRefines ==
    ASSUME IInv, Rows, Shutdown \/ DropRuntime \/ Break
    PROVE  Rows' /\ Lifecycle!Next
<1>1. ~Open' /\ UNCHANGED <<issued, published>>
  BY DEF Shutdown, DropRuntime, Break, Open
<1>2. CASE Shutdown
  <2> DEFINE queued == {j \in Live : records[j].status = "Queued"}
  <2>1. PICK order \in SetToSeqs(queued) :
           /\ Finish(order, "Canceled", "bsl", 0)
           /\ records' = WithFlag(Live, Remaining(queued))
    BY <1>2 DEF Shutdown
  <2>2. /\ Live' = Live \ queued
        /\ \A j \in Live' : /\ records'[j].status = records[j].status
                            /\ records'[j].committing = records[j].committing
    BY <2>1, WithFlagIs DEF IInv
  <2>3. queued \subseteq Live /\ \A j \in queued : ~records[j].committing
    BY DEF IInv, Positions, ClaimHeld, Shape
  <2> HIDE DEF queued
  <2> QED
    BY <1>1, <2>1, <2>2, <2>3, FinishAllRefines
<1>3. CASE Break
  <2> DEFINE unclaimed == {j \in Live : ~records[j].committing}
  <2>1. PICK order \in SetToSeqs(unclaimed), error \in ErrorBytes :
           /\ Finish(order, "Failed", "infra", error)
           /\ records' = Remaining(unclaimed)
    BY <1>3 DEF Break
  <2>2. /\ Live' = Live \ unclaimed
        /\ \A j \in Live' : records'[j] = records[j]
    BY <2>1, RemainingIs DEF IInv
  <2>3. unclaimed \subseteq Live /\ \A j \in unclaimed : ~records[j].committing
    OBVIOUS
  <2> HIDE DEF unclaimed
  <2> QED
    BY <1>1, <2>1, <2>2, <2>3, FinishAllRefines
<1>4. CASE DropRuntime
  <2>1. records = Remaining({})
    BY DEF IInv, Shape, Remaining, Live
  <2>2. /\ Live' = Live \ {}
        /\ \A j \in Live' : /\ records'[j].status = records[j].status
                            /\ records'[j].committing = records[j].committing
    BY <1>4, <2>1, WithFlagIs DEF IInv, DropRuntime
  <2> QED
    BY <1>1, <1>4, <2>2, QuietStutters DEF DropRuntime
<1> QED
  BY <1>2, <1>3, <1>4

(* cancel: a queued job ends, a running one only gets its flag.              *)
LEMMA CancelRefines ==
    ASSUME IInv, Rows, NEW j \in Job, Cancel(j)
    PROVE  Rows' /\ Lifecycle!Next
<1>1. j \in Live /\ UNCHANGED <<state, issued, published>>
  BY DEF Cancel
<1>2. CASE records[j].status = "Queued" /\ FinishOne(j, "Canceled", "bsl", 0)
  <2>1. ~records[j].committing
    BY <1>1, <1>2 DEF IInv, Positions, ClaimHeld
  <2> QED
    BY <1>1, <1>2, <2>1, FinishOneRefines DEF Terminal
<1>3. CASE records' = WithFlag({j}, records) /\ UNCHANGED history
  <2>1. records = Remaining({})
    BY DEF IInv, Shape, Remaining, Live
  <2>2. /\ Live' = Live \ {}
        /\ \A i \in Live' : /\ records'[i].status = records[i].status
                            /\ records'[i].committing = records[i].committing
    BY <1>3, <2>1, WithFlagIs DEF IInv
  <2> QED
    BY <1>1, <1>3, <2>2, QuietStutters DEF Open
<1> QED
  BY <1>2, <1>3 DEF Cancel

(* claim_terminal: to publishing, or to canceled in a stopped runtime.       *)
LEMMA ClaimTerminalRefines ==
    ASSUME IInv, Rows, NEW j \in Job, ClaimTerminal(j)
    PROVE  Rows' /\ Lifecycle!Next
<1>1. drv[j] = "running" /\ UNCHANGED <<state, published, issued>>
  BY DEF ClaimTerminal
<1>2. j \in Live => ~records[j].committing /\ records[j].status = "Running"
  BY <1>1 DEF IInv, ClaimHeld, Positions
<1>3. CASE FinishOne(j, "Canceled", "infra", 0)
  BY <1>1, <1>2, <1>3, FinishOneRefines DEF Terminal
<1>4. CASE /\ Open /\ j \in Live /\ UNCHANGED history
           /\ records' = [records EXCEPT ![j].committing = TRUE]
  <2> DEFINE r == [records[j] EXCEPT !.committing = TRUE]
  <2>1. records[j] \in Record
    BY <1>4 DEF IInv, Shape
  <2>2. r \in Record /\ r.committing /\ records' = [records EXCEPT ![j] = r]
    BY <1>4, <2>1 DEF Record
  <2> HIDE DEF r
  <2>3. Live' = Live /\ records'[j] = r
    BY <1>4, <2>2, RecordUpdate
  <2>4. PhaseOf(j) = "running" /\ PhaseOf(j)' = "publishing"
    BY <1>2, <1>4, <2>2, <2>3 DEF PhaseOf
  <2>5. Moves(j)
    BY <1>4, <2>4 DEF Moves, Phases, Lifecycle!After, Lifecycle!Terminal
  <2> QED
    BY <1>1, <1>4, <2>2, <2>5, UpdateMoves
<1>5. CASE UNCHANGED <<records, history>>
  BY <1>1, <1>5, QuietStutters DEF Live, Open
<1> QED
  BY <1>3, <1>4, <1>5 DEF ClaimTerminal

(* finish_job, with the claim or without it.                                 *)
LEMMA FinishRefines ==
    ASSUME IInv, Rows, NEW j \in Job, FinishClaimed(j) \/ FinishUnclaimed(j)
    PROVE  Rows' /\ Lifecycle!Next
<1>1. UNCHANGED <<state, issued, published>>
  BY DEF FinishClaimed, FinishUnclaimed
<1>2. CASE drv[j] = "committed" /\ FinishOne(j, "Completed", "bsl", 0)
  <2>1. j \in published /\ (j \in Live => records[j].committing)
    BY <1>2 DEF IInv, Positions, ClaimHeld
  <2> QED
    BY <1>1, <1>2, <2>1, FinishOneRefines DEF Terminal
<1>3. ASSUME NEW why, NEW error, FinishOne(j, "Failed", why, error)
      PROVE  Rows' /\ Lifecycle!Next
  BY <1>1, <1>3, FinishOneRefines DEF Terminal
<1>4. CASE drv[j] = "running" /\ FinishOne(j, "Canceled", "infra", 0)
  <2>1. j \in Live => ~records[j].committing
    BY <1>4 DEF IInv, ClaimHeld
  <2> QED
    BY <1>1, <1>4, <2>1, FinishOneRefines DEF Terminal
<1> QED
  BY <1>2, <1>3, <1>4 DEF FinishClaimed, FinishUnclaimed

(* Saying and draining messages moves no job.                                *)
LEMMA MessageRefines ==
    ASSUME IInv, Rows, NEW j \in Job,
           TakeMessages(j) \/ \E m \in MessageBytes : PushMessage(j, m)
    PROVE  Rows' /\ Lifecycle!Next
<1>1. UNCHANGED <<state, history, issued, published>>
  BY DEF TakeMessages, PushMessage
<1>2. /\ Live' = Live
      /\ \A i \in Live : /\ records'[i].status = records[i].status
                         /\ records'[i].committing = records[i].committing
  <2>1. \A i \in Live : records[i] \in Record
    BY DEF IInv, Shape
  <2>2. CASE TakeMessages(j)
    <3>1. UNCHANGED records \/ (j \in Live /\ records' = [records EXCEPT ![j].messages = <<>>])
      BY <2>2 DEF TakeMessages
    <3> QED
      BY <2>1, <3>1 DEF Live, Record
  <2>3. ASSUME NEW m \in MessageBytes, PushMessage(j, m)
        PROVE  /\ Live' = Live
               /\ \A i \in Live : /\ records'[i].status = records[i].status
                                  /\ records'[i].committing = records[i].committing
    <3> DEFINE spoken == [records[j] EXCEPT !.messages = Append(@, m), !.spent = @ + m]
    <3>1. /\ j \in Live
          /\ records' = [records EXCEPT ![j] = spoken]
      BY <2>3 DEF PushMessage
    <3>2. spoken.status = records[j].status /\ spoken.committing = records[j].committing
      BY <2>1, <3>1 DEF Record
    <3> HIDE DEF spoken
    <3> QED
      BY <3>1, <3>2 DEF Live
  <2> QED
    BY <2>2, <2>3
<1> QED
  BY <1>1, <1>2, QuietStutters DEF Open

(* Every step of the registry is a step of the lifecycle or a stutter.       *)
LEMMA NextRefines ==
    ASSUME IInv, Rows, [Next]_vars
    PROVE  Rows' /\ [Lifecycle!Next]_(Lifecycle!vars)
<1>1. CASE CallerStep
  BY <1>1, SubmitRefines, CancelRefines, MessageRefines, StopRefines DEF CallerStep
<1>2. CASE PopFront \/ BootstrapDone \/ UNCHANGED vars
  <2>1. /\ UNCHANGED <<records, history, issued, published>>
        /\ Open' => Open
    BY <1>2 DEF PopFront, BootstrapDone, vars, registryVars, Open
  <2> QED
    BY <2>1, QuietStutters DEF Live
<1>3. ASSUME NEW j \in Job,
             \/ StartJob(j) \/ ClaimTerminal(j) \/ CommitStaged(j)
             \/ FinishClaimed(j) \/ FinishUnclaimed(j)
             \/ \E m \in MessageBytes : PushMessage(j, m)
      PROVE  Rows' /\ [Lifecycle!Next]_(Lifecycle!vars)
  BY <1>3, StartJobRefines, ClaimTerminalRefines, CommitStagedRefines, FinishRefines,
     MessageRefines
<1>4. CASE Break
  BY <1>4, StopRefines
<1> QED
  BY <1>1, <1>2, <1>3, <1>4 DEF Next, DriverStep

(* The empty registry is the initial state of the lifecycle.                 *)
LEMMA InitRefines == Init => Rows /\ Lifecycle!Init
<1> SUFFICES ASSUME Init PROVE Rows /\ Lifecycle!Init
  OBVIOUS
<1>1. DOMAIN history = {} /\ Live = {} /\ issued = {} /\ Open /\ published = {}
  BY EmptySeq DEF Init, Live, Open
<1>2. \A j \in Job : PhaseOf(j) = "new"
  BY <1>1 DEF PhaseOf, Kept
<1>3. Open = TRUE
  BY <1>1 DEF Open
<1> QED
  BY <1>1, <1>2, <1>3 DEF Rows, Unique, Lifecycle!Init

-----------------------------------------------------------------------------
(* The registry implements what the runtime promises about a job: it goes    *)
(* forward through its phases, is admitted and claimed only by a runtime     *)
(* that is open, completes only after its write-set is visible, and the      *)
(* write-set becomes visible only under the claim.                           *)
THEOREM RegistryRefinesLifecycle == Spec => ImplementsLifecycle
<1>1. Init => Rows /\ Lifecycle!Init
  BY InitRefines
<1>2. IInv /\ Rows /\ [Next]_vars => Rows' /\ [Lifecycle!Next]_(Lifecycle!vars)
  BY NextRefines
<1> QED
  BY <1>1, <1>2, Inductive, PTL DEF Spec, ImplementsLifecycle, Lifecycle!Spec

-----------------------------------------------------------------------------
(* Part 3: messages, through the drains of the live record, the hand-over to *)
(* the history, the drains of the history row and its eviction.              *)

(* The strengthening: types, and that a job has its messages in one place:   *)
(* the history keeps those of ended jobs only, and a fresh id has said       *)
(* nothing yet.                                                              *)
Boxes ==
    /\ said \in [Job -> Seq(MessageBytes)]
    /\ taken \in [Job -> Seq(MessageBytes)]
    /\ \A j \in DOMAIN historyMessages :
          j \in issued \ Live /\ historyMessages[j] \in Seq(MessageBytes)
    /\ \A j \in Job \ issued : said[j] = <<>> /\ taken[j] = <<>>

MInv == Boxes /\ MessagesOnce

(* Nothing is said or read; the jobs of D end and leave their messages.      *)
HandedOver(D) ==
    /\ D \subseteq Live /\ Live' = Live \ D
    /\ \A j \in Live' : records'[j].messages = records[j].messages
    /\ \A j \in DOMAIN historyMessages' :
          \/ j \in D /\ historyMessages'[j] = records[j].messages
          \/ /\ j \in DOMAIN historyMessages
             /\ historyMessages'[j] = historyMessages[j]
    /\ UNCHANGED <<issued, said, taken>>

(* Such a step keeps the messages in order.                                  *)
LEMMA HandedOverKeeps ==
    ASSUME IInv, MInv, NEW D, HandedOver(D)
    PROVE  MInv'
<1>1. /\ Live \subseteq issued
      /\ \A j \in Live : records[j].messages \in Seq(MessageBytes)
  BY DEF IInv, Shape, Record
<1>2. Boxes'
  BY <1>1 DEF HandedOver, MInv, Boxes
<1>3. MessagesOnce'
  BY <1>1 DEF HandedOver, MInv, Boxes, MessagesOnce
<1> QED
  BY <1>2, <1>3 DEF MInv

(* finish() moves the messages of the ended jobs into the history; what is   *)
(* evicted loses them.                                                       *)
LEMMA FinishMoves ==
    ASSUME NEW order, NEW st, NEW why, NEW error, Finish(order, st, why, error)
    PROVE  \A j \in DOMAIN historyMessages' :
              \/ j \in ToSet(order) /\ historyMessages'[j] = records[j].messages
              \/ /\ j \in DOMAIN historyMessages
                 /\ historyMessages'[j] = historyMessages[j]
<1> DEFINE done == ToSet(order)
<1>1. PICK gone : historyMessages' =
         [j \in (DOMAIN historyMessages \cup done) \ gone |->
            IF j \in done THEN records[j].messages ELSE historyMessages[j]]
  BY DEF Finish
<1> HIDE DEF done
<1>2. \A j \in DOMAIN historyMessages' :
         \/ j \in done /\ historyMessages'[j] = records[j].messages
         \/ /\ j \in DOMAIN historyMessages
            /\ historyMessages'[j] = historyMessages[j]
  BY <1>1
<1> QED
  BY <1>2 DEF done

(* One job ends, or is not there any more.                                   *)
LEMMA FinishOneMoves ==
    ASSUME IInv, MInv, NEW j \in Job, NEW st, NEW why, NEW error,
           FinishOne(j, st, why, error), UNCHANGED <<issued, said, taken>>
    PROVE  MInv'
<1>1. CASE j \in Live
  <2> DEFINE order == <<j>>
  <2>1. Finish(order, st, why, error) /\ records' = Remaining({j})
    BY <1>1 DEF FinishOne
  <2>2. ToSet(order) = {j}
    BY DEF ToSet
  <2> HIDE DEF order
  <2>3. Live' = Live \ {j} /\ \A i \in Live' : records'[i] = records[i]
    BY <2>1, RemainingIs DEF IInv
  <2>4. \A i \in DOMAIN historyMessages' :
           \/ i \in {j} /\ historyMessages'[i] = records[i].messages
           \/ /\ i \in DOMAIN historyMessages
              /\ historyMessages'[i] = historyMessages[i]
    BY <2>1, <2>2, FinishMoves
  <2>5. HandedOver({j})
    BY <1>1, <2>3, <2>4 DEF HandedOver
  <2> QED
    BY <2>5, HandedOverKeeps
<1>2. CASE j \notin Live
  <2>1. HandedOver({})
    BY <1>2 DEF FinishOne, HandedOver, Live
  <2> QED
    BY <2>1, HandedOverKeeps
<1> QED
  BY <1>1, <1>2

(* Setting flags leaves the messages alone.                                  *)
LEMMA FlagsKeepMessages ==
    ASSUME Shape, NEW S, NEW D, records' = WithFlag(S, Remaining(D))
    PROVE  /\ Live' = Live \ D
           /\ \A j \in Live' : records'[j].messages = records[j].messages
<1> DEFINE f == Remaining(D)
<1>1. /\ DOMAIN f = Live \ D
      /\ \A j \in DOMAIN f : f[j] = records[j] /\ records[j] \in Record
  BY DEF Remaining, Shape
<1>2. records' = [j \in DOMAIN f |->
                    IF j \in S THEN [f[j] EXCEPT !.cancel = TRUE] ELSE f[j]]
  BY DEF WithFlag
<1> HIDE DEF f
<1>3. Live' = Live \ D
  BY <1>1, <1>2 DEF Live
<1>4. \A j \in Live \ D : records'[j].messages = records[j].messages
  BY <1>1, <1>2 DEF Record
<1> QED
  BY <1>3, <1>4

-----------------------------------------------------------------------------
(* One lemma per group of actions.                                           *)

(* A message is appended to what was said and to the live record alike.      *)
LEMMA PushMessageMoves ==
    ASSUME IInv, MInv, NEW j \in Job, NEW m \in MessageBytes, PushMessage(j, m)
    PROVE  MInv'
<1> DEFINE rest == records[j].messages
           spoken == [records[j] EXCEPT !.messages = Append(@, m), !.spent = @ + m]
<1>1. /\ j \in Live /\ j \in issued
      /\ records' = [records EXCEPT ![j] = spoken]
      /\ said' = [said EXCEPT ![j] = Append(@, m)]
      /\ UNCHANGED <<historyMessages, issued, taken>>
  BY DEF PushMessage, IInv, Shape
<1>2. records[j] \in Record
  BY <1>1 DEF IInv, Shape
<1>3. spoken.messages = Append(rest, m)
  BY <1>2 DEF Record
<1>4. rest \in Seq(MessageBytes)
  BY <1>2 DEF Record
<1>5. said[j] = taken[j] \o rest
  BY <1>1 DEF MInv, MessagesOnce
<1> HIDE DEF spoken, rest
<1>6. /\ Live' = Live
      /\ records'[j] = spoken
      /\ \A i \in Live : i # j => records'[i] = records[i]
  BY <1>1 DEF Live
<1>7. /\ said \in [Job -> Seq(MessageBytes)]
      /\ taken \in [Job -> Seq(MessageBytes)]
      /\ said[j] \in Seq(MessageBytes) /\ taken[j] \in Seq(MessageBytes)
  BY DEF MInv, Boxes
<1> DEFINE one == <<m>>
<1>8. /\ Append(said[j], m) = said[j] \o one
      /\ Append(rest, m) = rest \o one
  BY <1>4, <1>7, AppendIsConcat
<1>9. one \in Seq(MessageBytes)
  OBVIOUS
<1> HIDE DEF one
<1>10. (taken[j] \o rest) \o one = taken[j] \o (rest \o one)
  BY <1>4, <1>7, <1>9, ConcatAssociative
<1>11. said'[j] = said[j] \o one /\ \A i \in Job \ {j} : said'[i] = said[i]
  BY <1>1, <1>7, <1>8
<1>12. said'[j] = taken[j] \o records'[j].messages
  BY <1>3, <1>5, <1>6, <1>8, <1>10, <1>11
<1>13. said' \in [Job -> Seq(MessageBytes)]
  BY <1>1, <1>7, AppendProperties
<1>14. Boxes'
  BY <1>1, <1>6, <1>7, <1>11, <1>13 DEF MInv, Boxes
<1>15. j \notin DOMAIN historyMessages
  BY <1>1 DEF MInv, Boxes
<1>16. MessagesOnce'
  BY <1>1, <1>6, <1>11, <1>12, <1>15 DEF MInv, MessagesOnce
<1> QED
  BY <1>14, <1>16 DEF MInv

(* A drain moves what is left to the reader, from either place.              *)
LEMMA TakeMessagesMoves ==
    ASSUME IInv, MInv, NEW j \in Job, TakeMessages(j)
    PROVE  MInv'
<1> DEFINE none == <<>>
<1>1. /\ said \in [Job -> Seq(MessageBytes)]
      /\ taken \in [Job -> Seq(MessageBytes)]
      /\ said[j] \in Seq(MessageBytes) /\ taken[j] \in Seq(MessageBytes)
      /\ UNCHANGED <<issued, said>>
      /\ Live \subseteq issued
  BY DEF MInv, Boxes, TakeMessages, IInv, Shape
<1>2. none \in Seq(MessageBytes)
  OBVIOUS
<1>3. CASE /\ j \in Live /\ UNCHANGED historyMessages
           /\ taken' = [taken EXCEPT ![j] = @ \o records[j].messages]
           /\ records' = [records EXCEPT ![j].messages = <<>>]
  <2> DEFINE rest == records[j].messages
             drained == [records[j] EXCEPT !.messages = <<>>]
  <2>1. records[j] \in Record
    BY <1>3 DEF IInv, Shape
  <2>2. drained.messages = none /\ rest \in Seq(MessageBytes)
    BY <2>1 DEF Record
  <2>3. records' = [records EXCEPT ![j] = drained] /\ said[j] = taken[j] \o rest
    BY <1>3 DEF MInv, MessagesOnce
  <2> HIDE DEF drained, rest, none
  <2>4. /\ Live' = Live
        /\ records'[j] = drained
        /\ \A i \in Live : i # j => records'[i] = records[i]
    BY <1>3, <2>3 DEF Live
  <2>5. taken'[j] = taken[j] \o rest /\ \A i \in Job \ {j} : taken'[i] = taken[i]
    BY <1>1, <1>3 DEF rest
  <2>6. taken[j] \o rest \in Seq(MessageBytes)
    BY <1>1, <2>2, ConcatProperties
  <2>7. taken' \in [Job -> Seq(MessageBytes)]
    BY <1>1, <1>3, <2>6 DEF rest
  <2>8. said'[j] = taken'[j] \o records'[j].messages
    <3>1. said[j] \o none = said[j]
      BY <1>1, ConcatEmptySeq DEF none
    <3> QED
      BY <1>1, <2>2, <2>3, <2>4, <2>5, <3>1
  <2>9. Boxes'
    BY <1>1, <1>3, <2>4, <2>5, <2>7 DEF MInv, Boxes
  <2>10. j \notin DOMAIN historyMessages
    BY <1>3 DEF MInv, Boxes
  <2>11. MessagesOnce'
    BY <1>1, <1>3, <2>4, <2>5, <2>8, <2>10 DEF MInv, MessagesOnce
  <2> QED
    BY <2>9, <2>11 DEF MInv
<1>4. CASE /\ j \notin Live /\ j \in DOMAIN historyMessages /\ UNCHANGED records
           /\ taken' = [taken EXCEPT ![j] = @ \o historyMessages[j]]
           /\ historyMessages' = [historyMessages EXCEPT ![j] = <<>>]
  <2> DEFINE rest == historyMessages[j]
  <2>1. /\ rest \in Seq(MessageBytes) /\ said[j] = taken[j] \o rest
        /\ j \in issued
    BY <1>4 DEF MInv, Boxes, MessagesOnce
  <2>2. /\ DOMAIN historyMessages' = DOMAIN historyMessages
        /\ historyMessages'[j] = none
        /\ \A i \in DOMAIN historyMessages :
              i # j => historyMessages'[i] = historyMessages[i]
    BY <1>4
  <2> HIDE DEF rest, none
  <2>3. taken'[j] = taken[j] \o rest /\ \A i \in Job \ {j} : taken'[i] = taken[i]
    BY <1>1, <1>4 DEF rest
  <2>4. taken[j] \o rest \in Seq(MessageBytes)
    BY <1>1, <2>1, ConcatProperties
  <2>5. taken' \in [Job -> Seq(MessageBytes)]
    BY <1>1, <1>4, <2>4 DEF rest
  <2>6. said'[j] = taken'[j] \o historyMessages'[j]
    <3>1. said[j] \o none = said[j]
      BY <1>1, ConcatEmptySeq DEF none
    <3> QED
      BY <1>1, <2>1, <2>2, <2>3, <3>1
  <2>7. Live' = Live
    BY <1>4 DEF Live
  <2>8. Boxes'
    BY <1>1, <1>2, <2>1, <2>2, <2>3, <2>5, <2>7 DEF MInv, Boxes
  <2>9. MessagesOnce'
    BY <1>1, <1>4, <2>2, <2>3, <2>6, <2>7 DEF MInv, MessagesOnce
  <2> QED
    BY <2>8, <2>9 DEF MInv
<1> QED
  BY <1>3, <1>4 DEF TakeMessages

(* A new job has said nothing and nothing of it was read.                    *)
LEMMA SubmitMoves ==
    ASSUME IInv, MInv, NEW j \in Job, NEW k \in Key \cup {NoKey},
           NEW b \in ParamBytes, Submit(j, k, b)
    PROVE  MInv'
<1> DEFINE none == <<>>
<1>1. /\ j \in Job \ issued /\ issued' = issued \cup {j}
      /\ UNCHANGED <<historyMessages, said, taken>>
      /\ Live' = Live \cup {j}
      /\ records'[j].messages = none
      /\ \A i \in Live : i # j => records'[i] = records[i]
  BY DEF Submit, Live
<1>2. Live \subseteq issued /\ j \notin Live
  BY <1>1 DEF IInv, Shape
<1>3. said[j] = none /\ taken[j] = none /\ none \in Seq(MessageBytes)
  BY <1>1 DEF MInv, Boxes
<1>4. none \o none = none
  BY <1>3, ConcatEmptySeq
<1>5. j \notin DOMAIN historyMessages
  BY <1>1 DEF MInv, Boxes
<1> HIDE DEF none
<1>6. Boxes'
  BY <1>1, <1>5 DEF MInv, Boxes
<1>7. MessagesOnce'
  BY <1>1, <1>2, <1>3, <1>4, <1>5 DEF MInv, MessagesOnce
<1> QED
  BY <1>6, <1>7 DEF MInv

(* Cancelling a queued job hands its messages over, a running one keeps them. *)
LEMMA CancelMoves ==
    ASSUME IInv, MInv, NEW j \in Job, Cancel(j)
    PROVE  MInv'
<1>1. j \in Live /\ UNCHANGED <<issued, said, taken>>
  BY DEF Cancel
<1>2. CASE FinishOne(j, "Canceled", "bsl", 0)
  BY <1>1, <1>2, FinishOneMoves
<1>3. CASE records' = WithFlag({j}, records) /\ UNCHANGED historyMessages
  <2>1. records = Remaining({})
    BY DEF IInv, Shape, Remaining, Live
  <2>2. /\ Live' = Live \ {}
        /\ \A i \in Live' : records'[i].messages = records[i].messages
    BY <1>3, <2>1, FlagsKeepMessages DEF IInv
  <2>3. HandedOver({})
    BY <1>1, <1>3, <2>2 DEF HandedOver
  <2> QED
    BY <2>3, HandedOverKeeps
<1> QED
  BY <1>2, <1>3 DEF Cancel

(* The three ways in which the whole runtime stops.                          *)
LEMMA StopMoves ==
    ASSUME IInv, MInv, Shutdown \/ DropRuntime \/ Break
    PROVE  MInv'
<1>1. UNCHANGED <<issued, said, taken>>
  BY DEF Shutdown, DropRuntime, Break
<1>2. CASE Shutdown
  <2> DEFINE queued == {j \in Live : records[j].status = "Queued"}
  <2>1. PICK order \in SetToSeqs(queued) :
           /\ Finish(order, "Canceled", "bsl", 0)
           /\ records' = WithFlag(Live, Remaining(queued))
    BY <1>2 DEF Shutdown
  <2>2. queued \subseteq Live
    OBVIOUS
  <2> HIDE DEF queued
  <2>3. /\ Live' = Live \ queued
        /\ \A j \in Live' : records'[j].messages = records[j].messages
    BY <2>1, FlagsKeepMessages DEF IInv
  <2>4. ToSet(order) = queued
    BY <2>1, <2>2, OrderIs DEF IInv
  <2>5. HandedOver(queued)
    BY <1>1, <2>1, <2>2, <2>3, <2>4, FinishMoves DEF HandedOver
  <2> QED
    BY <2>5, HandedOverKeeps
<1>3. CASE Break
  <2> DEFINE unclaimed == {j \in Live : ~records[j].committing}
  <2>1. PICK order \in SetToSeqs(unclaimed), error \in ErrorBytes :
           /\ Finish(order, "Failed", "infra", error)
           /\ records' = Remaining(unclaimed)
    BY <1>3 DEF Break
  <2>2. unclaimed \subseteq Live
    OBVIOUS
  <2> HIDE DEF unclaimed
  <2>3. Live' = Live \ unclaimed /\ \A j \in Live' : records'[j] = records[j]
    BY <2>1, RemainingIs DEF IInv
  <2>4. ToSet(order) = unclaimed
    BY <2>1, <2>2, OrderIs DEF IInv
  <2>5. HandedOver(unclaimed)
    BY <1>1, <2>1, <2>2, <2>3, <2>4, FinishMoves DEF HandedOver
  <2> QED
    BY <2>5, HandedOverKeeps
<1>4. CASE DropRuntime
  <2>1. records = Remaining({})
    BY DEF IInv, Shape, Remaining, Live
  <2>2. /\ Live' = Live \ {}
        /\ \A i \in Live' : records'[i].messages = records[i].messages
    BY <1>4, <2>1, FlagsKeepMessages DEF IInv, DropRuntime
  <2>3. HandedOver({})
    BY <1>1, <1>4, <2>2 DEF HandedOver, DropRuntime
  <2> QED
    BY <2>3, HandedOverKeeps
<1> QED
  BY <1>2, <1>3, <1>4

(* Starting, claiming and committing a job change no message.                *)
LEMMA DriverMoves ==
    ASSUME IInv, MInv, NEW j \in Job,
           StartJob(j) \/ ClaimTerminal(j) \/ CommitStaged(j)
    PROVE  MInv'
<1>1. UNCHANGED <<issued, said, taken>>
  BY DEF StartJob, ClaimTerminal, CommitStaged
<1>2. CASE FinishOne(j, "Canceled", "infra", 0)
  BY <1>1, <1>2, FinishOneMoves
<1>3. CASE /\ \/ UNCHANGED records
              \/ /\ j \in Live
                 /\ \/ records' = [records EXCEPT ![j].status = "Running"]
                    \/ records' = [records EXCEPT ![j].committing = TRUE]
           /\ UNCHANGED historyMessages
  <2>1. \A i \in Live : records[i] \in Record
    BY DEF IInv, Shape
  <2>2. ASSUME UNCHANGED records
        PROVE  /\ Live' = Live
               /\ \A i \in Live : records'[i].messages = records[i].messages
    BY <2>2 DEF Live
  <2>3. ASSUME NEW r, r.messages = records[j].messages, j \in Live,
               records' = [records EXCEPT ![j] = r]
        PROVE  /\ Live' = Live
               /\ \A i \in Live : records'[i].messages = records[i].messages
    BY <2>3 DEF Live
  <2>4. j \in Live =>
           /\ [records[j] EXCEPT !.status = "Running"].messages = records[j].messages
           /\ [records[j] EXCEPT !.committing = TRUE].messages = records[j].messages
    BY <2>1 DEF Record
  <2>5. /\ Live' = Live
        /\ \A i \in Live : records'[i].messages = records[i].messages
    BY <1>3, <2>2, <2>3, <2>4
  <2>6. HandedOver({})
    BY <1>1, <1>3, <2>5 DEF HandedOver
  <2> QED
    BY <2>6, HandedOverKeeps
<1> QED
  BY <1>2, <1>3 DEF StartJob, ClaimTerminal, CommitStaged, registryVars

(* Ending a job, claimed or not, hands its messages over.                    *)
LEMMA FinishStepMoves ==
    ASSUME IInv, MInv, NEW j \in Job, FinishClaimed(j) \/ FinishUnclaimed(j)
    PROVE  MInv'
<1>1. UNCHANGED <<issued, said, taken>>
  BY DEF FinishClaimed, FinishUnclaimed
<1>2. \E st, why, error : FinishOne(j, st, why, error)
  BY DEF FinishClaimed, FinishUnclaimed
<1> QED
  BY <1>1, <1>2, FinishOneMoves

(* Every step of the registry keeps the messages in order.                   *)
LEMMA NextMInv == IInv /\ MInv /\ [Next]_vars => MInv'
<1> SUFFICES ASSUME IInv, MInv, [Next]_vars PROVE MInv'
  OBVIOUS
<1>1. CASE CallerStep
  BY <1>1, SubmitMoves, CancelMoves, TakeMessagesMoves, StopMoves DEF CallerStep
<1>2. CASE PopFront \/ BootstrapDone \/ UNCHANGED vars
  <2>1. UNCHANGED <<records, historyMessages, issued, said, taken>>
    BY <1>2 DEF PopFront, BootstrapDone, vars, registryVars
  <2>2. HandedOver({})
    BY <2>1 DEF HandedOver, Live
  <2> QED
    BY <2>2, HandedOverKeeps
<1>3. ASSUME NEW j \in Job,
             \/ StartJob(j) \/ ClaimTerminal(j) \/ CommitStaged(j)
             \/ FinishClaimed(j) \/ FinishUnclaimed(j)
             \/ \E m \in MessageBytes : PushMessage(j, m)
      PROVE  MInv'
  BY <1>3, DriverMoves, FinishStepMoves, PushMessageMoves
<1>4. CASE Break
  BY <1>4, StopMoves
<1> QED
  BY <1>1, <1>2, <1>3, <1>4 DEF Next, DriverStep

(* The empty registry has nothing to deliver.                                *)
LEMMA InitMInv == Init => MInv
<1> SUFFICES ASSUME Init PROVE MInv
  OBVIOUS
<1>1. Live = {} /\ DOMAIN historyMessages = {} /\ issued = {}
  BY DEF Init, Live
<1>2. Boxes
  BY <1>1 DEF Init, Boxes
<1> QED
  BY <1>1, <1>2 DEF MInv, MessagesOnce

-----------------------------------------------------------------------------
(* A reader that drains the messages of a job gets every message once and in *)
(* order: what was said is what was taken followed by what is still kept,    *)
(* in the live record or in the history, whenever and however the job ends.  *)
THEOREM MessagesArriveOnce == Spec => []MessagesOnce
<1>1. MInv => MessagesOnce
  BY DEF MInv
<1> QED
  BY <1>1, InitMInv, NextMInv, Inductive, PTL DEF Spec

-----------------------------------------------------------------------------
(* Part 4: the books.  Sums over rows and messages.                          *)

Indices(s) == DOMAIN s
Sizes(rows) == [i \in Indices(rows) |-> rows[i].bytes]

(* The sum over rows is a natural number and no row is bigger.               *)
LEMMA BytesIs ==
    ASSUME NEW rows \in Seq(Row)
    PROVE  /\ Bytes(rows) \in Nat
           /\ Len(rows) = 0 => Bytes(rows) = 0
           /\ Sizes(rows) \in [Indices(rows) -> Int]
           /\ IsFiniteSet(Indices(rows))
           /\ UpTo(Indices(rows), Len(rows))
           /\ Bytes(rows) = SumFunction(Sizes(rows))
<1>1. Len(rows) \in Nat /\ DOMAIN rows = 1..Len(rows)
  BY LenProperties
<1>2. \A i \in DOMAIN rows : rows[i] \in Row
  BY <1>1, ElementOfSeq
<1>3. UpTo(Indices(rows), Len(rows)) /\ IsFiniteSet(Indices(rows))
  BY <1>1, FS_Interval DEF UpTo, Indices
<1>4. Sizes(rows) \in [Indices(rows) -> Nat]
  BY <1>2 DEF Sizes, Indices, Row
<1>5. Sizes(rows) \in [Indices(rows) -> Int]
  BY <1>4
<1>6. Bytes(rows) = SumFunction(Sizes(rows))
  BY DEF Bytes, Sizes, Indices
<1>7. SumFunction(Sizes(rows)) \in Nat
  BY ONLY <1>3, <1>4, SumIsNat
<1>8. Len(rows) = 0 => SumFunction(Sizes(rows)) = 0
  <2>1. Len(rows) = 0 => DOMAIN Sizes(rows) = {}
    BY <1>1 DEF Sizes, Indices
  <2> QED
    BY <2>1, SumOfNone
<1> QED
  BY <1>3, <1>5, <1>6, <1>7, <1>8

(* Rows one after the other.                                                 *)
LEMMA BytesOfConcat ==
    ASSUME NEW s \in Seq(Row), NEW t \in Seq(Row)
    PROVE  Bytes(s \o t) = Bytes(s) + Bytes(t)
<1> DEFINE c == s \o t
           m == Len(s)
           n == Len(t)
<1>1. /\ c \in Seq(Row) /\ Len(c) = m + n
      /\ \A i \in 1..(m + n) : c[i] = IF i <= m THEN s[i] ELSE t[i - m]
      /\ m \in Nat /\ n \in Nat
  BY ConcatProperties, LenProperties
<1>2. DOMAIN c = 1..(m + n) /\ DOMAIN s = 1..m /\ DOMAIN t = 1..n
  BY <1>1, LenProperties
<1> HIDE DEF c, m, n
<1>3. \A i \in DOMAIN s : c[i] = s[i] /\ i \in DOMAIN c
  BY <1>1, <1>2
<1>4. \A i \in DOMAIN t : c[m + i] = t[i] /\ m + i \in DOMAIN c
  BY <1>1, <1>2
<1>5. /\ \A i \in Indices(s) : Sizes(c)[i] = Sizes(s)[i]
      /\ \A i \in Indices(t) : Sizes(c)[m + i] = Sizes(t)[i]
  BY <1>3, <1>4 DEF Sizes, Indices
<1>6. /\ UpTo(Indices(s), m) /\ UpTo(Indices(t), n) /\ UpTo(Indices(c), m + n)
      /\ Sizes(s) \in [Indices(s) -> Int] /\ Sizes(t) \in [Indices(t) -> Int]
      /\ Sizes(c) \in [Indices(c) -> Int]
  BY <1>1, BytesIs DEF m, n
<1>8. Concatenated(Sizes(c), Indices(c), Sizes(s), Indices(s), m, Sizes(t), Indices(t), n)
  BY <1>1, <1>5, <1>6 DEF Concatenated, UpTo
<1>7. SumFunction(Sizes(c)) = SumFunction(Sizes(s)) + SumFunction(Sizes(t))
  BY <1>8, SumConcat
<1> QED
  BY <1>1, <1>7, BytesIs DEF c

(* The rows that are left after the first n are gone.                        *)
LEMMA BytesOfRest ==
    ASSUME NEW rows \in Seq(Row), NEW n \in 0..Len(rows)
    PROVE  /\ Bytes(SubSeq(rows, n + 1, Len(rows)))
                = Bytes(rows) - Bytes(SubSeq(rows, 1, n))
           /\ n > 0 => Bytes(SubSeq(rows, 1, n))
                          = Bytes(SubSeq(rows, 1, n - 1)) + rows[n].bytes
<1> DEFINE a == SubSeq(rows, 1, n)
           b == SubSeq(rows, n + 1, Len(rows))
<1>1. /\ a \in Seq(Row) /\ b \in Seq(Row) /\ rows = a \o b /\ Len(a) = n
      /\ \A i \in 1..n : a[i] = rows[i]
  <2> HIDE DEF a, b
  <2>1. Cut(rows, n, a, b)
    BY DEF a, b, Cut
  <2> QED
    BY <2>1, CutIs
<1> HIDE DEF a, b
<1>2. Bytes(rows) = Bytes(a) + Bytes(b)
  BY <1>1, BytesOfConcat
<1>3. Bytes(a) \in Nat /\ Bytes(b) \in Nat
  BY <1>1, BytesIs
<1>4. ASSUME n > 0
      PROVE  Bytes(a) = Bytes(SubSeq(rows, 1, n - 1)) + rows[n].bytes
  <2> DEFINE m == n - 1
             c == SubSeq(rows, 1, m)
  <2>1. m \in 0..Len(rows) /\ n \in Nat /\ m \in Nat /\ n \in 1..n
    BY <1>4, LenProperties
  <2>2. c \in Seq(Row) /\ Len(c) = m /\ \A i \in 1..m : c[i] = rows[i]
    <3>1. Cut(rows, m, c, SubSeq(rows, m + 1, Len(rows)))
      BY <2>1 DEF Cut
    <3> HIDE DEF c, m
    <3> QED
      BY <3>1, CutIs
  <2>3. \A i \in 1..m : c[i] = a[i]
    BY <1>1, <2>1, <2>2
  <2> HIDE DEF c
  <2>4. /\ UpTo(Indices(c), m) /\ UpTo(Indices(a), m + 1)
        /\ Sizes(c) \in [Indices(c) -> Int] /\ Sizes(a) \in [Indices(a) -> Int]
    <3>1. m + 1 = n
      BY <2>1
    <3> QED
      BY <1>1, <2>2, <3>1, BytesIs
  <2>5. /\ \A i \in Indices(c) : Sizes(a)[i] = Sizes(c)[i]
        /\ Sizes(a)[m + 1] = rows[n].bytes
    <3>1. Indices(c) = 1..m /\ Indices(a) = 1..n /\ m + 1 = n
      BY <2>1, <2>4 DEF UpTo
    <3> QED
      BY <1>1, <2>1, <2>3, <3>1 DEF Sizes
  <2> HIDE DEF m
  <2>6. SumFunction(Sizes(a)) = SumFunction(Sizes(c)) + Sizes(a)[m + 1]
    BY ONLY <2>4, <2>5, SumAppended
  <2> QED
    BY <1>1, <2>2, <2>5, <2>6, BytesIs DEF c, m
<1> QED
  BY <1>2, <1>3, <1>4 DEF a, b

(* What messages weigh together.                                             *)
LEMMA TotalIs ==
    ASSUME NEW s \in Seq(MessageBytes)
    PROVE  /\ Total(s) \in Nat
           /\ Len(s) = 0 => Total(s) = 0
           /\ \A m \in MessageBytes : Total(Append(s, m)) = Total(s) + m
<1>1. \A t \in Seq(MessageBytes) : UpTo(Indices(t), Len(t)) /\ IsFiniteSet(Indices(t))
  BY LenProperties, FS_Interval DEF UpTo, Indices
<1>2. MessageBytes \subseteq Nat
  BY ConfigAssumption
<1>3. \A t \in Seq(MessageBytes) : t \in [Indices(t) -> Nat] /\ t \in [Indices(t) -> Int]
  <2> TAKE t \in Seq(MessageBytes)
  <2>1. t \in [1..Len(t) -> MessageBytes] /\ DOMAIN t = 1..Len(t)
    BY LenProperties
  <2> QED
    BY <1>2, <2>1 DEF Indices
<1>4. SumFunction(s) \in Nat
  BY ONLY <1>1, <1>3, s \in Seq(MessageBytes), SumIsNat
<1>5. Len(s) = 0 => SumFunction(s) = 0
  <2>1. Len(s) = 0 => DOMAIN s = {}
    BY LenProperties
  <2> QED
    BY <2>1, SumOfNone
<1>6. ASSUME NEW m \in MessageBytes
      PROVE  SumFunction(Append(s, m)) = SumFunction(s) + m
  <2> DEFINE t == Append(s, m)
             n == Len(s)
  <2>1. /\ t \in Seq(MessageBytes) /\ Len(t) = n + 1 /\ n \in Nat
        /\ \A i \in 1..n : t[i] = s[i]
        /\ t[n + 1] = m
    BY AppendProperties, LenProperties
  <2> HIDE DEF t, n
  <2>2. UpTo(Indices(s), n) /\ UpTo(Indices(t), n + 1)
    BY <1>1, <2>1 DEF n
  <2>3. \A i \in Indices(s) : t[i] = s[i]
    BY <2>1, <2>2 DEF UpTo
  <2>4. s \in [Indices(s) -> Int] /\ t \in [Indices(t) -> Int]
    BY <1>3, <2>1
  <2>5. SumFunction(t) = SumFunction(s) + t[n + 1]
    BY ONLY <2>2, <2>3, <2>4, SumAppended
  <2> QED
    BY <2>1, <2>5 DEF t
<1> QED
  BY <1>4, <1>5, <1>6 DEF Total

-----------------------------------------------------------------------------
(* The live jobs and the admission counters.                                 *)

(* Each job keeps room for its error and its messages, and says no more than *)
(* it may.                                                                   *)
Roomy(r) ==
    /\ r.base + MaxError + MaxMessage <= MaxSingle
    /\ Total(r.messages) <= r.spent
    /\ r.spent <= MaxMessage

Admitted ==
    /\ inflight = Cardinality(Live) /\ inflight <= MaxInflight
    /\ liveBytes = BaseOf(Live) /\ liveBytes <= MaxLiveBytes
    /\ \A j \in Live : Roomy(records[j])

Bases == [j \in Live |-> records[j].base]

(* The bytes of some live jobs.                                              *)
LEMMA BasesAre ==
    ASSUME IInv
    PROVE  /\ IsFiniteSet(Live) /\ Bases \in [Live -> Int]
           /\ \A D \in SUBSET Live : BaseOf(D) \in Nat
           /\ BaseOf(Live) = SumFunction(Bases)
           /\ Cardinality(Live) \in Nat
<1>1. IsFiniteSet(Live)
  BY FS_Subset DEF IInv, Shape, Fresh
<1>2. \A j \in Live : records[j].base \in Nat
  BY DEF IInv, Shape, Record
<1>3. ASSUME NEW D \in SUBSET Live
      PROVE  BaseOf(D) \in Nat
  <2> DEFINE w == [j \in D |-> records[j].base]
  <2>1. w \in [D -> Nat] /\ IsFiniteSet(D)
    BY <1>1, <1>2, FS_Subset
  <2> HIDE DEF w
  <2>2. SumFunction(w) \in Nat
    BY ONLY <2>1, SumIsNat
  <2> QED
    BY <2>2 DEF w, BaseOf
<1>4. Bases \in [Live -> Int]
  BY <1>2 DEF Bases
<1> QED
  BY <1>1, <1>3, <1>4, FS_CardinalityType DEF BaseOf, Bases

(* The jobs of D end and give back what admission took for them; the others  *)
(* keep their room.                                                          *)
GivenBack(D) ==
    /\ D \subseteq Live /\ Live' = Live \ D
    /\ \A j \in Live' : records'[j].base = records[j].base /\ Roomy(records'[j])
    /\ inflight' = inflight - Cardinality(D)
    /\ liveBytes' = liveBytes - BaseOf(D)

(* The counters stay exact and within their limits.                          *)
LEMMA GivenBackKeeps ==
    ASSUME IInv, Admitted, NEW D, GivenBack(D)
    PROVE  Admitted'
<1> DEFINE u == [j \in D |-> records[j].base]
           v == [j \in Live \ D |-> records[j].base]
           l == liveBytes
           lp == liveBytes'
           bd == BaseOf(D)
           bp == BaseOf(Live)'
           n == Cardinality(Live)
           nd == Cardinality(D)
           np == Cardinality(Live')
<1>1. IsFiniteSet(Live) /\ Bases \in [Live -> Int] /\ D \subseteq Live /\ Live' = Live \ D
  BY BasesAre DEF GivenBack
<1>2. /\ u \in [D -> Int] /\ v \in [Live \ D -> Int]
      /\ \A j \in D : u[j] = Bases[j]
      /\ \A j \in Live \ D : v[j] = Bases[j]
  BY <1>1 DEF Bases, IInv, Shape, Record
<1>3. bd = SumFunction(u)
  BY DEF BaseOf
<1>4. bp = SumFunction(v)
  <2>1. [j \in Live' |-> records'[j].base] = v
    BY <1>1 DEF GivenBack
  <2> QED
    BY <2>1 DEF BaseOf
<1>5. l = SumFunction(Bases) /\ l \in Nat /\ bd \in Nat
  BY <1>1, BasesAre DEF Admitted
<1> HIDE DEF u, v
<1>6. SumFunction(Bases) = SumFunction(u) + SumFunction(v)
  <2>1. SplitAt(Bases, Live, D, u, v)
    BY <1>1, <1>2 DEF SplitAt
  <2> QED
    BY <2>1, SumSplit
<1>7. SumFunction(v) \in Int
  <2>1. IsFiniteSet(Live \ D)
    BY <1>1, FS_Subset
  <2> QED
    BY ONLY <1>2, <2>1, SumIsInt
<1>8. bp \in Nat
  <2>1. \A j \in Live' : records'[j].base \in Nat
    BY <1>1 DEF GivenBack, IInv, Shape, Record
  <2>2. PICK w : w = [j \in Live' |-> records'[j].base]
    OBVIOUS
  <2>3. PICK L : L = Live'
    OBVIOUS
  <2>4. w \in [L -> Nat] /\ IsFiniteSet(L)
    BY <1>1, <2>1, <2>2, <2>3, FS_Subset
  <2>5. SumFunction(w) \in Nat
    BY ONLY <2>4, SumIsNat
  <2> QED
    BY <2>2, <2>5 DEF BaseOf
<1>9. lp = bp /\ lp <= MaxLiveBytes
  <2>1. l = bd + bp /\ lp = l - bd /\ l <= MaxLiveBytes /\ MaxLiveBytes \in Nat
    BY <1>3, <1>4, <1>5, <1>6, ConfigAssumption DEF GivenBack, Admitted
  <2> HIDE DEF l, lp, bd, bp
  <2> QED
    BY <1>5, <1>8, <2>1
<1>10. np = n - nd /\ nd \in Nat /\ n \in Nat /\ np \in Nat
  <2>1. IsFiniteSet(D) /\ IsFiniteSet(Live \ D) /\ Live \cap D = D
    BY <1>1, FS_Subset
  <2>2. Cardinality(Live \ D) = Cardinality(Live) - Cardinality(Live \cap D)
    BY <1>1, FS_Difference
  <2> QED
    BY <1>1, <2>1, <2>2, FS_CardinalityType
<1>11. inflight' = np /\ inflight' <= MaxInflight
  <2>1. /\ inflight = n /\ inflight <= MaxInflight /\ MaxInflight \in Nat
        /\ inflight' = inflight - nd
    BY ConfigAssumption DEF GivenBack, Admitted
  <2> HIDE DEF n, nd, np
  <2> QED
    BY <1>10, <2>1
<1>12. \A j \in Live' : Roomy(records'[j])
  BY DEF GivenBack
<1>13. \A j \in Live' : Roomy(records[j])'
  BY <1>12 DEF Roomy
<1> QED
  BY <1>9, <1>11, <1>13 DEF Admitted

(* A step that leaves the counters and the bases alone.                      *)
LEMMA QuietAdmitted ==
    ASSUME IInv, Admitted, Live' = Live, UNCHANGED <<inflight, liveBytes>>,
           \A j \in Live : records'[j].base = records[j].base /\ Roomy(records'[j])
    PROVE  Admitted'
<1>1. Cardinality({}) = 0
  BY FS_EmptySet
<1>2. BaseOf({}) = 0
  BY SumOfNone DEF BaseOf
<1>3. inflight \in Nat /\ liveBytes \in Nat
  BY BasesAre DEF Admitted
<1>4. GivenBack({})
  BY <1>1, <1>2, <1>3 DEF GivenBack
<1> QED
  BY <1>4, GivenBackKeeps

(* The count of an order of jobs that names none twice.                      *)
LEMMA OrderCounts ==
    ASSUME NEW order \in Seq(Job), \A i, k \in DOMAIN order : order[i] = order[k] => i = k
    PROVE  Cardinality(ToSet(order)) = Len(order) /\ Len(order) \in Nat
<1> DEFINE n == Len(order)
           V == ToSet(order)
<1>1. n \in Nat /\ DOMAIN order = 1..n /\ order \in [1..n -> Job]
  BY LenProperties
<1>2. V = {order[i] : i \in 1..n}
  BY <1>1 DEF ToSet
<1>3. order \in Bijection(1..n, V)
  BY <1>1, <1>2 DEF Bijection, Injection, Surjection, IsInjective
<1> HIDE DEF V
<1> QED
  BY <1>1, <1>3, FS_CountingElements DEF ExistsBijection, V

(* finish() of live jobs gives back what admission took.                     *)
LEMMA FinishGivesBack ==
    ASSUME IInv, Admitted, NEW order \in Seq(Job), ToSet(order) \subseteq Live,
           \A i, k \in DOMAIN order : order[i] = order[k] => i = k,
           NEW st, NEW why, NEW error, Finish(order, st, why, error),
           Live' = Live \ ToSet(order),
           \A j \in Live' : /\ records'[j].base = records[j].base
                            /\ records'[j].messages = records[j].messages
                            /\ records'[j].spent = records[j].spent
    PROVE  Admitted'
<1>1. /\ inflight' = inflight - Cardinality(ToSet(order))
      /\ liveBytes' = liveBytes - BaseOf(ToSet(order))
  BY OrderCounts DEF Finish
<1>2. \A j \in Live' : Roomy(records'[j])
  BY DEF Admitted, Roomy
<1>3. GivenBack(ToSet(order))
  BY <1>1, <1>2 DEF GivenBack
<1> QED
  BY <1>3, GivenBackKeeps

-----------------------------------------------------------------------------
(* The history.                                                              *)

Archived ==
    /\ history \in Seq(Row)
    /\ historyBytes = Bytes(history)
    /\ Len(history) <= MaxHistoryJobs
    /\ historyBytes <= MaxHistoryBytes
    /\ \A i \in DOMAIN history : history[i].bytes <= MaxSingle
    /\ DOMAIN historyMessages = Kept

(* The history with the rows of the jobs of D behind it, and the gone oldest *)
(* ones evicted.                                                             *)
Ids(rows, D) == {rows[i].id : i \in D}

Growth(D, grown, gone) ==
    /\ grown \in Seq(Row) /\ gone \in 0..Len(grown)
    /\ Len(grown) = Len(history) + Cardinality(D) /\ Cardinality(D) \in Nat
    /\ \A i \in 1..Len(history) : grown[i] = history[i]
    /\ Ids(grown, (Len(history) + 1)..Len(grown)) = D
    /\ Unique(grown)
    /\ \A i \in 1..Len(grown) : grown[i].bytes <= MaxSingle
    /\ Fits(grown, Bytes(grown), gone)
    /\ \A n \in 0..(gone - 1) : ~Fits(grown, Bytes(grown), n)
    /\ history' = AfterEviction(grown, gone)
    /\ historyBytes' = Bytes(grown) - Bytes(SubSeq(grown, 1, gone))
    /\ DOMAIN historyMessages' = (Kept \cup D) \ Ids(grown, 1..gone)

(* The row of a job is not bigger than admission has checked.                *)
LEMMA RowFits ==
    ASSUME IInv, Admitted, NEW j \in Live, NEW st \in Terminal,
           NEW why \in {"bsl", "infra"}, NEW error \in Nat,
           NEW b, b = records[j].base + Bounded(error) + Total(records[j].messages)
    PROVE  [id |-> j, state |-> st, why |-> why, bytes |-> b] \in Row /\ b <= MaxSingle
<1>1. records[j] \in Record /\ j \in Job
  BY DEF IInv, Shape
<1> DEFINE base == records[j].base
           total == Total(records[j].messages)
           spent == records[j].spent
           bound == Bounded(error)
<1>2. base \in Nat /\ spent \in Nat /\ total \in Nat
  BY <1>1, TotalIs DEF Record
<1>3. bound \in Nat /\ bound <= MaxError /\ {MaxError, MaxMessage, MaxSingle} \subseteq Nat
  BY ConfigAssumption DEF Bounded
<1>4. base + MaxError + MaxMessage <= MaxSingle /\ total <= spent /\ spent <= MaxMessage
  BY DEF Admitted, Roomy
<1>5. b = base + bound + total
  OBVIOUS
<1> HIDE DEF base, total, spent, bound
<1>6. b \in Nat /\ b <= MaxSingle
  BY <1>2, <1>3, <1>4, <1>5
<1> QED
  BY <1>1, <1>6 DEF Row

(* Rows of different jobs behind rows of other jobs.                         *)
LEMMA UniqueConcat ==
    ASSUME NEW s \in Seq(Row), NEW t \in Seq(Row), Unique(s), Unique(t),
           \A i \in DOMAIN s, k \in DOMAIN t : s[i].id # t[k].id
    PROVE  Unique(s \o t)
<1> DEFINE c == s \o t
<1>1. Len(c) \in Nat /\ c \in Seq(Row) /\ 0 \in 0..Len(c)
  BY ConcatProperties, LenProperties
<1>2. Unique(SubSeq(c, 0 + 1, Len(c)))
  BY <1>1, SuffixIsUnique
<1> HIDE DEF c
<1>3. Cut(c, 0, SubSeq(c, 1, 0), SubSeq(c, 0 + 1, Len(c)))
  BY <1>1 DEF Cut
<1>4. PICK u : u = SubSeq(c, 0 + 1, Len(c))
  OBVIOUS
<1>5. u \in Seq(Row) /\ Len(u) = Len(c) - 0 /\ \A i \in 1..(Len(c) - 0) : u[i] = c[0 + i]
  BY <1>1, <1>3, <1>4, CutIs
<1>6. Len(u) = Len(c) /\ \A i \in 1..Len(u) : u[i] = c[i]
  BY <1>1, <1>5
<1>7. u = c
  BY <1>1, <1>5, <1>6, SeqEqual
<1> QED
  BY <1>2, <1>4, <1>7 DEF c

(* finish() makes the history grow and evicts its oldest rows.               *)
LEMMA FinishGrows ==
    ASSUME IInv, Rows, Admitted, Archived,
           NEW order \in Seq(Job), ToSet(order) \subseteq Live,
           \A i, k \in DOMAIN order : order[i] = order[k] => i = k,
           NEW st \in Terminal, NEW why \in {"bsl", "infra"}, NEW error \in Nat,
           Finish(order, st, why, error)
    PROVE  \E grown : \E gone : Growth(ToSet(order), grown, gone)
<1> DEFINE size(i) == records[order[i]].base + Bounded(error)
                         + Total(records[order[i]].messages)
           row(i) == [id |-> order[i], state |-> st, why |-> why, bytes |-> size(i)]
           rows   == [i \in 1..Len(order) |-> row(i)]
           grown  == history \o rows
           bytes  == historyBytes + Bytes(rows)
           done   == ToSet(order)
<1>1. PICK gone \in 0..Len(grown) :
         /\ Fits(grown, bytes, gone)
         /\ \A n \in 0..(gone - 1) : ~Fits(grown, bytes, n)
         /\ history' = AfterEviction(grown, gone)
         /\ historyBytes' = bytes - Bytes(SubSeq(grown, 1, gone))
         /\ historyMessages' =
              [j \in (DOMAIN historyMessages \cup done) \ {grown[i].id : i \in 1..gone} |->
                 IF j \in done THEN records[j].messages ELSE historyMessages[j]]
  BY DEF Finish
<1>2. /\ Len(order) \in Nat /\ DOMAIN order = 1..Len(order)
      /\ Cardinality(done) = Len(order)
  BY LenProperties, OrderCounts
<1>3. \A i \in 1..Len(order) : row(i) \in Row /\ size(i) <= MaxSingle
  <2> TAKE i \in 1..Len(order)
  <2>1. order[i] \in Live
    BY <1>2 DEF ToSet
  <2> HIDE DEF size
  <2>2. size(i) = records[order[i]].base + Bounded(error)
                         + Total(records[order[i]].messages)
    BY DEF size
  <2> QED
    BY <2>1, <2>2, RowFits
<1>4. rows \in [1..Len(order) -> Row]
  BY <1>3
<1>5. rows \in Seq(Row) /\ Len(rows) = Len(order)
  <2>1. rows \in Seq(Row) /\ DOMAIN rows = 1..Len(order)
    BY <1>2, <1>4, SeqDef
  <2> HIDE DEF rows
  <2>2. DOMAIN rows = 1..Len(rows) /\ Len(rows) \in Nat
    BY <2>1, LenProperties
  <2> QED
    BY <1>2, <2>1, <2>2
<1>6. \A i \in 1..Len(order) : rows[i].id = order[i] /\ rows[i].bytes <= MaxSingle
  BY <1>3
<1> HIDE DEF rows
<1>7. history \in Seq(Row) /\ Len(history) \in Nat /\ DOMAIN history = 1..Len(history)
  BY LenProperties DEF Archived
<1> DEFINE m == Len(history)
           n == Len(order)
<1>8. /\ grown \in Seq(Row) /\ Len(grown) = m + n
      /\ \A i \in 1..(m + n) : grown[i] = IF i <= m THEN history[i] ELSE rows[i - m]
  <2>1. n = Len(rows)
    BY <1>5
  <2>2. history \in Seq(Row) /\ rows \in Seq(Row)
    BY <1>5, <1>7
  <2> HIDE DEF n
  <2>3. /\ grown \in Seq(Row) /\ Len(grown) = Len(history) + Len(rows)
        /\ \A i \in 1..(Len(history) + Len(rows)) :
              grown[i] = IF i <= Len(history) THEN history[i] ELSE rows[i - Len(history)]
    BY ONLY <2>2, ConcatProperties
  <2> HIDE DEF grown
  <2> QED
    BY ONLY <2>1, <2>3
<1>9. bytes = Bytes(grown)
  BY <1>5, <1>7, BytesOfConcat DEF Archived
<1>10. Unique(grown)
  <2>1. DOMAIN rows = 1..n
    BY <1>5, LenProperties
  <2>2. Unique(rows)
    BY <1>2, <1>6, <2>1 DEF Unique
  <2>3. \A i \in DOMAIN history, k \in DOMAIN rows : history[i].id # rows[k].id
    <3>1. \A k \in DOMAIN rows : rows[k].id \in Live
      BY <1>2, <1>6, <2>1 DEF ToSet
    <3> QED
      BY <3>1 DEF IInv, Fresh
  <2> QED
    BY <1>5, <1>7, <2>2, <2>3, UniqueConcat DEF Rows
<1> HIDE DEF grown, bytes, m, n
<1>11. m \in Nat /\ n \in Nat
  BY <1>2, <1>7 DEF m, n
<1>12. \A i \in 1..m : grown[i] = history[i]
  BY <1>8, <1>11
<1>13. \A i \in 1..n : m + i \in (m + 1)..(m + n) /\ grown[m + i] = rows[i]
  BY <1>8, <1>11
<1>14. \A i \in (m + 1)..(m + n) : i - m \in 1..n /\ grown[i] = rows[i - m]
  BY <1>8, <1>11
<1>15. Ids(grown, (m + 1)..(m + n)) = done
  <2>1. \A i \in 1..n : rows[i].id = order[i]
    BY <1>6 DEF n
  <2>2. done = {order[i] : i \in 1..n}
    BY <1>2 DEF ToSet, n
  <2>3. \A x \in Ids(grown, (m + 1)..(m + n)) : x \in done
    BY <1>14, <2>1, <2>2 DEF Ids
  <2>4. \A x \in done : x \in Ids(grown, (m + 1)..(m + n))
    BY <1>13, <2>1, <2>2 DEF Ids
  <2> QED
    BY <2>3, <2>4
<1>16. \A i \in 1..(m + n) : grown[i].bytes <= MaxSingle
  <2> SUFFICES ASSUME NEW i \in 1..(m + n) PROVE grown[i].bytes <= MaxSingle
    OBVIOUS
  <2>1. CASE i \in 1..m
    <3>1. i \in DOMAIN history
      BY <1>7, <2>1 DEF m
    <3> QED
      BY <1>12, <2>1, <3>1 DEF Archived
  <2>2. CASE i \in (m + 1)..(m + n)
    <3>1. \A k \in 1..n : rows[k].bytes <= MaxSingle
      BY <1>6 DEF n
    <3> QED
      BY <1>14, <2>2, <3>1
  <2> QED
    BY <1>11, <2>1, <2>2
<1>17. DOMAIN historyMessages' = (Kept \cup done) \ Ids(grown, 1..gone)
  <2>1. {grown[i].id : i \in 1..gone} = Ids(grown, 1..gone)
    BY DEF Ids
  <2> HIDE DEF done
  <2>2. DOMAIN historyMessages' = (DOMAIN historyMessages \cup done) \ {grown[i].id : i \in 1..gone}
    BY <1>1
  <2> QED
    BY <2>1, <2>2 DEF Archived
<1>18. /\ gone \in 0..Len(grown)
       /\ Fits(grown, Bytes(grown), gone)
       /\ \A k \in 0..(gone - 1) : ~Fits(grown, Bytes(grown), k)
       /\ history' = AfterEviction(grown, gone)
       /\ historyBytes' = Bytes(grown) - Bytes(SubSeq(grown, 1, gone))
  BY <1>1, <1>9
<1>19. Growth(done, grown, gone)
  <2>1. Len(grown) = Len(history) + Cardinality(done) /\ Cardinality(done) \in Nat
    BY <1>2, <1>8 DEF m, n
  <2>2. /\ \A i \in 1..Len(history) : grown[i] = history[i]
        /\ Ids(grown, (Len(history) + 1)..Len(grown)) = done
        /\ \A i \in 1..Len(grown) : grown[i].bytes <= MaxSingle
    BY <1>8, <1>12, <1>15, <1>16 DEF m
  <2> HIDE DEF done
  <2> QED
    BY <1>8, <1>10, <1>17, <1>18, <2>1, <2>2 DEF Growth
<1> QED
  BY <1>19

Lengths(grown, l, m) == l = Len(grown) /\ m = Len(history)

(* What the rows left after the eviction are.                                *)
LEMMA GrowthShows ==
    ASSUME Archived, NEW D, NEW grown, NEW gone, Growth(D, grown, gone),
           NEW l, NEW m, Lengths(grown, l, m)
    PROVE  /\ l \in Nat /\ m \in Nat /\ m <= l /\ gone \in Nat /\ gone <= l
           /\ history' \in Seq(Row) /\ Len(history') = l - gone
           /\ \A i \in 1..(l - gone) : history'[i] = grown[gone + i]
           /\ historyBytes' = Bytes(history')
           /\ Kept = Ids(grown, 1..m) /\ D = Ids(grown, (m + 1)..l)
           /\ Kept' = Ids(grown, (gone + 1)..l)
           /\ \A A, B \in SUBSET (1..l) :
                 A \cap B = {} => Ids(grown, A) \cap Ids(grown, B) = {}
<1>1. /\ grown \in Seq(Row) /\ gone \in 0..l
      /\ l = m + Cardinality(D) /\ Cardinality(D) \in Nat
      /\ \A i \in 1..m : grown[i] = history[i]
      /\ history' = AfterEviction(grown, gone)
      /\ D = Ids(grown, (m + 1)..l)
  BY DEF Growth, Lengths
<1>2. /\ l \in Nat /\ m \in Nat /\ DOMAIN history = 1..m /\ DOMAIN grown = 1..l
      /\ gone \in Nat /\ gone <= l
  <2>1. Len(grown) \in Nat /\ DOMAIN grown = 1..Len(grown)
    BY <1>1, LenProperties
  <2>2. Len(history) \in Nat /\ DOMAIN history = 1..Len(history)
    BY LenProperties DEF Archived
  <2>3. l = Len(grown) /\ m = Len(history)
    BY DEF Lengths
  <2> QED
    BY ONLY <1>1, <2>1, <2>2, <2>3
<1>3. m <= l
  BY <1>1, <1>2
<1> DEFINE a == SubSeq(grown, 1, gone)
<1>4. PICK h : h = history'
  OBVIOUS
<1>5. Cut(grown, gone, a, h)
  BY <1>1, <1>4 DEF Cut, AfterEviction, Lengths
<1>6. h \in Seq(Row) /\ Len(h) = l - gone /\ \A i \in 1..(l - gone) : h[i] = grown[gone + i]
  <2> HIDE DEF a
  <2>1. /\ h \in Seq(Row) /\ Len(h) = Len(grown) - gone
        /\ \A i \in 1..(Len(grown) - gone) : h[i] = grown[gone + i]
    <3>1. grown \in Seq(Row)
      BY <1>1
    <3> QED
      BY ONLY <1>5, <3>1, CutIs
  <2> QED
    BY <2>1 DEF Lengths
<1>7. historyBytes' = Bytes(h)
  <2>1. h = SubSeq(grown, gone + 1, Len(grown)) /\ gone \in 0..Len(grown)
    BY <1>5 DEF Cut
  <2>2. Bytes(h) = Bytes(grown) - Bytes(a)
    BY <1>1, <2>1, BytesOfRest
  <2> QED
    BY <2>2 DEF Growth
<1>8. Kept = Ids(grown, 1..m)
  BY <1>1, <1>2 DEF Kept, Ids
<1>9. DOMAIN h = 1..(l - gone)
  BY <1>6, LenProperties
<1>10. {h[i].id : i \in DOMAIN h} = Ids(grown, (gone + 1)..l)
  <2>1. \A i \in 1..(l - gone) : gone + i \in (gone + 1)..l
    BY <1>2
  <2>2. \A i \in (gone + 1)..l : i - gone \in 1..(l - gone) /\ grown[i] = h[i - gone]
    <3> TAKE i \in (gone + 1)..l
    <3>1. i - gone \in 1..(l - gone) /\ gone + (i - gone) = i
      BY <1>2
    <3> QED
      BY <1>6, <3>1
  <2>3. \A x \in {h[i].id : i \in DOMAIN h} : x \in Ids(grown, (gone + 1)..l)
    BY <1>6, <1>9, <2>1 DEF Ids
  <2>4. \A x \in Ids(grown, (gone + 1)..l) : x \in {h[i].id : i \in DOMAIN h}
    BY <1>9, <2>2 DEF Ids
  <2> QED
    BY <2>3, <2>4
<1>11. Kept' = Ids(grown, (gone + 1)..l)
  BY <1>4, <1>10 DEF Kept
<1>12. ASSUME NEW A \in SUBSET (1..l), NEW B \in SUBSET (1..l), A \cap B = {}
       PROVE  Ids(grown, A) \cap Ids(grown, B) = {}
  <2>1. Unique(grown)
    BY DEF Growth
  <2>2. ASSUME NEW i \in A, NEW k \in B, grown[i].id = grown[k].id
        PROVE  FALSE
    <3>1. i \in DOMAIN grown /\ k \in DOMAIN grown
      BY <1>2, <1>12
    <3>2. i = k
      BY <2>1, <2>2, <3>1 DEF Unique
    <3> QED
      BY <1>12, <3>2
  <2> QED
    BY <2>2 DEF Ids
<1> QED
  BY <1>1, <1>2, <1>3, <1>4, <1>6, <1>7, <1>8, <1>11, <1>12

(* The history counters are exact again and the limits kept.                 *)
LEMMA GrowthArchives ==
    ASSUME Archived, NEW D, NEW grown, NEW gone, Growth(D, grown, gone)
    PROVE  Archived'
<1>1. PICK l, m : l = Len(grown) /\ m = Len(history)
  OBVIOUS
<1>2. /\ l \in Nat /\ m \in Nat /\ m <= l /\ gone \in Nat /\ gone <= l
      /\ history' \in Seq(Row) /\ Len(history') = l - gone
      /\ \A i \in 1..(l - gone) : history'[i] = grown[gone + i]
      /\ historyBytes' = Bytes(history')
      /\ Kept = Ids(grown, 1..m) /\ D = Ids(grown, (m + 1)..l)
      /\ Kept' = Ids(grown, (gone + 1)..l)
      /\ \A A, B \in SUBSET (1..l) :
            A \cap B = {} => Ids(grown, A) \cap Ids(grown, B) = {}
  <2>1. Lengths(grown, l, m)
    BY <1>1 DEF Lengths
  <2> QED
    BY <2>1, GrowthShows
<1>3. Bytes(history') \in Nat /\ (Len(history') = 0 => Bytes(history') = 0)
  <2>1. PICK h : h = history'
    OBVIOUS
  <2>2. Bytes(h) \in Nat /\ (Len(h) = 0 => Bytes(h) = 0)
    BY <1>2, <2>1, BytesIs
  <2> QED
    BY <2>1, <2>2
<1>4. {MaxHistoryJobs, MaxHistoryBytes} \subseteq Nat
  BY ConfigAssumption
<1>5. Len(history') <= MaxHistoryJobs /\ historyBytes' <= MaxHistoryBytes
  <2> DEFINE f == Bytes(grown) - Bytes(SubSeq(grown, 1, gone))
             b == Bytes(history')
             n == Len(history')
  <2>1. \/ l - gone <= MaxHistoryJobs /\ f <= MaxHistoryBytes
        \/ gone = l
    BY <1>1 DEF Growth, Fits
  <2>2. historyBytes' = f /\ historyBytes' = b
    BY <1>2 DEF Growth
  <2>3. n = l - gone
    BY <1>2
  <2> HIDE DEF f, b, n
  <2>4. CASE l - gone <= MaxHistoryJobs /\ f <= MaxHistoryBytes
    BY <2>2, <2>3, <2>4 DEF n
  <2>5. CASE gone = l
    <3>1. n = 0
      BY <1>2, <2>3, <2>5
    <3>2. b = 0
      BY <1>3, <3>1 DEF n, b
    <3> QED
      BY <1>4, <2>2, <3>1, <3>2 DEF n
  <2> QED
    BY <2>1, <2>4, <2>5
<1>6. \A i \in DOMAIN history' : history'[i].bytes <= MaxSingle
  <2>1. DOMAIN history' = 1..(l - gone)
    BY <1>2, LenProperties
  <2>2. \A i \in 1..(l - gone) : gone + i \in 1..l
    BY <1>2
  <2>3. \A i \in 1..l : grown[i].bytes <= MaxSingle
    BY <1>1 DEF Growth
  <2> QED
    BY <1>2, <2>1, <2>2, <2>3
<1>7. DOMAIN historyMessages' = Kept'
  <2> DEFINE G == Ids(grown, 1..gone)
             R == Ids(grown, (gone + 1)..l)
  <2>1. DOMAIN historyMessages' = (Kept \cup D) \ G
    BY DEF Growth
  <2>2. 1..gone \cap (gone + 1)..l = {} /\ 1..gone \subseteq 1..l /\ (gone + 1)..l \subseteq 1..l
    BY <1>2
  <2>3. G \cap R = {}
    BY <1>2, <2>2
  <2>4. (1..gone) \cup ((gone + 1)..l) = (1..m) \cup ((m + 1)..l)
    BY <1>2
  <2>5. G \cup R = Kept \cup D
    BY <1>2, <2>4 DEF Ids
  <2> HIDE DEF G, R
  <2>6. DOMAIN historyMessages' = R
    BY <2>1, <2>3, <2>5
  <2> QED
    BY <1>2, <2>6 DEF R
<1> QED
  BY <1>2, <1>5, <1>6, <1>7 DEF Archived

(* A step that ends nothing leaves the history alone, and its messages but   *)
(* for a drain.                                                              *)
LEMMA QuietArchived ==
    ASSUME Archived, UNCHANGED <<history, historyBytes>>,
           DOMAIN historyMessages' = DOMAIN historyMessages
    PROVE  Archived'
BY DEF Archived, Kept

-----------------------------------------------------------------------------
(* Part 5: what is terminal is final.                                        *)

FinalStep ==
    LET ended == Live \ Live' IN
       /\ \E n \in 0..Len(history) :
            /\ IsPrefix(AfterEviction(history, n), history')
            /\ n > 0 => \/ Len(history') = MaxHistoryJobs
                        \/ historyBytes' + history[n].bytes > MaxHistoryBytes
                        \/ ~(ended \subseteq Kept')
       /\ ended \subseteq Kept' \/ Kept \cap Kept' = {}
       /\ \A j \in issued \ Live : j \notin Live'

(* Jobs that end are recorded before older rows are given up, and rows go    *)
(* oldest first and only under pressure.                                     *)
LEMMA GrowthIsFinal ==
    ASSUME Archived, NEW D, NEW grown, NEW gone, Growth(D, grown, gone),
           D = Live \ Live', Live' \subseteq Live
    PROVE  FinalStep
<1>1. PICK l, m : l = Len(grown) /\ m = Len(history)
  OBVIOUS
<1>2. /\ l \in Nat /\ m \in Nat /\ m <= l /\ gone \in Nat /\ gone <= l
      /\ history' \in Seq(Row) /\ Len(history') = l - gone
      /\ \A i \in 1..(l - gone) : history'[i] = grown[gone + i]
      /\ historyBytes' = Bytes(history')
      /\ Kept = Ids(grown, 1..m) /\ D = Ids(grown, (m + 1)..l)
      /\ Kept' = Ids(grown, (gone + 1)..l)
      /\ \A A, B \in SUBSET (1..l) :
            A \cap B = {} => Ids(grown, A) \cap Ids(grown, B) = {}
  <2>1. Lengths(grown, l, m)
    BY <1>1 DEF Lengths
  <2> QED
    BY <2>1, GrowthShows
<1>3. \A i \in 1..m : grown[i] = history[i]
  BY <1>1 DEF Growth
<1>4. PICK h, n : h = history' /\ n = IF gone <= m THEN gone ELSE m
  OBVIOUS
<1>5. n \in 0..m /\ n \in Nat /\ n <= gone
  BY <1>2, <1>4
<1>6. IsPrefix(AfterEviction(history, n), h)
  <2>1. PICK s : s = AfterEviction(history, n)
    OBVIOUS
  <2>2. Cut(history, n, SubSeq(history, 1, n), s)
    BY <1>1, <1>5, <2>1 DEF Cut, AfterEviction
  <2>3. history \in Seq(Row)
    BY DEF Archived
  <2>4. s \in Seq(Row) /\ Len(s) = Len(history) - n
        /\ \A i \in 1..(Len(history) - n) : s[i] = history[n + i]
    BY ONLY <2>2, <2>3, CutIs
  <2>5. s \in Seq(Row) /\ Len(s) = m - n /\ \A i \in 1..(m - n) : s[i] = history[n + i]
    BY ONLY <1>1, <2>4
  <2>6. h \in Seq(Row) /\ Len(h) = l - gone /\ \A i \in 1..(l - gone) : h[i] = grown[gone + i]
    BY <1>2, <1>4
  <2>7. PICK k : k = m - n
    OBVIOUS
  <2>8. k = Len(s) /\ k <= Len(h)
    BY <1>2, <1>4, <1>5, <2>5, <2>6, <2>7
  <2>9. ASSUME NEW i \in 1..k PROVE s[i] = h[i]
    <3>1. gone = n /\ i \in 1..(m - n) /\ i \in 1..(l - gone) /\ n + i \in 1..m
      BY <1>2, <1>4, <1>5, <2>7
    <3> QED
      BY <1>3, <2>5, <2>6, <3>1
  <2>10. IsPrefix(s, h)
    BY ONLY <2>5, <2>6, <2>8, <2>9, PrefixIs
  <2> QED
    BY <2>1, <2>10
<1>7. CASE gone <= m
  <2>1. D \subseteq Kept'
    <3>1. (m + 1)..l \subseteq (gone + 1)..l
      BY <1>2, <1>7
    <3> QED
      BY <1>2, <3>1 DEF Ids
  <2>2. ASSUME n > 0
        PROVE  \/ Len(h) = MaxHistoryJobs
               \/ historyBytes' + history[n].bytes > MaxHistoryBytes
    <3> DEFINE b == Bytes(grown)
               p == Bytes(SubSeq(grown, 1, gone))
               q == Bytes(SubSeq(grown, 1, gone - 1))
               w == grown[gone].bytes
               k == Len(h)
    <3>1. gone > 0 /\ gone - 1 \in 0..(gone - 1) /\ n = gone /\ grown[gone] = history[n]
      <4>1. n = gone /\ gone \in 1..m
        BY <1>2, <1>4, <1>7, <2>2
      <4> QED
        BY <1>2, <1>3, <4>1
    <3>2. p = q + w
      <4>1. grown \in Seq(Row) /\ gone \in 0..Len(grown)
        BY DEF Growth
      <4> QED
        BY <3>1, <4>1, BytesOfRest
    <3>3. ~(l - (gone - 1) <= MaxHistoryJobs /\ b - q <= MaxHistoryBytes)
      <4>1. ~Fits(grown, b, gone - 1)
        BY <3>1 DEF Growth
      <4> QED
        BY <1>1, <4>1 DEF Fits
    <3>4. l - gone <= MaxHistoryJobs \/ gone = l
      BY <1>1 DEF Growth, Fits
    <3>5. historyBytes' = b - p /\ k = l - gone
      BY <1>2, <1>4 DEF Growth
    <3>6. b \in Nat /\ p \in Nat /\ q \in Nat /\ w \in Nat
      <4>1. grown \in Seq(Row) /\ gone \in 0..Len(grown)
        BY DEF Growth
      <4>2. gone - 1 \in 0..Len(grown) /\ gone \in 1..Len(grown)
        BY <1>1, <1>2, <3>1
      <4>3. SubSeq(grown, 1, gone) \in Seq(Row) /\ SubSeq(grown, 1, gone - 1) \in Seq(Row)
        <5>1. PICK a, c, g : a = SubSeq(grown, 1, gone) /\ g = gone - 1 /\ c = SubSeq(grown, 1, g)
          OBVIOUS
        <5>2. /\ Cut(grown, gone, a, SubSeq(grown, gone + 1, Len(grown)))
              /\ Cut(grown, g, c, SubSeq(grown, g + 1, Len(grown)))
          BY <4>1, <4>2, <5>1 DEF Cut
        <5>3. a \in Seq(Row) /\ c \in Seq(Row)
          BY ONLY <4>1, <5>2, CutIs
        <5> QED
          BY <5>1, <5>3
      <4>4. grown[gone] \in Row
        BY <4>1, <4>2, ElementOfSeq
      <4> QED
        BY <4>1, <4>3, <4>4, BytesIs DEF Row
    <3> HIDE DEF b, p, q, w, k
    <3>7. k = MaxHistoryJobs \/ historyBytes' + w > MaxHistoryBytes
      <4>1. MaxHistoryJobs \in Nat /\ MaxHistoryBytes \in Nat
        BY ConfigAssumption
      <4>2. l - (gone - 1) = k + 1 /\ k \in Nat
        BY <1>2, <3>5
      <4>3. b - q = historyBytes' + w /\ historyBytes' \in Int
        BY <3>2, <3>5, <3>6
      <4>4. k <= MaxHistoryJobs
        BY <1>2, <3>4, <3>5, <4>1
      <4>5. CASE ~(k + 1 <= MaxHistoryJobs)
        BY <4>1, <4>2, <4>4, <4>5
      <4>6. CASE ~(historyBytes' + w <= MaxHistoryBytes)
        <5>1. PICK x : x = historyBytes'
          OBVIOUS
        <5>2. x \in Int /\ ~(x + w <= MaxHistoryBytes)
          BY <4>3, <4>6, <5>1
        <5>3. x + w > MaxHistoryBytes
          BY <3>6, <4>1, <5>2
        <5> QED
          BY <5>1, <5>3
      <4> QED
        BY <3>3, <4>2, <4>3, <4>5, <4>6
    <3> QED
      BY <3>1, <3>7 DEF k, w
  <2> QED
    BY <1>1, <1>4, <1>5, <1>6, <2>1, <2>2 DEF FinalStep
<1>8. CASE gone > m
  <2>1. ~(D \subseteq Kept')
    <3>1. /\ {m + 1} \subseteq 1..l /\ (gone + 1)..l \subseteq 1..l
          /\ {m + 1} \cap (gone + 1)..l = {} /\ m + 1 \in (m + 1)..l
      BY <1>2, <1>8
    <3>2. grown[m + 1].id \in D /\ grown[m + 1].id \in Ids(grown, {m + 1})
      BY <1>2, <3>1 DEF Ids
    <3>3. Ids(grown, {m + 1}) \cap Kept' = {}
      BY <1>2, <3>1
    <3> QED
      BY <3>2, <3>3
  <2>2. Kept \cap Kept' = {}
    <3>1. /\ 1..m \subseteq 1..l /\ (gone + 1)..l \subseteq 1..l
          /\ 1..m \cap (gone + 1)..l = {}
      BY <1>2, <1>8
    <3> QED
      BY <1>2, <3>1
  <2> QED
    BY <1>1, <1>4, <1>5, <1>6, <2>1, <2>2 DEF FinalStep
<1> QED
  BY <1>2, <1>7, <1>8

(* A step that ends nothing.                                                 *)
LEMMA QuietIsFinal ==
    ASSUME Archived, UNCHANGED history, Live \subseteq Live',
           \A j \in issued \ Live : j \notin Live'
    PROVE  FinalStep
<1>1. PICK h : h = history
  OBVIOUS
<1>2. h \in Seq(Row) /\ Len(h) \in Nat
  BY <1>1, LenProperties DEF Archived
<1>3. AfterEviction(h, 0) = h
  <2>1. PICK s : s = AfterEviction(h, 0)
    OBVIOUS
  <2>2. Cut(h, 0, SubSeq(h, 1, 0), s)
    BY <1>2, <2>1 DEF Cut, AfterEviction
  <2>3. s \in Seq(Row) /\ Len(s) = Len(h) - 0 /\ \A i \in 1..(Len(h) - 0) : s[i] = h[0 + i]
    BY ONLY <1>2, <2>2, CutIs
  <2>4. Len(s) = Len(h) /\ \A i \in 1..Len(s) : s[i] = h[i]
    BY <1>2, <2>3
  <2>5. s = h
    BY <1>2, <2>3, <2>4, SeqEqual
  <2> QED
    BY <2>1, <2>5
<1>4. IsPrefix(h, h)
  BY <1>2 DEF IsPrefix
<1>5. Live \ Live' = {}
  OBVIOUS
<1> QED
  BY <1>1, <1>2, <1>3, <1>4, <1>5 DEF FinalStep

-----------------------------------------------------------------------------
(* One lemma per group of actions.                                           *)

Accounted == Admitted' /\ Archived' /\ FinalStep

(* Several jobs end in one step.                                             *)
LEMMA FinishAccounts ==
    ASSUME IInv, Rows, Admitted, Archived,
           NEW order \in Seq(Job), ToSet(order) \subseteq Live,
           \A i, k \in DOMAIN order : order[i] = order[k] => i = k,
           NEW st \in Terminal, NEW why \in {"bsl", "infra"}, NEW error \in Nat,
           Finish(order, st, why, error),
           Live' = Live \ ToSet(order),
           \A j \in Live' : /\ records'[j].base = records[j].base
                            /\ records'[j].messages = records[j].messages
                            /\ records'[j].spent = records[j].spent
    PROVE  Accounted
<1>1. Admitted'
  BY FinishGivesBack
<1>2. PICK D : D = ToSet(order)
  OBVIOUS
<1>3. PICK grown : \E gone : Growth(D, grown, gone)
  BY <1>2, FinishGrows
<1>4. PICK gone : Growth(D, grown, gone)
  BY <1>3
<1>5. D = Live \ Live' /\ Live' \subseteq Live
  BY <1>2
<1>6. Archived'
  BY <1>4, GrowthArchives
<1>7. FinalStep
  BY <1>4, <1>5, GrowthIsFinal
<1> QED
  BY <1>1, <1>6, <1>7 DEF Accounted

(* No job ends and none is new.                                              *)
LEMMA QuietAccounts ==
    ASSUME IInv, Admitted, Archived, Live' = Live,
           UNCHANGED <<inflight, liveBytes, history, historyBytes>>,
           DOMAIN historyMessages' = DOMAIN historyMessages,
           \A j \in Live : records'[j].base = records[j].base /\ Roomy(records'[j])
    PROVE  Accounted
<1>1. Admitted'
  BY QuietAdmitted
<1>2. Archived'
  BY QuietArchived
<1>3. FinalStep
  BY QuietIsFinal
<1> QED
  BY <1>1, <1>2, <1>3 DEF Accounted

(* One job ends, or is not there any more.                                   *)
LEMMA FinishOneAccounts ==
    ASSUME IInv, Rows, Admitted, Archived, NEW j \in Job,
           NEW st \in Terminal, NEW why \in {"bsl", "infra"}, NEW error \in Nat,
           FinishOne(j, st, why, error)
    PROVE  Accounted
<1>1. CASE j \in Live
  <2> DEFINE order == <<j>>
  <2>1. Finish(order, st, why, error) /\ records' = Remaining({j})
    BY <1>1 DEF FinishOne
  <2>2. /\ order \in Seq(Job) /\ ToSet(order) = {j} /\ ToSet(order) \subseteq Live
        /\ \A i, k \in DOMAIN order : order[i] = order[k] => i = k
    BY <1>1 DEF ToSet
  <2> HIDE DEF order
  <2>3. /\ Live' = Live \ ToSet(order)
        /\ \A i \in Live' : records'[i] = records[i]
    BY <2>1, <2>2, RemainingIs DEF IInv
  <2> QED
    BY <2>1, <2>2, <2>3, FinishAccounts
<1>2. CASE j \notin Live
  BY <1>2, QuietAccounts DEF FinishOne, Live, Admitted
<1> QED
  BY <1>1, <1>2

(* Setting flags leaves the sizes alone.                                     *)
LEMMA FlagsKeepSizes ==
    ASSUME Shape, NEW S, NEW D, records' = WithFlag(S, Remaining(D))
    PROVE  /\ Live' = Live \ D
           /\ \A j \in Live' : /\ records'[j].base = records[j].base
                               /\ records'[j].messages = records[j].messages
                               /\ records'[j].spent = records[j].spent
<1> DEFINE f == Remaining(D)
<1>1. /\ DOMAIN f = Live \ D
      /\ \A j \in DOMAIN f : f[j] = records[j] /\ records[j] \in Record
  BY DEF Remaining, Shape
<1>2. records' = [j \in DOMAIN f |->
                    IF j \in S THEN [f[j] EXCEPT !.cancel = TRUE] ELSE f[j]]
  BY DEF WithFlag
<1> HIDE DEF f
<1>3. Live' = Live \ D
  BY <1>1, <1>2 DEF Live
<1>4. \A j \in Live \ D : /\ records'[j].base = records[j].base
                          /\ records'[j].messages = records[j].messages
                          /\ records'[j].spent = records[j].spent
  BY <1>1, <1>2 DEF Record
<1> QED
  BY <1>3, <1>4

(* The three ways in which the whole runtime stops.                          *)
LEMMA StopAccounts ==
    ASSUME IInv, Rows, Admitted, Archived, Shutdown \/ DropRuntime \/ Break
    PROVE  Accounted
<1>1. CASE Shutdown
  <2> DEFINE queued == {j \in Live : records[j].status = "Queued"}
  <2>1. PICK order \in SetToSeqs(queued) :
           /\ Finish(order, "Canceled", "bsl", 0)
           /\ records' = WithFlag(Live, Remaining(queued))
    BY <1>1 DEF Shutdown
  <2>2. queued \subseteq Live
    OBVIOUS
  <2> HIDE DEF queued
  <2>3. order \in Seq(Job) /\ ToSet(order) = queued
    BY <2>2, OrderIs DEF IInv
  <2>4. \A i, k \in DOMAIN order : order[i] = order[k] => i = k
    BY OrderOnce
  <2>5. /\ Live' = Live \ ToSet(order)
        /\ \A j \in Live' : /\ records'[j].base = records[j].base
                            /\ records'[j].messages = records[j].messages
                            /\ records'[j].spent = records[j].spent
    BY <2>1, <2>3, FlagsKeepSizes DEF IInv
  <2>6. "Canceled" \in Terminal /\ ToSet(order) \subseteq Live
    BY <2>2, <2>3 DEF Terminal
  <2> QED
    BY <2>1, <2>3, <2>4, <2>5, <2>6, FinishAccounts
<1>2. CASE Break
  <2> DEFINE unclaimed == {j \in Live : ~records[j].committing}
  <2>1. PICK order \in SetToSeqs(unclaimed), error \in ErrorBytes :
           /\ Finish(order, "Failed", "infra", error)
           /\ records' = Remaining(unclaimed)
    BY <1>2 DEF Break
  <2>2. unclaimed \subseteq Live
    OBVIOUS
  <2> HIDE DEF unclaimed
  <2>3. order \in Seq(Job) /\ ToSet(order) = unclaimed
    BY <2>2, OrderIs DEF IInv
  <2>4. \A i, k \in DOMAIN order : order[i] = order[k] => i = k
    BY OrderOnce
  <2>5. /\ Live' = Live \ ToSet(order)
        /\ \A j \in Live' : records'[j] = records[j]
    BY <2>1, <2>3, RemainingIs DEF IInv
  <2>6. "Failed" \in Terminal /\ ToSet(order) \subseteq Live /\ error \in Nat
    BY <2>2, <2>3, ConfigAssumption DEF Terminal
  <2> QED
    BY <2>1, <2>3, <2>4, <2>5, <2>6, FinishAccounts
<1>3. CASE DropRuntime
  <2>1. records = Remaining({})
    BY DEF IInv, Shape, Remaining, Live
  <2>2. /\ Live' = Live \ {}
        /\ \A j \in Live' : /\ records'[j].base = records[j].base
                            /\ records'[j].messages = records[j].messages
                            /\ records'[j].spent = records[j].spent
    BY <1>3, <2>1, FlagsKeepSizes DEF IInv, DropRuntime
  <2>3. \A j \in Live : Roomy(records'[j])
    BY <2>2 DEF Admitted, Roomy
  <2>4. /\ UNCHANGED <<inflight, liveBytes, history, historyBytes>>
        /\ DOMAIN historyMessages' = DOMAIN historyMessages
    BY <1>3 DEF DropRuntime
  <2> QED
    BY <2>2, <2>3, <2>4, QuietAccounts
<1> QED
  BY <1>1, <1>2, <1>3

(* cancel: a queued job ends, a running one only gets its flag.              *)
LEMMA CancelAccounts ==
    ASSUME IInv, Rows, Admitted, Archived, NEW j \in Job, Cancel(j)
    PROVE  Accounted
<1>1. CASE FinishOne(j, "Canceled", "bsl", 0)
  BY <1>1, FinishOneAccounts DEF Terminal
<1>2. CASE /\ records' = WithFlag({j}, records)
           /\ UNCHANGED <<inflight, liveBytes, history, historyMessages, historyBytes>>
  <2>1. records = Remaining({})
    BY DEF IInv, Shape, Remaining, Live
  <2>2. /\ Live' = Live \ {}
        /\ \A i \in Live' : /\ records'[i].base = records[i].base
                            /\ records'[i].messages = records[i].messages
                            /\ records'[i].spent = records[i].spent
    BY <1>2, <2>1, FlagsKeepSizes DEF IInv
  <2>3. \A i \in Live : Roomy(records'[i])
    BY <2>2 DEF Admitted, Roomy
  <2> QED
    BY <1>2, <2>2, <2>3, QuietAccounts
<1> QED
  BY <1>1, <1>2 DEF Cancel

(* A driver or a caller who ends one job.                                    *)
LEMMA FinishStepAccounts ==
    ASSUME IInv, Rows, Admitted, Archived, NEW j \in Job,
           FinishClaimed(j) \/ FinishUnclaimed(j)
    PROVE  Accounted
<1>1. 0 \in Nat /\ ErrorBytes \subseteq Nat
  BY ConfigAssumption
<1>2. PICK st \in Terminal, why \in {"bsl", "infra"}, error \in Nat :
         FinishOne(j, st, why, error)
  BY <1>1 DEF FinishClaimed, FinishUnclaimed, Terminal
<1> QED
  BY <1>2, FinishOneAccounts

(* A record of one job that changes, with the room it still has.             *)
LEMMA UpdateAccounts ==
    ASSUME IInv, Admitted, Archived, NEW j \in Live, NEW r,
           r.base = records[j].base, Roomy(r),
           records' = [records EXCEPT ![j] = r],
           UNCHANGED <<inflight, liveBytes, history, historyMessages, historyBytes>>
    PROVE  Accounted
<1>1. /\ Live' = Live /\ records'[j] = r
      /\ \A i \in Live : i # j => records'[i] = records[i]
  BY DEF Live
<1>2. \A i \in Live : records'[i].base = records[i].base /\ Roomy(records'[i])
  BY <1>1 DEF Admitted
<1> QED
  BY <1>1, <1>2, QuietAccounts

(* Starting, claiming and committing change no size.                         *)
LEMMA DriverAccounts ==
    ASSUME IInv, Rows, Admitted, Archived, NEW j \in Job,
           StartJob(j) \/ ClaimTerminal(j) \/ CommitStaged(j)
    PROVE  Accounted
<1>1. CASE FinishOne(j, "Canceled", "infra", 0)
  BY <1>1, FinishOneAccounts DEF Terminal
<1>2. CASE UNCHANGED <<records, inflight, liveBytes, history, historyMessages, historyBytes>>
  BY <1>2, QuietAccounts DEF Live, Admitted
<1>3. CASE /\ j \in Live
           /\ \/ records' = [records EXCEPT ![j].status = "Running"]
              \/ records' = [records EXCEPT ![j].committing = TRUE]
           /\ UNCHANGED <<inflight, liveBytes, history, historyMessages, historyBytes>>
  <2> DEFINE r == [records[j] EXCEPT !.status = "Running"]
             c == [records[j] EXCEPT !.committing = TRUE]
  <2>1. records[j] \in Record /\ Roomy(records[j])
    BY <1>3 DEF IInv, Shape, Admitted
  <2>2. /\ r.base = records[j].base /\ r.messages = records[j].messages
        /\ r.spent = records[j].spent
        /\ c.base = records[j].base /\ c.messages = records[j].messages
        /\ c.spent = records[j].spent
    BY <2>1 DEF Record
  <2>3. records' = [records EXCEPT ![j] = r] \/ records' = [records EXCEPT ![j] = c]
    BY <1>3
  <2> HIDE DEF r, c
  <2>4. Roomy(r) /\ Roomy(c)
    BY <2>1, <2>2 DEF Roomy
  <2> QED
    BY <1>3, <2>2, <2>3, <2>4, UpdateAccounts
<1> QED
  BY <1>1, <1>2, <1>3 DEF StartJob, ClaimTerminal, CommitStaged, registryVars

(* A message is weighed against what the job may still say.                  *)
LEMMA PushMessageAccounts ==
    ASSUME IInv, Rows, Admitted, Archived, NEW j \in Job, NEW m \in MessageBytes,
           PushMessage(j, m)
    PROVE  Accounted
<1> DEFINE rest == records[j].messages
           spent == records[j].spent
           spoken == [records[j] EXCEPT !.messages = Append(@, m), !.spent = @ + m]
<1>1. /\ j \in Live /\ spent + m <= MaxMessage
      /\ records' = [records EXCEPT ![j] = spoken]
      /\ UNCHANGED <<inflight, liveBytes, history, historyMessages, historyBytes>>
  BY DEF PushMessage
<1>2. records[j] \in Record /\ Roomy(records[j])
  BY <1>1 DEF IInv, Shape, Admitted
<1>3. /\ spoken.messages = Append(rest, m) /\ spoken.spent = spent + m
      /\ spoken.base = records[j].base
      /\ rest \in Seq(MessageBytes) /\ spent \in Nat /\ m \in Nat
  BY <1>2, ConfigAssumption DEF Record
<1> HIDE DEF spoken, rest, spent
<1>4. Total(Append(rest, m)) = Total(rest) + m /\ Total(rest) \in Nat
  BY <1>3, TotalIs
<1>5. Total(rest) <= spent /\ records[j].base + MaxError + MaxMessage <= MaxSingle
  BY <1>2 DEF Roomy, rest, spent
<1>6. Total(rest) + m <= spent + m
  BY <1>3, <1>4, <1>5
<1>7. Roomy(spoken)
  BY <1>1, <1>3, <1>4, <1>5, <1>6 DEF Roomy
<1> QED
  BY <1>1, <1>3, <1>7, UpdateAccounts

(* A drain gives no room back.                                               *)
LEMMA TakeMessagesAccounts ==
    ASSUME IInv, Rows, Admitted, Archived, NEW j \in Job, TakeMessages(j)
    PROVE  Accounted
<1>1. UNCHANGED <<inflight, liveBytes, history, historyBytes>>
  BY DEF TakeMessages
<1>2. CASE /\ j \in Live /\ UNCHANGED historyMessages
           /\ records' = [records EXCEPT ![j].messages = <<>>]
  <2> DEFINE none == <<>>
             drained == [records[j] EXCEPT !.messages = none]
  <2>1. records[j] \in Record /\ Roomy(records[j])
    BY <1>2 DEF IInv, Shape, Admitted
  <2>2. /\ drained.messages = none /\ drained.spent = records[j].spent
        /\ drained.base = records[j].base /\ records[j].spent \in Nat
    BY <2>1 DEF Record
  <2>3. records' = [records EXCEPT ![j] = drained]
    BY <1>2
  <2>4. none \in Seq(MessageBytes) /\ Len(none) = 0
    OBVIOUS
  <2> HIDE DEF none, drained
  <2>5. Total(none) = 0
    BY <2>4, TotalIs
  <2>6. Roomy(drained)
    BY <2>1, <2>2, <2>5 DEF Roomy
  <2> QED
    BY <1>1, <1>2, <2>2, <2>3, <2>6, UpdateAccounts
<1>3. CASE UNCHANGED records /\ historyMessages' = [historyMessages EXCEPT ![j] = <<>>]
  BY <1>1, <1>3, QuietAccounts DEF Live, Admitted
<1> QED
  BY <1>2, <1>3 DEF TakeMessages

(* admit() takes the size of the job and keeps room for its messages.        *)
LEMMA SubmitAccounts ==
    ASSUME IInv, Rows, Admitted, Archived, NEW j \in Job, NEW k \in Key \cup {NoKey},
           NEW b \in ParamBytes, Submit(j, k, b)
    PROVE  Accounted
<1> DEFINE none == <<>>
<1>1. /\ j \notin issued /\ Live' = Live \cup {j}
      /\ inflight < MaxInflight /\ inflight' = inflight + 1
      /\ b + MaxError + MaxMessage <= MaxSingle
      /\ liveBytes + b <= MaxLiveBytes /\ liveBytes' = liveBytes + b
      /\ records'[j].base = b /\ records'[j].messages = none /\ records'[j].spent = 0
      /\ \A i \in Live : i # j => records'[i] = records[i]
      /\ UNCHANGED <<history, historyMessages, historyBytes>>
  BY DEF Submit, Admissible, Live
<1>2. Live \subseteq issued /\ j \notin Live /\ b \in Nat
  BY <1>1, ConfigAssumption DEF IInv, Shape
<1>3. none \in Seq(MessageBytes) /\ Len(none) = 0
  OBVIOUS
<1> HIDE DEF none
<1>4. \A i \in Live' : Roomy(records'[i])
  <2>1. Total(none) = 0 /\ MaxMessage \in Nat
    BY <1>3, TotalIs, ConfigAssumption
  <2>2. Roomy(records'[j])
    BY <1>1, <2>1 DEF Roomy
  <2> QED
    BY <1>1, <2>2 DEF Admitted
<1>5. /\ IsFiniteSet(Live) /\ Bases \in [Live -> Int]
      /\ inflight = Cardinality(Live) /\ inflight \in Nat
      /\ liveBytes = SumFunction(Bases) /\ liveBytes \in Nat
  BY BasesAre DEF Admitted
<1>6. inflight' = Cardinality(Live') /\ inflight' <= MaxInflight
  <2>1. Cardinality(Live \cup {j}) = Cardinality(Live) + 1
    BY <1>2, <1>5, FS_AddElement
  <2>2. MaxInflight \in Nat
    BY ConfigAssumption
  <2> QED
    BY <1>1, <1>5, <2>1, <2>2
<1>7. liveBytes' = BaseOf(Live)'
  <2> DEFINE D == Live \cup {j}
             w == [i \in D |-> IF i = j THEN b ELSE Bases[i]]
  <2>1. /\ IsFiniteSet(D) /\ w \in [D -> Int] /\ w[j] = b /\ j \in D
        /\ D \ {j} = Live /\ \A y \in D \ {j} : Bases[y] = w[y]
    BY <1>2, <1>5, FS_AddElement
  <2>2. Bases \in [D \ {j} -> Int]
    BY <1>5, <2>1
  <2>3. \A i \in Live : Bases[i] = records[i].base
    BY DEF Bases
  <2>4. [i \in Live' |-> records'[i].base] = w
    BY <1>1, <1>2, <2>3
  <2> HIDE DEF w, D
  <2>5. SumFunction(Bases) = SumFunction(w) - w[j]
    BY ONLY <2>1, <2>2, SumWithout
  <2>6. SumFunction(w) \in Int
    BY ONLY <2>1, SumIsInt
  <2>7. BaseOf(Live)' = SumFunction(w)
    BY <2>4 DEF BaseOf
  <2>8. PICK sw : sw = SumFunction(w)
    OBVIOUS
  <2> QED
    BY <1>1, <1>2, <1>5, <2>1, <2>5, <2>6, <2>7, <2>8
<1>8. \A i \in Live' : Roomy(records[i])'
  BY <1>4 DEF Roomy
<1>9. liveBytes' <= MaxLiveBytes
  BY <1>1
<1>10. Admitted'
  BY <1>6, <1>7, <1>8, <1>9 DEF Admitted
<1>11. Archived'
  BY <1>1, QuietArchived
<1>12. FinalStep
  BY <1>1, QuietIsFinal
<1> QED
  BY <1>10, <1>11, <1>12 DEF Accounted

(* Every step of the registry keeps its books and what is terminal.          *)
LEMMA NextAccounts ==
    ASSUME IInv, Rows, Admitted, Archived, [Next]_vars
    PROVE  Accounted
<1>1. CASE CallerStep
  BY <1>1, SubmitAccounts, CancelAccounts, TakeMessagesAccounts, StopAccounts DEF CallerStep
<1>2. CASE PopFront \/ BootstrapDone \/ UNCHANGED vars
  <2>1. UNCHANGED <<records, inflight, liveBytes, history, historyMessages, historyBytes>>
    BY <1>2 DEF PopFront, BootstrapDone, vars, registryVars
  <2> QED
    BY <2>1, QuietAccounts DEF Live, Admitted
<1>3. ASSUME NEW j \in Job,
             \/ StartJob(j) \/ ClaimTerminal(j) \/ CommitStaged(j)
             \/ FinishClaimed(j) \/ FinishUnclaimed(j)
             \/ \E m \in MessageBytes : PushMessage(j, m)
      PROVE  Accounted
  BY <1>3, DriverAccounts, FinishStepAccounts, PushMessageAccounts
<1>4. CASE Break
  BY <1>4, StopAccounts
<1> QED
  BY <1>1, <1>2, <1>3, <1>4 DEF Next, DriverStep

(* The books of the empty registry.                                          *)
LEMMA InitAccounts == Init => Admitted /\ Archived
<1> SUFFICES ASSUME Init PROVE Admitted /\ Archived
  OBVIOUS
<1> DEFINE none == <<>>
<1>1. /\ Live = {} /\ DOMAIN historyMessages = {} /\ history = none
      /\ inflight = 0 /\ liveBytes = 0 /\ historyBytes = 0
  BY DEF Init, Live
<1>2. none \in Seq(Row) /\ Len(none) = 0 /\ DOMAIN none = {}
  OBVIOUS
<1> HIDE DEF none
<1>3. BaseOf({}) = 0 /\ Cardinality({}) = 0
  BY SumOfNone, FS_EmptySet DEF BaseOf
<1>4. {MaxInflight, MaxLiveBytes, MaxHistoryJobs, MaxHistoryBytes} \subseteq Nat
  BY ConfigAssumption
<1>5. Bytes(none) = 0
  BY <1>2, BytesIs
<1>6. Admitted
  BY <1>1, <1>3, <1>4 DEF Admitted
<1>7. Archived
  BY <1>1, <1>2, <1>4, <1>5 DEF Archived, Kept
<1> QED
  BY <1>6, <1>7

(* One row per id.                                                           *)
LEMMA KeptCounts ==
    ASSUME Rows, Archived
    PROVE  Cardinality(Kept) = Len(history)
<1> DEFINE n == Len(history)
           p == [i \in 1..n |-> history[i].id]
<1>1. n \in Nat /\ DOMAIN history = 1..n
  BY LenProperties DEF Archived
<1> HIDE DEF n
<1>2. Kept = {p[i] : i \in 1..n}
  BY <1>1 DEF Kept
<1>3. p \in Bijection(1..n, Kept)
  BY <1>1, <1>2 DEF Bijection, Injection, Surjection, IsInjective, Rows, Unique
<1> HIDE DEF p
<1>4. Cardinality(Kept) = n
  BY <1>1, <1>3, FS_CountingElements DEF ExistsBijection
<1> QED
  BY <1>4 DEF n

(* The messages of the history are a function of the ids.                    *)
Mapped == historyMessages = [j \in DOMAIN historyMessages |-> historyMessages[j]]

(* finish() leaves them one.                                                 *)
LEMMA FinishMaps ==
    ASSUME NEW order, NEW st, NEW why, NEW error, Finish(order, st, why, error)
    PROVE  Mapped'
<1>1. \E D : \E f : historyMessages' = [j \in D |-> IF j \in ToSet(order) THEN f[j] ELSE historyMessages[j]]
  <2> DEFINE f == [j \in ToSet(order) |-> records[j].messages]
  <2>1. PICK gone : historyMessages' =
           [j \in (DOMAIN historyMessages \cup ToSet(order)) \ gone |->
              IF j \in ToSet(order) THEN records[j].messages ELSE historyMessages[j]]
    BY DEF Finish
  <2>2. historyMessages' =
           [j \in (DOMAIN historyMessages \cup ToSet(order)) \ gone |->
              IF j \in ToSet(order) THEN f[j] ELSE historyMessages[j]]
    BY <2>1
  <2> QED
    BY <2>2
<1> QED
  BY <1>1 DEF Mapped

(* So does every step.                                                       *)
LEMMA NextMaps == Mapped /\ [Next]_vars => Mapped'
<1> SUFFICES ASSUME Mapped, [Next]_vars PROVE Mapped'
  OBVIOUS
<1>1. CASE UNCHANGED historyMessages
  BY <1>1 DEF Mapped
<1>2. ASSUME NEW j, historyMessages' = [historyMessages EXCEPT ![j] = <<>>]
      PROVE  Mapped'
  BY <1>2 DEF Mapped
<1>3. ASSUME NEW j, NEW st, NEW why, NEW error, FinishOne(j, st, why, error)
      PROVE  Mapped'
  BY <1>1, <1>3, FinishMaps DEF FinishOne
<1>4. CASE CallerStep
  <2>1. ASSUME NEW j \in Job, NEW k \in Key \cup {NoKey}, NEW b \in ParamBytes, Submit(j, k, b)
        PROVE  Mapped'
    BY <1>1, <2>1 DEF Submit
  <2>2. ASSUME NEW j \in Job, Cancel(j)
        PROVE  Mapped'
    BY <1>1, <1>3, <2>2 DEF Cancel
  <2>3. ASSUME NEW j \in Job, TakeMessages(j)
        PROVE  Mapped'
    BY <1>1, <1>2, <2>3 DEF TakeMessages
  <2>4. CASE Shutdown
    BY <2>4, FinishMaps DEF Shutdown
  <2>5. CASE DropRuntime
    BY <1>1, <2>5 DEF DropRuntime
  <2> QED
    BY <1>4, <2>1, <2>2, <2>3, <2>4, <2>5 DEF CallerStep
<1>5. CASE PopFront \/ BootstrapDone \/ UNCHANGED vars
  BY <1>1, <1>5 DEF PopFront, BootstrapDone, vars, registryVars
<1>6. CASE Break
  BY <1>6, FinishMaps DEF Break
<1>7. ASSUME NEW j \in Job, StartJob(j) \/ CommitStaged(j) \/ \E m \in MessageBytes : PushMessage(j, m)
      PROVE  Mapped'
  BY <1>1, <1>7 DEF StartJob, CommitStaged, PushMessage, registryVars
<1>8. ASSUME NEW j \in Job, ClaimTerminal(j) \/ FinishClaimed(j) \/ FinishUnclaimed(j)
      PROVE  Mapped'
  BY <1>1, <1>3, <1>8 DEF ClaimTerminal, FinishClaimed, FinishUnclaimed
<1> QED
  BY <1>4, <1>5, <1>6, <1>7, <1>8 DEF Next, DriverStep

(* The invariants give the whole of the bookkeeping.                         *)
LEMMA BooksAgree ==
    ASSUME IInv, Rows, Boxes, Admitted, Archived, Mapped
    PROVE  Accounting
<1>1. BaseOf(Live) \in Nat /\ Cardinality(Live) \in Nat
  BY BasesAre
<1>2. Bytes(history) \in Nat
  BY BytesIs DEF Archived
<1>3. issued \subseteq Job /\ Live \subseteq Job /\ published \subseteq Job
  BY DEF IInv, Shape
<1>4. /\ DOMAIN historyMessages \subseteq Job
      /\ historyMessages \in [DOMAIN historyMessages -> Seq(MessageBytes)]
  <2>1. \A j \in DOMAIN historyMessages : j \in issued \ Live /\ historyMessages[j] \in Seq(MessageBytes)
    BY DEF Boxes
  <2>2. historyMessages = [j \in DOMAIN historyMessages |-> historyMessages[j]]
    BY DEF Mapped
  <2> QED
    BY <1>3, <2>1, <2>2
<1>5. TypeOK
  BY <1>1, <1>2, <1>3, <1>4 DEF TypeOK, IInv, Shape, Boxes, Admitted, Archived
<1>6. CountersExact
  BY KeptCounts DEF CountersExact, Admitted, Archived
<1>7. WithinBudgets
  BY DEF WithinBudgets, Admitted, Archived
<1> QED
  BY <1>5, <1>6, <1>7 DEF Accounting

(* All of it holds in every reachable state.                                 *)
Books == IInv /\ Rows /\ MInv /\ Admitted /\ Archived /\ Mapped

(* The books are kept by every step.                                         *)
LEMMA BooksAreKept == Spec => []Books
<1>1. Init => Books
  <2> SUFFICES ASSUME Init PROVE Books
    OBVIOUS
  <2>1. Mapped
    BY DEF Init, Mapped
  <2> QED
    BY <2>1, InitIInv, InitRefines, InitMInv, InitAccounts DEF Books
<1>2. Books /\ [Next]_vars => Books'
  <2> SUFFICES ASSUME Books, [Next]_vars PROVE Books'
    OBVIOUS
  <2>1. IInv' /\ MInv' /\ Mapped'
    BY NextIInv, NextMInv, NextMaps DEF Books
  <2>2. Rows'
    BY NextRefines DEF Books
  <2>3. Admitted' /\ Archived'
    BY NextAccounts DEF Books, Accounted
  <2> QED
    BY <2>1, <2>2, <2>3 DEF Books
<1> QED
  BY <1>1, <1>2, PTL DEF Spec

(* The counters that admission and eviction trust are the real totals and    *)
(* stay inside the configuration, whatever the budgets and the sizes are: no *)
(* path of finish() forgets to give something back or gives it back twice,   *)
(* and no terminal row outgrows the room its admission has checked.          *)
THEOREM AccountsAreExact == Spec => []Accounting
<1>1. Books => Accounting
  BY BooksAgree DEF Books, MInv
<1> QED
  BY <1>1, BooksAreKept, PTL

(* What has ended stays ended: rows are kept in order, leave oldest first    *)
(* and only when a limit presses, and no id ever lives twice.                *)
THEOREM TerminalIsFinal == Spec => HistoryIsFinal
<1>1. Books /\ [Next]_vars => FinalStep
  BY NextAccounts DEF Books, Accounted
<1>2. Books /\ [Next]_vars =>
        [LET ended == Live \ Live' IN
         /\ \E n \in 0..Len(history) :
              /\ IsPrefix(AfterEviction(history, n), history')
              /\ n > 0 => \/ Len(history') = MaxHistoryJobs
                          \/ historyBytes' + history[n].bytes > MaxHistoryBytes
                          \/ ~(ended \subseteq Kept')
         /\ ended \subseteq Kept' \/ Kept \cap Kept' = {}
         /\ \A j \in issued \ Live : j \notin Live']_vars
  BY <1>1 DEF FinalStep
<1> QED
  BY <1>2, BooksAreKept, PTL DEF Spec, HistoryIsFinal
=============================================================================
