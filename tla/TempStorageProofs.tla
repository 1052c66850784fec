------------------------- MODULE TempStorageProofs -------------------------
(* Proofs about TempStorage for every set of jobs, sessions, addresses and   *)
(* budgets: a read gives the newest write, the write-set of a job becomes    *)
(* visible as a whole or not at all, and the credits of the jobs and of the  *)
(* global budget are accounted for exactly.                                  *)
EXTENDS TempStorage, CollectionTheorems

-----------------------------------------------------------------------------
(* The inductive invariant.                                                  *)

Mine(j) == {a \in Address : Owner[a] = Caller[j]}
Made == Nat \ {0}
WriteOf(j) == [id : Mine(j), val : Made, bytes : Nat]

InsertOp(s) == [pc : {"insert"}, id : {a \in Address : Owner[a] = s},
                entry : [seq : Nat, val : Made]]
MeasureOp(j) == [pc : {"measure"}, id : Mine(j), val : Made, need : Nat, got : Nat]
ReplaceOp(j) == [pc : {"replace"}, write : WriteOf(j)]
EndOp(j) == [pc : {"upgrade", "lock", "write"}, writes : Seq(WriteOf(j))]
OwnOp(s) == {Idle} \cup InsertOp(s)
JobOp(j) == OwnOp(j) \cup MeasureOp(j) \cup ReplaceOp(j) \cup EndOp(j)

Version == [seq : Nat, val : Nat]

(* Types of everything the argument reads; the credits are left out.  A job  *)
(* only handles writes at addresses of the session of its caller.            *)
Shape ==
    /\ DOMAIN op = Session
    /\ \A s \in Session : op[s] \in OwnOp(s) \/ (s \in Job /\ op[s] \in JobOp(s))
    /\ phase \in [Session -> {"new", "open", "ending", "over", "closed"}]
    /\ outcome \in [Job -> {"none", "published", "refused", "aborted"}]
    /\ local \in [Address -> Version] /\ committed \in [Address -> Version]
    /\ latest \in [Address -> Nat]
    /\ sequence \in [Session -> Nat]
    /\ DOMAIN mutex = Session
    /\ DOMAIN staged = Job /\ \A j \in Job : staged[j] \in Seq(WriteOf(j))
    /\ DOMAIN wrote = Job
    /\ made \in Nat

(* The owner has a number for a new value of a but has not inserted it.      *)
Pending(a) == At(Owner[a], "insert") /\ op[Owner[a]].id = a

(* A number of visibility that is in use is smaller than the next one.       *)
Numbered(a) ==
    /\ local[a].val # 0 => local[a].seq < sequence[Owner[a]]
    /\ committed[a].val # 0 => committed[a].seq < sequence[Owner[a]]
    /\ Pending(a) => op[Owner[a]].entry.seq < sequence[Owner[a]]

(* Between the two steps of a put a job may publish at the same address: the *)
(* pending value is the newest one exactly if it did not.                    *)
Newest(a) ==
    IF Pending(a)
    THEN LET e == op[Owner[a]].entry IN
         latest[a] = IF committed[a].val # 0 /\ committed[a].seq > e.seq
                     THEN committed[a].val ELSE e.val
    ELSE Value(a) = latest[a]

Reads ==
    \A a \in Address :
        /\ Numbered(a)
        /\ phase[Owner[a]] \in {"new", "open"} => Newest(a)

(* The values a job is responsible for, from the put to the end.             *)
Doing(o) ==
    IF o.pc = "measure" THEN {o.val}
    ELSE IF o.pc = "replace" THEN {o.write.val}
    ELSE IF o.pc \in {"upgrade", "lock", "write"} THEN Values(o.writes) ELSE {}
Held(j) == Doing(op[j]) \cup Values(staged[j]) \cup wrote[j]

(* They exist, and no value is the responsibility of two jobs.               *)
Apart ==
    /\ visible \subseteq 1..made
    /\ \A j \in Job : Held(j) \subseteq 1..made
    /\ \A j, k \in Job : j # k => Held(j) \cap Held(k) = {}

(* Where a job stands in the publication of its write-set.                   *)
Whole(j) ==
    /\ phase[j] \in {"new", "open"} => wrote[j] = {}
    /\ phase[j] \in {"new", "open"} \/ outcome[j] # "none" =>
          op[j].pc \notin {"upgrade", "lock", "write"}
    /\ phase[j] \in {"new", "open"} => outcome[j] = "none"
    /\ wrote[j] # {} => Mine(j) # {}
    /\ op[j].pc \in {"upgrade", "lock", "write"} =>
          wrote[j] \subseteq visible \cup Values(op[j].writes)
    /\ At(j, "write") => mutex[Caller[j]] = j
    /\ IF outcome[j] = "published"
       THEN wrote[j] \subseteq visible
       ELSE ~At(j, "write") => Held(j) \cap visible = {}

IInv == Shape /\ Reads /\ Apart /\ \A j \in Job : Whole(j)

-----------------------------------------------------------------------------
(* Sequences of writes.                                                      *)

(* The first write and the rest of them.                                     *)
LEMMA TailValues ==
    ASSUME NEW S, NEW s \in Seq(S), s # <<>>
    PROVE  /\ Head(s) \in S /\ Tail(s) \in Seq(S)
           /\ Values(s) = {Head(s).val} \cup Values(Tail(s))
<1> DEFINE t == Tail(s)
<1>1. /\ Head(s) \in S /\ Head(s) = s[1]
      /\ t \in Seq(S) /\ Len(t) = Len(s) - 1
      /\ \A i \in 1..Len(t) : t[i] = s[i + 1]
  BY HeadTailProperties
<1>2. /\ DOMAIN s = 1..Len(s) /\ Len(s) \in Nat /\ Len(s) # 0
      /\ DOMAIN t = 1..Len(t)
  BY <1>1, LenProperties, EmptySeq
<1> HIDE DEF t
<1>3. ASSUME NEW v \in Values(s)
      PROVE  v \in {Head(s).val} \cup Values(t)
  <2>1. PICK i \in 1..Len(s) : v = s[i].val
    BY <1>2 DEF Values
  <2>2. CASE i = 1
    BY <1>1, <2>1, <2>2
  <2>3. CASE i # 1
    <3>1. i - 1 \in 1..Len(t) /\ t[i - 1] = s[(i - 1) + 1] /\ (i - 1) + 1 = i
      BY <1>1, <1>2, <2>3
    <3> QED
      BY <1>2, <2>1, <3>1 DEF Values
  <2> QED
    BY <2>2, <2>3
<1>4. Head(s).val \in Values(s)
  BY <1>1, <1>2 DEF Values
<1>5. ASSUME NEW v \in Values(t)
      PROVE  v \in Values(s)
  <2>1. PICK i \in 1..Len(t) : v = t[i].val
    BY <1>2 DEF Values
  <2>2. i + 1 \in 1..Len(s) /\ t[i] = s[i + 1]
    BY <1>1, <1>2
  <2> QED
    BY <1>2, <2>1, <2>2 DEF Values
<1> QED
  BY <1>1, <1>3, <1>4, <1>5 DEF t

(* A write added at the end.                                                 *)
LEMMA AppendValues ==
    ASSUME NEW S, NEW s \in Seq(S), NEW w \in S
    PROVE  /\ Append(s, w) \in Seq(S)
           /\ Values(Append(s, w)) \subseteq Values(s) \cup {w.val}
<1> DEFINE t == Append(s, w)
<1>1. /\ t \in Seq(S) /\ Len(t) = Len(s) + 1
      /\ \A i \in 1..Len(s) : t[i] = s[i]
      /\ t[Len(s) + 1] = w
  BY AppendProperties
<1>2. /\ DOMAIN s = 1..Len(s) /\ Len(s) \in Nat
      /\ DOMAIN t = 1..Len(t)
  BY <1>1, LenProperties
<1> HIDE DEF t
<1>3. ASSUME NEW i \in DOMAIN t
      PROVE  t[i].val \in Values(s) \cup {w.val}
  <2>1. i \in 1..Len(s) \/ i = Len(s) + 1
    BY <1>1, <1>2
  <2> QED
    BY <1>1, <1>2, <2>1 DEF Values
<1>4. Values(t) \subseteq Values(s) \cup {w.val}
  BY <1>3 DEF Values
<1> QED
  BY <1>1, <1>4 DEF t

(* A write taken out of the middle.                                          *)
LEMMA RemoveValues ==
    ASSUME NEW S, NEW s \in Seq(S), NEW i \in DOMAIN s
    PROVE  /\ RemoveAt(s, i) \in Seq(S)
           /\ Values(RemoveAt(s, i)) \subseteq Values(s)
<1> DEFINE a == SubSeq(s, 1, i - 1)
           b == SubSeq(s, i + 1, Len(s))
           c == a \o b
<1>1. DOMAIN s = 1..Len(s) /\ Len(s) \in Nat /\ i \in 1..Len(s)
  BY LenProperties
<1>2. /\ a \in Seq(S) /\ Len(a) = i - 1
      /\ \A k \in 1..(i - 1) : a[k] = s[k]
  <2>1. \A k \in 1..(i - 1) : s[k] \in S
    BY <1>1, ElementOfSeq
  <2>2. /\ a \in Seq(S)
        /\ Len(a) = IF 1 <= i - 1 THEN (i - 1) - 1 + 1 ELSE 0
        /\ \A k \in 1..((i - 1) - 1 + 1) : a[k] = s[1 + k - 1]
    BY <1>1, <2>1, SubSeqProperties
  <2>3. \A k \in 1..(i - 1) : k \in 1..((i - 1) - 1 + 1) /\ 1 + k - 1 = k
    BY <1>1
  <2>4. \A k \in 1..(i - 1) : a[k] = s[k]
    BY <2>2, <2>3
  <2> QED
    BY <1>1, <2>2, <2>4
<1>3. /\ b \in Seq(S) /\ Len(b) = Len(s) - i
      /\ \A k \in 1..(Len(s) - i) : b[k] = s[i + k]
  <2>1. \A k \in (i + 1)..Len(s) : s[k] \in S
    BY <1>1, ElementOfSeq
  <2>2. /\ b \in Seq(S)
        /\ Len(b) = IF i + 1 <= Len(s) THEN Len(s) - (i + 1) + 1 ELSE 0
        /\ \A k \in 1..(Len(s) - (i + 1) + 1) : b[k] = s[(i + 1) + k - 1]
    BY <1>1, <2>1, SubSeqProperties
  <2>3. \A k \in 1..(Len(s) - i) :
           k \in 1..(Len(s) - (i + 1) + 1) /\ (i + 1) + k - 1 = i + k
    BY <1>1
  <2>4. \A k \in 1..(Len(s) - i) : b[k] = s[i + k]
    BY <2>2, <2>3
  <2> QED
    BY <1>1, <2>2, <2>4
<1> HIDE DEF a, b
<1>4. /\ c \in Seq(S) /\ Len(c) = Len(a) + Len(b)
      /\ \A k \in 1..(Len(a) + Len(b)) :
            c[k] = IF k <= Len(a) THEN a[k] ELSE b[k - Len(a)]
  BY <1>2, <1>3, ConcatProperties
<1>5. DOMAIN c = 1..Len(c)
  BY <1>4, LenProperties
<1> HIDE DEF c
<1>6. ASSUME NEW k \in DOMAIN c
      PROVE  \E n \in DOMAIN s : c[k] = s[n]
  <2>1. k \in 1..(Len(a) + Len(b)) /\ Len(a) + Len(b) = Len(s) - 1
    BY <1>1, <1>2, <1>3, <1>4, <1>5
  <2>2. CASE k <= i - 1
    <3>1. k \in 1..(i - 1) /\ c[k] = a[k] /\ k \in 1..Len(s)
      BY <1>1, <1>2, <1>4, <2>1, <2>2
    <3> QED
      BY <1>1, <1>2, <3>1
  <2>3. CASE k > i - 1
    <3>1. k - (i - 1) \in 1..(Len(s) - i) /\ c[k] = b[k - (i - 1)]
      BY <1>1, <1>2, <1>4, <2>1, <2>3
    <3>2. b[k - (i - 1)] = s[i + (k - (i - 1))] /\ i + (k - (i - 1)) \in 1..Len(s)
      BY <1>1, <1>3, <3>1
    <3> QED
      BY <1>1, <3>1, <3>2
  <2> QED
    BY <1>1, <2>1, <2>2, <2>3
<1>7. Values(c) \subseteq Values(s)
  BY <1>6 DEF Values
<1> QED
  BY <1>4, <1>7 DEF RemoveAt, a, b, c

-----------------------------------------------------------------------------
(* Steps that leave the addresses alone.                                     *)

(* The record of the operation a job is in, by its position.                 *)
LEMMA OpIs ==
    ASSUME Shape, NEW j \in Job
    PROVE  /\ j \in Session /\ op[j] \in JobOp(j)
           /\ At(j, "insert") => op[j] \in InsertOp(j)
           /\ At(j, "measure") => op[j] \in MeasureOp(j)
           /\ At(j, "replace") => op[j] \in ReplaceOp(j)
           /\ op[j].pc \in {"upgrade", "lock", "write"} => op[j] \in EndOp(j)
           /\ At(j, "idle") => Doing(op[j]) = {}
           /\ At(j, "insert") => Doing(op[j]) = {}
           /\ At(j, "measure") => Doing(op[j]) = {op[j].val}
           /\ At(j, "replace") => Doing(op[j]) = {op[j].write.val}
           /\ op[j].pc \in {"upgrade", "lock", "write"} =>
                 Doing(op[j]) = Values(op[j].writes)
<1>1. j \in Session /\ op[j] \in JobOp(j)
  BY DEF Shape, Session, JobOp
<1>2. /\ op[j] = Idle => op[j].pc = "idle"
      /\ op[j] \in InsertOp(j) => op[j].pc = "insert"
      /\ op[j] \in MeasureOp(j) => op[j].pc = "measure"
      /\ op[j] \in ReplaceOp(j) => op[j].pc = "replace"
      /\ op[j] \in EndOp(j) => op[j].pc \in {"upgrade", "lock", "write"}
  BY DEF Idle, InsertOp, MeasureOp, ReplaceOp, EndOp
<1>3. \/ op[j] = Idle \/ op[j] \in InsertOp(j) \/ op[j] \in MeasureOp(j)
      \/ op[j] \in ReplaceOp(j) \/ op[j] \in EndOp(j)
  BY <1>1 DEF JobOp, OwnOp
<1> QED
  BY <1>1, <1>2, <1>3 DEF At, Doing

(* A step that touches no entry and no number changes no read, and no put    *)
(* begins or ends but by the end of the session.                             *)
QuietFor(s) ==
    /\ op'[s] = op[s] \/ op'[s].pc # "insert"
    /\ phase'[s] \in {"new", "open"} =>
          /\ phase[s] \in {"new", "open"}
          /\ op'[s] = op[s] \/ op[s].pc # "insert"

(* When no session puts or begins a put, the reads stay what they were.     *)
LEMMA QuietReads ==
    ASSUME Reads, UNCHANGED <<local, committed, sequence, latest>>,
           \A s \in Session : QuietFor(s)
    PROVE  Reads'
<1> SUFFICES ASSUME NEW a \in Address
             PROVE  /\ Numbered(a)'
                    /\ (phase[Owner[a]] \in {"new", "open"})' => Newest(a)'
  BY DEF Reads
<1>1. Owner[a] \in Session
  BY StorageAssumption
<1>2. Numbered(a)' /\ Value(a)' = Value(a)
  <2>1. op'[Owner[a]] = op[Owner[a]] \/ ~Pending(a)'
    BY <1>1 DEF QuietFor, Pending, At
  <2> QED
    BY <2>1 DEF Reads, Numbered, Value, Pending, At
<1>3. ASSUME phase'[Owner[a]] \in {"new", "open"}
      PROVE  Newest(a)'
  <2>1. phase[Owner[a]] \in {"new", "open"}
    BY <1>1, <1>3 DEF QuietFor
  <2>2. Newest(a)
    BY <2>1 DEF Reads
  <2>3. CASE op'[Owner[a]] = op[Owner[a]]
    BY <1>2, <2>2, <2>3 DEF Newest, Pending, At
  <2>4. CASE op[Owner[a]].pc # "insert" /\ op'[Owner[a]].pc # "insert"
    BY <1>2, <2>2, <2>4 DEF Newest, Pending, At
  <2> QED
    BY <1>1, <1>3, <2>3, <2>4 DEF QuietFor
<1> QED
  BY <1>2, <1>3

(* A step of job j that works on its own operation and write-set only.  The  *)
(* values it is responsible for do not grow, but by a value that is new.     *)
JobStep(j) ==
    /\ UNCHANGED <<local, committed, sequence, latest, visible>>
    /\ DOMAIN op' = Session /\ DOMAIN mutex' = Session
    /\ DOMAIN staged' = Job /\ DOMAIN wrote' = Job
    /\ op'[j] \in JobOp(j) /\ staged'[j] \in Seq(WriteOf(j))
    /\ phase' \in [Session -> {"new", "open", "ending", "over", "closed"}]
    /\ outcome' \in [Job -> {"none", "published", "refused", "aborted"}]
    /\ \A s \in Session \ {j} : op'[s] = op[s] /\ phase'[s] = phase[s]
    /\ \A k \in Job \ {j} : /\ staged'[k] = staged[k] /\ wrote'[k] = wrote[k]
                            /\ outcome'[k] = outcome[k]
    /\ \A s \in Session : mutex'[s] = mutex[s] \/ mutex[s] \in {NoSession, j}
    /\ QuietFor(j)
    /\ made' \in Nat /\ made' >= made
    /\ Held(j)' \subseteq Held(j) \cup (made + 1)..made'
    /\ Whole(j)'

(* Such a step keeps the invariant.                                          *)
LEMMA JobStepKeeps ==
    ASSUME IInv, NEW j \in Job, JobStep(j)
    PROVE  IInv'
<1>1. j \in Session /\ Job \subseteq Session /\ NoSession \notin Session
  BY StorageAssumption DEF Session
<1>2. Shape'
  BY <1>1 DEF JobStep, IInv, Shape
<1>3. \A s \in Session : QuietFor(s)
  BY <1>1 DEF JobStep, QuietFor
<1>4. Reads'
  BY <1>3, QuietReads DEF JobStep, IInv
<1>5. /\ made \in Nat /\ made' \in Nat /\ made' >= made
      /\ visible' = visible /\ visible \subseteq 1..made
      /\ Held(j)' \subseteq Held(j) \cup (made + 1)..made'
  BY DEF JobStep, IInv, Shape, Apart
<1>6. \A k \in Job \ {j} : Held(k)' = Held(k)
  BY <1>1 DEF JobStep, Held
<1>7. \A k \in Job : Held(k) \subseteq 1..made
  BY DEF IInv, Apart
<1>8. 1..made \subseteq 1..made' /\ 1..made \cap (made + 1)..made' = {}
      /\ (made + 1)..made' \subseteq 1..made'
  BY <1>5
<1>9. Apart'
  <2>1. visible' \subseteq 1..made' /\ \A k \in Job : Held(k)' \subseteq 1..made'
    BY <1>5, <1>6, <1>7, <1>8
  <2>2. \A k, l \in Job : k # l => Held(k) \cap Held(l) = {}
    BY DEF IInv, Apart
  <2>3. \A k, l \in Job : k # l => Held(k)' \cap Held(l)' = {}
    BY <1>5, <1>6, <1>7, <1>8, <2>2
  <2> QED
    BY <2>1, <2>3 DEF Apart
<1>10. ASSUME NEW k \in Job \ {j}
       PROVE  Whole(k)'
  <2>1. /\ op'[k] = op[k] /\ phase'[k] = phase[k] /\ wrote'[k] = wrote[k]
        /\ outcome'[k] = outcome[k] /\ visible' = visible
        /\ Held(k)' = Held(k)
    BY <1>1, <1>6 DEF JobStep
  <2>2. Whole(k)
    BY DEF IInv
  <2>3. At(k, "write") => mutex'[Caller[k]] = k
    <3>1. Caller[k] \in Session /\ k # NoSession
      BY <1>1, StorageAssumption
    <3> QED
      BY <2>2, <3>1 DEF Whole, JobStep
  <2> QED
    BY <2>1, <2>2, <2>3 DEF Whole, At, Mine
<1>11. \A k \in Job : Whole(k)'
  BY <1>10 DEF JobStep
<1> QED
  BY <1>2, <1>4, <1>9, <1>11 DEF IInv

-----------------------------------------------------------------------------
(* Staging.                                                                  *)

(* While a job stages, only its operation and its staged writes change.      *)
StagingStep(j) ==
    /\ UNCHANGED <<phase, outcome, storageVars, wrote>>
    /\ op[j].pc \in {"idle", "measure", "replace"}
    /\ op'[j].pc \in {"idle", "measure", "replace"}
    /\ DOMAIN op' = Session /\ \A s \in Session \ {j} : op'[s] = op[s]
    /\ DOMAIN staged' = Job /\ \A k \in Job \ {j} : staged'[k] = staged[k]
    /\ op'[j] \in JobOp(j) /\ staged'[j] \in Seq(WriteOf(j))
    /\ made' \in Nat /\ made' >= made
    /\ Doing(op'[j]) \cup Values(staged'[j])
          \subseteq Doing(op[j]) \cup Values(staged[j]) \cup (made + 1)..made'

(* Such a step keeps the invariant.                                          *)
LEMMA StagingStepKeeps ==
    ASSUME IInv, NEW j \in Job, StagingStep(j)
    PROVE  IInv'
<1>1. j \in Session
  BY DEF Session
<1>2. Shape /\ Whole(j) /\ visible \subseteq 1..made
  BY DEF IInv, Apart
<1>3. /\ UNCHANGED <<local, committed, sequence, latest, visible, mutex, phase,
                     outcome, wrote>>
  BY DEF StagingStep, storageVars
<1>4. Held(j)' \subseteq Held(j) \cup (made + 1)..made'
  BY <1>3 DEF StagingStep, Held
<1>5. visible \cap (made + 1)..made' = {}
  BY <1>2 DEF Shape
<1>6. QuietFor(j)
  BY <1>3 DEF StagingStep, QuietFor
<1>7. Whole(j)'
  <2>1. ~At(j, "write") /\ ~At(j, "write")'
    BY DEF StagingStep, At
  <2>2. outcome[j] # "published" => Held(j)' \cap visible = {}
    BY <1>2, <1>4, <1>5, <2>1 DEF Whole
  <2> QED
    BY <1>2, <1>3, <2>1, <2>2 DEF Whole, StagingStep, Mine
<1>8. JobStep(j)
  BY <1>1, <1>2, <1>3, <1>4, <1>6, <1>7 DEF JobStep, StagingStep, Shape
<1> QED
  BY <1>8, JobStepKeeps

(* The put of a job begins with a value that nobody has.                     *)
LEMMA PutCallerKeeps ==
    ASSUME IInv, NEW j \in Job, NEW a \in Address, NEW n \in Sizes, PutCaller(j, a, n)
    PROVE  IInv'
<1> DEFINE o == [pc |-> "measure", id |-> a, val |-> made', need |-> n, got |-> 0]
<1>1. /\ Shape /\ At(j, "idle") /\ j \in Session
      /\ made' = made + 1 /\ made \in Nat
      /\ UNCHANGED <<phase, outcome, storageVars, staged, wrote>>
      /\ op' = [op EXCEPT ![j] = o]
      /\ a \in Mine(j) /\ n \in Nat
  BY StorageAssumption DEF PutCaller, IInv, Shape, Ready, Goto, Mine, Session
<1>2. o \in MeasureOp(j) /\ o.pc = "measure" /\ o.val = made + 1
  BY <1>1 DEF MeasureOp, Made
<1>3. Doing(o) = {made + 1} /\ made + 1 \in (made + 1)..made'
  BY <1>1, <1>2 DEF Doing
<1> HIDE DEF o
<1>4. op'[j] = o /\ DOMAIN op' = Session /\ \A s \in Session \ {j} : op'[s] = op[s]
  BY <1>1 DEF Shape
<1>5. StagingStep(j)
  BY <1>1, <1>2, <1>3, <1>4 DEF StagingStep, Shape, At, JobOp
<1> QED
  BY <1>5, StagingStepKeeps

(* Measuring, refused or granted, keeps the value; a refusal drops it.       *)
LEMMA MeasuringKeeps ==
    ASSUME IInv, NEW j \in Job, Grow(j) \/ Refuse(j) \/ Snap(j)
    PROVE  IInv'
<1>1. /\ Shape /\ At(j, "measure") /\ j \in Session
      /\ op[j] \in MeasureOp(j) /\ Doing(op[j]) = {op[j].val}
      /\ UNCHANGED <<phase, outcome, storageVars, staged, wrote, made>>
      /\ made \in Nat
  BY OpIs DEF Grow, Refuse, Snap, IInv, Shape
<1>2. ASSUME NEW o, o \in JobOp(j), o.pc \in {"idle", "measure", "replace"},
             Doing(o) \subseteq {op[j].val},
             op' = [op EXCEPT ![j] = o]
      PROVE  IInv'
  <2>1. op'[j] = o /\ DOMAIN op' = Session /\ \A s \in Session \ {j} : op'[s] = op[s]
    BY <1>1, <1>2 DEF Shape
  <2>2. StagingStep(j)
    BY <1>1, <1>2, <2>1 DEF StagingStep, Shape, At
  <2> QED
    BY <2>2, StagingStepKeeps
<1>3. CASE Grow(j)
  <2> DEFINE o == [op[j] EXCEPT !.got = @ + 1]
  <2>1. o \in MeasureOp(j) /\ o.pc = "measure" /\ o.val = op[j].val
    BY <1>1 DEF MeasureOp
  <2>2. op' = [op EXCEPT ![j] = o]
    BY <1>3 DEF Grow
  <2>3. Doing(o) = {op[j].val}
    BY <2>1 DEF Doing
  <2> HIDE DEF o
  <2> QED
    BY <1>2, <2>1, <2>2, <2>3 DEF JobOp
<1>4. CASE Refuse(j)
  <2>1. Idle \in JobOp(j) /\ Idle.pc = "idle" /\ Doing(Idle) = {}
    BY DEF JobOp, OwnOp, Idle, Doing
  <2> QED
    BY <1>2, <1>4, <2>1 DEF Refuse, Goto
<1>5. CASE Snap(j)
  <2>1. PICK bytes \in 1..op[j].need :
           Goto(j, [pc |-> "replace",
                    write |-> [id |-> op[j].id, val |-> op[j].val, bytes |-> bytes]])
    BY <1>5 DEF Snap
  <2> DEFINE w == [id |-> op[j].id, val |-> op[j].val, bytes |-> bytes]
             o == [pc |-> "replace", write |-> w]
  <2>2. bytes \in Nat
    BY <1>1, <2>1 DEF MeasureOp
  <2>3. w \in WriteOf(j) /\ w.val = op[j].val
    BY <1>1, <2>2 DEF MeasureOp, WriteOf
  <2>4. op' = [op EXCEPT ![j] = o]
    BY <2>1 DEF Goto
  <2> HIDE DEF w
  <2>5. o \in ReplaceOp(j) /\ o.pc = "replace" /\ o.write = w
    BY <2>3 DEF ReplaceOp
  <2>6. Doing(o) = {op[j].val}
    BY <2>3, <2>5 DEF Doing
  <2> HIDE DEF o
  <2> QED
    BY <1>2, <2>4, <2>5, <2>6 DEF JobOp
<1> QED
  BY <1>3, <1>4, <1>5

(* The snapshot takes the place of an earlier write at the same address.     *)
LEMMA ReplaceKeeps ==
    ASSUME IInv, NEW j \in Job, Replace(j)
    PROVE  IInv'
<1> DEFINE w == op[j].write
           S == WriteOf(j)
<1>1. /\ Shape /\ At(j, "replace") /\ j \in Session
      /\ w \in S /\ Doing(op[j]) = {w.val}
      /\ UNCHANGED <<phase, outcome, storageVars, wrote, made>>
      /\ op' = [op EXCEPT ![j] = Idle]
      /\ made \in Nat /\ staged[j] \in Seq(S)
  BY OpIs DEF Replace, IInv, Shape, Goto, ReplaceOp
<1>2. Idle \in JobOp(j) /\ Idle.pc = "idle" /\ Doing(Idle) = {}
  BY DEF JobOp, OwnOp, Idle, Doing
<1>3. op'[j] = Idle /\ DOMAIN op' = Session /\ \A s \in Session \ {j} : op'[s] = op[s]
  BY <1>1 DEF Shape
<1>4. \/ staged' = [staged EXCEPT ![j] = Append(@, w)]
      \/ \E i \in DOMAIN staged[j] :
            staged' = [staged EXCEPT ![j] = Append(RemoveAt(@, i), w)]
  BY DEF Replace
<1> HIDE DEF w, S
<1>5. PICK kept \in Seq(S) : /\ Values(kept) \subseteq Values(staged[j])
                             /\ staged' = [staged EXCEPT ![j] = Append(kept, w)]
  <2>1. CASE staged' = [staged EXCEPT ![j] = Append(@, w)]
    BY <1>1, <2>1
  <2>2. ASSUME NEW i \in DOMAIN staged[j],
               staged' = [staged EXCEPT ![j] = Append(RemoveAt(@, i), w)]
        PROVE  \E kept \in Seq(S) :
                  /\ Values(kept) \subseteq Values(staged[j])
                  /\ staged' = [staged EXCEPT ![j] = Append(kept, w)]
    <3>1. /\ RemoveAt(staged[j], i) \in Seq(S)
          /\ Values(RemoveAt(staged[j], i)) \subseteq Values(staged[j])
      BY <1>1, RemoveValues
    <3> QED
      BY <2>2, <3>1
  <2> QED
    BY <1>4, <2>1, <2>2
<1>6. /\ Append(kept, w) \in Seq(S)
      /\ Values(Append(kept, w)) \subseteq Values(kept) \cup {w.val}
  BY <1>1, AppendValues
<1>7. /\ DOMAIN staged' = Job /\ \A k \in Job \ {j} : staged'[k] = staged[k]
      /\ staged'[j] = Append(kept, w)
  BY <1>1, <1>5 DEF Shape
<1>8. Doing(op'[j]) \cup Values(staged'[j]) \subseteq Doing(op[j]) \cup Values(staged[j])
  BY <1>1, <1>2, <1>3, <1>5, <1>6, <1>7
<1>9. StagingStep(j)
  BY <1>1, <1>2, <1>3, <1>6, <1>7, <1>8 DEF StagingStep, Shape, At, S
<1> QED
  BY <1>9, StagingStepKeeps

-----------------------------------------------------------------------------
(* The end of a job.                                                         *)

(* After the claim only the outcome of the job, its operation, its phase and *)
(* the lock of its caller change; no value is added.                         *)
EndingStep(j) ==
    /\ UNCHANGED <<issued, ever, local, committed, sequence, latest, visible, wrote, made>>
    /\ DOMAIN op' = Session /\ \A s \in Session \ {j} : op'[s] = op[s]
    /\ op'[j] \in JobOp(j) /\ Doing(op'[j]) \subseteq Doing(op[j])
    /\ op'[j].pc # "insert" \/ op'[j] = op[j]
    /\ op[j].pc # "insert" \/ phase'[j] \notin {"new", "open"} \/ op'[j] = op[j]
    /\ \E ph \in {"over", "closed", phase[j]} : phase' = [phase EXCEPT ![j] = ph]
    /\ \E out \in {"published", "refused", "aborted", outcome[j]} :
          outcome' = [outcome EXCEPT ![j] = out]
    /\ \/ UNCHANGED staged
       \/ staged' = [staged EXCEPT ![j] = <<>>]
    /\ \/ UNCHANGED mutex
       \/ /\ mutex[Caller[j]] \in {NoSession, j}
          /\ \E h \in {NoSession, j} : mutex' = [mutex EXCEPT ![Caller[j]] = h]
    /\ Whole(j)'

(* Such a step keeps the invariant.                                          *)
LEMMA EndingStepKeeps ==
    ASSUME IInv, NEW j \in Job, EndingStep(j)
    PROVE  IInv'
<1>1. /\ j \in Session /\ Shape /\ Caller[j] \in Session
      /\ <<>> \in Seq(WriteOf(j)) /\ staged[j] \in Seq(WriteOf(j))
  BY StorageAssumption, EmptySeq DEF Session, IInv, Shape
<1>2. Values(<<>>) = {}
  BY DEF Values
<1>3. /\ DOMAIN staged' = Job /\ staged'[j] \in {<<>>, staged[j]}
      /\ \A k \in Job \ {j} : staged'[k] = staged[k]
  BY <1>1 DEF Shape, EndingStep
<1>4. staged'[j] \in Seq(WriteOf(j)) /\ Values(staged'[j]) \subseteq Values(staged[j])
  BY <1>1, <1>2, <1>3
<1>5. Held(j)' \subseteq Held(j)
  BY <1>4 DEF EndingStep, Held
<1>6. /\ DOMAIN mutex' = Session
      /\ \A s \in Session : mutex'[s] = mutex[s] \/ mutex[s] \in {NoSession, j}
  BY <1>1 DEF EndingStep, Shape
<1>7. /\ phase' \in [Session -> {"new", "open", "ending", "over", "closed"}]
      /\ phase'[j] \in {"new", "open"} => phase'[j] = phase[j]
      /\ \A s \in Session \ {j} : phase'[s] = phase[s]
      /\ outcome' \in [Job -> {"none", "published", "refused", "aborted"}]
      /\ \A k \in Job \ {j} : outcome'[k] = outcome[k]
  <2>1. PICK ph \in {"over", "closed", phase[j]} : phase' = [phase EXCEPT ![j] = ph]
    BY DEF EndingStep
  <2>2. PICK out \in {"published", "refused", "aborted", outcome[j]} :
           outcome' = [outcome EXCEPT ![j] = out]
    BY DEF EndingStep
  <2>3. /\ ph \in {"new", "open", "ending", "over", "closed"}
        /\ out \in {"none", "published", "refused", "aborted"}
    BY <1>1 DEF Shape
  <2> QED
    BY <1>1, <2>1, <2>2, <2>3 DEF Shape
<1>8. QuietFor(j)
  BY <1>7 DEF EndingStep, QuietFor
<1>9. made \in Nat /\ made' = made /\ DOMAIN wrote' = Job /\ wrote' = wrote
  BY <1>1 DEF EndingStep, Shape
<1>10. JobStep(j)
  BY <1>3, <1>4, <1>5, <1>6, <1>7, <1>8, <1>9 DEF JobStep, EndingStep
<1> QED
  BY <1>10, JobStepKeeps

(* submit starts a job: nothing has happened yet.                            *)
LEMMA StartJobKeeps ==
    ASSUME IInv, NEW j \in Job, StartJob(j)
    PROVE  IInv'
<1>1. /\ j \in Session /\ Shape /\ Whole(j) /\ phase[j] = "new"
      /\ phase' = [phase EXCEPT ![j] = "open"]
      /\ UNCHANGED <<local, committed, sequence, latest, visible, mutex, op, outcome,
                     staged, wrote, made>>
  BY DEF StartJob, storageVars, IInv, Session
<1>2. /\ phase' \in [Session -> {"new", "open", "ending", "over", "closed"}]
      /\ phase'[j] = "open"
      /\ \A s \in Session \ {j} : phase'[s] = phase[s]
  BY <1>1 DEF Shape
<1>3. Held(j)' = Held(j) /\ made \in Nat
  BY <1>1 DEF Held, Shape
<1>4. Whole(j)'
  BY <1>1, <1>2, <1>3 DEF Whole, At, Mine
<1>5. op[j] \in JobOp(j)
  BY <1>1, OpIs
<1>6. JobStep(j)
  BY <1>1, <1>2, <1>3, <1>4, <1>5 DEF JobStep, QuietFor, Shape
<1> QED
  BY <1>6, JobStepKeeps

(* take_staged: what was staged is the write-set.                            *)
LEMMA TakeStagedKeeps ==
    ASSUME IInv, NEW j \in Job, TakeStaged(j)
    PROVE  IInv'
<1> DEFINE end == [pc |-> "upgrade", writes |-> staged[j]]
<1>1. /\ j \in Session /\ Shape /\ Whole(j) /\ phase[j] = "open" /\ At(j, "idle")
      /\ staged' = [staged EXCEPT ![j] = <<>>]
      /\ wrote' = [wrote EXCEPT ![j] = Values(staged[j])]
      /\ phase' = [phase EXCEPT ![j] = "ending"]
      /\ UNCHANGED <<issued, ever, local, committed, sequence, latest, visible, mutex, made>>
      /\ staged[j] \in Seq(WriteOf(j))
      /\ Caller[j] \in Session
  BY StorageAssumption DEF TakeStaged, Ready, storageVars, IInv, Shape, Session
<1>2. phase'[j] = "ending" /\ wrote'[j] = Values(staged[j])
  BY <1>1 DEF Shape
<1>3. outcome[j] = "none" /\ Held(j) \cap visible = {} /\ Values(staged[j]) \subseteq Held(j)
  BY <1>1 DEF Whole, At, Held
<1>4. Values(staged[j]) # {} => Mine(j) # {}
  <2>1. \A i \in DOMAIN staged[j] : staged[j][i] \in WriteOf(j)
    BY <1>1, ElementOfSeq, LenProperties
  <2>2. \A w \in WriteOf(j) : w.id \in Mine(j)
    BY DEF WriteOf
  <2> QED
    BY <2>1, <2>2 DEF Values
<1>5. Values(<<>>) = {}
  BY DEF Values
<1>6. staged'[j] = <<>>
  BY <1>1 DEF Shape
<1>7. CASE staged[j] = <<>>
  <2>1. outcome' = [outcome EXCEPT ![j] = "published"] /\ op' = op
    BY <1>7 DEF TakeStaged
  <2>2. outcome'[j] = "published" /\ wrote'[j] = {} /\ op'[j].pc = "idle"
    BY <1>1, <1>2, <1>5, <1>7, <2>1 DEF Shape, At
  <2>3. Whole(j)'
    BY <1>2, <2>2 DEF Whole, At, Mine
  <2>4. Doing(op'[j]) = {} /\ op'[j] \in JobOp(j)
    BY <1>1, <2>1, OpIs
  <2>5. JobStep(j)
    BY <1>1, <1>2, <1>3, <1>5, <1>6, <2>1, <2>2, <2>3, <2>4
    DEF JobStep, QuietFor, Shape, Held
  <2> QED
    BY <2>5, JobStepKeeps
<1>8. CASE staged[j] # <<>>
  <2>1. op' = [op EXCEPT ![j] = end] /\ outcome' = outcome
    BY <1>8 DEF TakeStaged, Goto
  <2>2. end \in EndOp(j) /\ end.pc = "upgrade" /\ end.writes = staged[j]
    BY <1>1 DEF EndOp
  <2>3. Doing(end) = Values(staged[j])
    BY <2>2 DEF Doing
  <2> HIDE DEF end
  <2>4. op'[j] = end /\ DOMAIN op' = Session /\ \A s \in Session \ {j} : op'[s] = op[s]
    BY <1>1, <2>1 DEF Shape
  <2>5. Held(j)' = Values(staged[j])
    BY <1>2, <1>5, <1>6, <2>3, <2>4 DEF Held
  <2>6. Whole(j)'
    BY <1>1, <1>2, <1>3, <1>4, <2>1, <2>2, <2>4, <2>5 DEF Whole, At, Mine
  <2>7. end \in JobOp(j)
    BY <2>2 DEF JobOp
  <2>8. JobStep(j)
    BY <1>1, <1>2, <1>3, <1>6, <2>1, <2>2, <2>4, <2>5, <2>6, <2>7
    DEF JobStep, QuietFor, Shape
  <2> QED
    BY <2>8, JobStepKeeps
<1> QED
  BY <1>7, <1>8

(* commit, until its first write: the session of the caller is looked up and *)
(* its mailbox is locked.                                                    *)
LEMMA LockingKeeps ==
    ASSUME IInv, NEW j \in Job, Upgrade(j) \/ Lock(j)
    PROVE  IInv'
<1>1. /\ j \in Session /\ Shape /\ Whole(j) /\ Caller[j] \in Session
      /\ op[j].pc \in {"upgrade", "lock"} /\ op[j] \in EndOp(j)
      /\ Doing(op[j]) = Values(op[j].writes)
      /\ UNCHANGED <<issued, ever, local, committed, sequence, latest, visible, wrote,
                     made, phase, staged>>
  BY StorageAssumption, OpIs DEF Upgrade, Lock, At, storageVars, IInv, Session
<1>2. /\ outcome[j] = "none" /\ phase[j] \notin {"new", "open"}
      /\ Held(j) \cap visible = {}
      /\ wrote[j] \subseteq visible \cup Values(op[j].writes)
  BY <1>1 DEF Whole, At, Shape
<1>3. phase' = [phase EXCEPT ![j] = phase[j]] /\ outcome = [outcome EXCEPT ![j] = outcome[j]]
  BY <1>1 DEF Shape
<1>4. ASSUME NEW pc \in {"lock", "write"}, op' = [op EXCEPT ![j] = [op[j] EXCEPT !.pc = pc]],
             outcome' = outcome,
             pc = "write" => mutex'[Caller[j]] = j,
             \/ UNCHANGED mutex
             \/ /\ mutex[Caller[j]] \in {NoSession, j}
                /\ mutex' = [mutex EXCEPT ![Caller[j]] = j]
      PROVE  IInv'
  <2> DEFINE o == [op[j] EXCEPT !.pc = pc]
  <2>1. o \in EndOp(j) /\ o.pc = pc /\ o.writes = op[j].writes
    BY <1>1 DEF EndOp
  <2>2. Doing(o) = Doing(op[j])
    BY <1>1, <2>1 DEF Doing
  <2>3. op' = [op EXCEPT ![j] = o]
    BY <1>4
  <2> HIDE DEF o
  <2>4. op'[j] = o /\ DOMAIN op' = Session /\ \A s \in Session \ {j} : op'[s] = op[s]
    BY <1>1, <2>3 DEF Shape
  <2>5. Held(j)' = Held(j)
    BY <1>1, <2>2, <2>4 DEF Held
  <2>6. Whole(j)'
    BY <1>1, <1>2, <1>4, <2>1, <2>4, <2>5 DEF Whole, At, Mine
  <2>7. o \in JobOp(j) /\ o.pc # "insert"
    BY <2>1 DEF JobOp
  <2>8. EndingStep(j)
    BY <1>1, <1>3, <1>4, <2>2, <2>4, <2>6, <2>7 DEF EndingStep
  <2> QED
    BY <2>8, EndingStepKeeps
<1>5. ASSUME op' = [op EXCEPT ![j] = Idle], outcome' = [outcome EXCEPT ![j] = "refused"],
             UNCHANGED mutex
      PROVE  IInv'
  <2>1. Idle \in JobOp(j) /\ Idle.pc = "idle" /\ Doing(Idle) = {}
    BY DEF JobOp, OwnOp, Idle, Doing
  <2>2. /\ op'[j] = Idle /\ DOMAIN op' = Session /\ \A s \in Session \ {j} : op'[s] = op[s]
        /\ outcome'[j] = "refused"
    BY <1>1, <1>5 DEF Shape
  <2>3. Held(j)' \subseteq Held(j)
    BY <1>1, <2>1, <2>2 DEF Held
  <2>4. Whole(j)'
    BY <1>1, <1>2, <2>1, <2>2, <2>3 DEF Whole, At, Mine
  <2>5. EndingStep(j)
    BY <1>1, <1>3, <1>5, <2>1, <2>2, <2>4 DEF EndingStep
  <2> QED
    BY <2>5, EndingStepKeeps
<1>6. CASE Upgrade(j)
  BY <1>4, <1>5, <1>6 DEF Upgrade, Goto, storageVars
<1>7. CASE Lock(j)
  <2>1. mutex'[Caller[j]] = j
    BY <1>1, <1>7 DEF Lock, Shape
  <2> QED
    BY <1>4, <1>7, <2>1 DEF Lock, Goto
<1> QED
  BY <1>6, <1>7

(* The last write is out: the mailbox is unlocked.                           *)
LEMMA UnlockKeeps ==
    ASSUME IInv, NEW j \in Job, Unlock(j)
    PROVE  IInv'
<1>1. /\ j \in Session /\ Shape /\ Whole(j) /\ Caller[j] \in Session
      /\ At(j, "write") /\ op[j].writes = <<>>
      /\ mutex' = [mutex EXCEPT ![Caller[j]] = NoSession]
      /\ outcome' = [outcome EXCEPT ![j] = "published"]
      /\ op' = [op EXCEPT ![j] = Idle]
      /\ UNCHANGED <<issued, ever, local, committed, sequence, latest, visible, wrote,
                     made, phase, staged>>
  BY StorageAssumption DEF Unlock, Goto, IInv, Session
<1>2. Values(<<>>) = {}
  BY DEF Values
<1>3. wrote[j] \subseteq visible /\ mutex[Caller[j]] = j /\ phase[j] \notin {"new", "open"}
  BY <1>1, <1>2 DEF Whole, At
<1>4. Idle \in JobOp(j) /\ Idle.pc = "idle" /\ Doing(Idle) = {}
  BY DEF JobOp, OwnOp, Idle, Doing
<1>5. /\ op'[j] = Idle /\ DOMAIN op' = Session /\ \A s \in Session \ {j} : op'[s] = op[s]
      /\ outcome'[j] = "published" /\ phase' = [phase EXCEPT ![j] = phase[j]]
  BY <1>1 DEF Shape
<1>6. Whole(j)'
  BY <1>1, <1>3, <1>4, <1>5 DEF Whole, At, Mine
<1>7. op[j].pc # "insert"
  BY <1>1 DEF At
<1>8. EndingStep(j)
  BY <1>1, <1>3, <1>4, <1>5, <1>6, <1>7 DEF EndingStep
<1> QED
  BY <1>8, EndingStepKeeps

(* The end is announced, and the session goes.                               *)
LEMMA LeavingKeeps ==
    ASSUME IInv, NEW j \in Job, Finish(j) \/ DropSession(j)
    PROVE  IInv'
<1>1. /\ j \in Session /\ Shape /\ Whole(j)
      /\ phase[j] \in {"ending", "over"}
      /\ \E ph \in {"over", "closed"} : phase' = [phase EXCEPT ![j] = ph]
      /\ staged' = staged \/ staged' = [staged EXCEPT ![j] = <<>>]
      /\ UNCHANGED <<issued, ever, local, committed, sequence, latest, visible, mutex,
                     wrote, made, op, outcome>>
  BY DEF Finish, DropSession, storageVars, IInv, Session
<1>2. Values(<<>>) = {}
  BY DEF Values
<1>3. staged'[j] \in {<<>>, staged[j]} /\ phase'[j] \in {"over", "closed"}
  BY <1>1 DEF Shape
<1>4. Held(j)' \subseteq Held(j)
  BY <1>1, <1>2, <1>3 DEF Held
<1>5. Whole(j)'
  BY <1>1, <1>3, <1>4 DEF Whole, At, Mine
<1>6. /\ op[j] \in JobOp(j) /\ outcome' = [outcome EXCEPT ![j] = outcome[j]]
      /\ DOMAIN op' = Session
  BY <1>1, OpIs DEF Shape
<1>7. EndingStep(j)
  BY <1>1, <1>5, <1>6 DEF EndingStep
<1> QED
  BY <1>7, EndingStepKeeps

(* A cancel or a panic before the claim: nothing was published.              *)
LEMMA AbortKeeps ==
    ASSUME IInv, NEW j \in Job, Abort(j)
    PROVE  IInv'
<1>1. /\ j \in Session /\ Shape /\ Whole(j) /\ phase[j] = "open"
      /\ phase' = [phase EXCEPT ![j] = "over"]
      /\ outcome' = [outcome EXCEPT ![j] = "aborted"]
      /\ op' = [op EXCEPT ![j] = Idle]
      /\ UNCHANGED <<issued, ever, local, committed, sequence, latest, visible, mutex,
                     wrote, made, staged>>
  BY DEF Abort, Goto, storageVars, IInv, Session
<1>2. /\ wrote[j] = {} /\ ~At(j, "write") /\ outcome[j] = "none"
      /\ Held(j) \cap visible = {}
  BY <1>1 DEF Whole, At
<1>3. Idle \in JobOp(j) /\ Idle.pc = "idle" /\ Doing(Idle) = {}
  BY DEF JobOp, OwnOp, Idle, Doing
<1>4. /\ op'[j] = Idle /\ DOMAIN op' = Session /\ \A s \in Session \ {j} : op'[s] = op[s]
      /\ outcome'[j] = "aborted" /\ phase'[j] = "over"
  BY <1>1 DEF Shape
<1>5. Held(j)' \subseteq Held(j)
  BY <1>1, <1>3, <1>4 DEF Held
<1>6. Whole(j)'
  BY <1>1, <1>2, <1>3, <1>4, <1>5 DEF Whole, At, Mine
<1>7. EndingStep(j)
  BY <1>1, <1>3, <1>4, <1>6 DEF EndingStep
<1> QED
  BY <1>7, EndingStepKeeps

(* One write of the set is published: it gets the next number of the session *)
(* of the caller and is newer than all there is at its address.              *)
LEMMA WriteNextKeeps ==
    ASSUME IInv, NEW j \in Job, WriteNext(j)
    PROVE  IInv'
<1> DEFINE w == Head(op[j].writes)
           c == Caller[j]
           n == sequence[c]
           o == [op[j] EXCEPT !.writes = Tail(@)]
<1>1. /\ j \in Session /\ Shape /\ Whole(j) /\ c \in Session
      /\ At(j, "write") /\ op[j].writes # <<>>
      /\ op[j] \in EndOp(j) /\ Doing(op[j]) = Values(op[j].writes)
      /\ committed' = [committed EXCEPT ![w.id] = [seq |-> n, val |-> w.val]]
      /\ sequence' = [sequence EXCEPT ![c] = @ + 1]
      /\ latest' = [latest EXCEPT ![w.id] = w.val]
      /\ visible' = visible \cup {w.val}
      /\ op' = [op EXCEPT ![j] = o]
      /\ UNCHANGED <<phase, outcome, local, mutex, staged, made, wrote>>
  BY StorageAssumption, OpIs DEF WriteNext, Goto, At, IInv, Session
<1>2. /\ w \in WriteOf(j) /\ Tail(op[j].writes) \in Seq(WriteOf(j))
      /\ Values(op[j].writes) = {w.val} \cup Values(Tail(op[j].writes))
  <2>1. op[j].writes \in Seq(WriteOf(j))
    BY <1>1 DEF EndOp
  <2> QED
    BY <1>1, <2>1, TailValues
<1>3. /\ w.id \in Address /\ Owner[w.id] = c /\ w.val \in Nat /\ w.val # 0
      /\ n \in Nat
  BY <1>1, <1>2 DEF WriteOf, Mine, Made, Shape
<1>4. /\ o \in EndOp(j) /\ o.pc = "write" /\ o.writes = Tail(op[j].writes)
  BY <1>1, <1>2 DEF EndOp, At
<1>5. Doing(o) = Values(Tail(op[j].writes))
  BY <1>4 DEF Doing
<1> HIDE DEF w, o
<1>6. op'[j] = o /\ DOMAIN op' = Session /\ \A s \in Session \ {j} : op'[s] = op[s]
  BY <1>1 DEF Shape
<1>7. /\ sequence' \in [Session -> Nat] /\ sequence'[c] = n + 1
      /\ \A s \in Session : s # c => sequence'[s] = sequence[s]
  BY <1>1, <1>3 DEF Shape
<1>8. /\ committed' \in [Address -> Version]
      /\ committed'[w.id].seq = n /\ committed'[w.id].val = w.val
      /\ latest' \in [Address -> Nat] /\ latest'[w.id] = w.val
      /\ \A a \in Address : a # w.id => committed'[a] = committed[a] /\ latest'[a] = latest[a]
  BY <1>1, <1>3 DEF Shape, Version
<1>9. Shape'
  <2>1. o \in JobOp(j)
    BY <1>4 DEF JobOp
  <2> QED
    BY <1>1, <1>6, <1>7, <1>8, <2>1 DEF Shape
<1>10. Reads'
  <2> SUFFICES ASSUME NEW a \in Address
               PROVE  /\ Numbered(a)'
                      /\ (phase[Owner[a]] \in {"new", "open"})' => Newest(a)'
    BY DEF Reads
  <2>1. /\ Owner[a] \in Session /\ Numbered(a)
        /\ phase[Owner[a]] \in {"new", "open"} => Newest(a)
        /\ local'[a] = local[a] /\ local[a].seq \in Nat /\ committed[a].seq \in Nat
        /\ sequence[Owner[a]] \in Nat
        /\ sequence'[Owner[a]] \in Nat /\ sequence'[Owner[a]] >= sequence[Owner[a]]
    <3>1. Owner[a] \in Session /\ sequence[Owner[a]] \in Nat
      BY <1>1, StorageAssumption DEF Shape
    <3>2. local[a] \in Version /\ committed[a] \in Version
      BY <1>1 DEF Shape
    <3>3. sequence'[Owner[a]] \in Nat /\ sequence'[Owner[a]] >= sequence[Owner[a]]
      BY <1>7, <3>1
    <3> QED
      BY <1>1, <3>1, <3>2, <3>3 DEF Version, IInv, Reads
  <2>2. /\ Pending(a)' = Pending(a)
        /\ Pending(a) => /\ op'[Owner[a]] = op[Owner[a]]
                         /\ op[Owner[a]].entry.seq \in Nat
    <3>1. CASE Owner[a] = j
      BY <1>1, <1>4, <1>6, <3>1 DEF Pending, At
    <3>2. CASE Owner[a] # j
      <4>1. op'[Owner[a]] = op[Owner[a]]
        BY <1>6, <2>1, <3>2
      <4>2. ASSUME At(Owner[a], "insert")
            PROVE  op[Owner[a]].entry.seq \in Nat
        <5>1. op[Owner[a]] \in InsertOp(Owner[a])
          BY <1>1, <2>1, <4>2, OpIs DEF Shape, OwnOp, Idle, At
        <5> QED
          BY <5>1 DEF InsertOp
      <4> QED
        BY <4>1, <4>2 DEF Pending, At
    <3> QED
      BY <3>1, <3>2
  <2>3. CASE a # w.id
    <3>1. /\ committed'[a] = committed[a] /\ latest'[a] = latest[a]
          /\ Value(a)' = Value(a)
      BY <1>8, <2>1, <2>3 DEF Value
    <3>2. Numbered(a)'
      BY <2>1, <2>2, <3>1 DEF Numbered
    <3>3. Newest(a) => Newest(a)'
      BY <2>1, <2>2, <3>1 DEF Newest
    <3> QED
      BY <1>1, <2>1, <3>2, <3>3
  <2>4. CASE a = w.id
    <3>1. Owner[a] = c
      BY <1>3, <2>4
    <3>2. local[a].val # 0 => local[a].seq < n
      BY <2>1, <3>1 DEF Numbered
    <3>3. Numbered(a)'
      BY <1>3, <1>7, <1>8, <2>1, <2>2, <2>4, <3>1, <3>2 DEF Numbered
    <3>4. Value(a)' = w.val
      BY <1>3, <1>8, <2>1, <2>4, <3>2 DEF Value
    <3>5. Newest(a) => Newest(a)'
      BY <1>3, <1>7, <1>8, <2>1, <2>2, <2>4, <3>1, <3>4 DEF Newest, Numbered
    <3> QED
      BY <1>1, <2>1, <3>3, <3>5
  <2> QED
    BY <2>3, <2>4
<1>11. /\ w.val \in Held(j) /\ Held(j)' \subseteq Held(j)
       /\ \A k \in Job \ {j} : Held(k)' = Held(k)
  BY <1>1, <1>2, <1>5, <1>6 DEF Held, Session
<1>12. Apart'
  BY <1>1, <1>11, ZenonT(30) DEF IInv, Apart
<1>13. ASSUME NEW k \in Job \ {j}
       PROVE  Whole(k)'
  <2>1. op'[k] = op[k] /\ Whole(k)
    BY <1>6 DEF IInv, Session
  <2>2. w.val \notin Held(k)
    BY <1>11 DEF IInv, Apart
  <2> QED
    BY <1>1, <1>11, <2>1, <2>2 DEF Whole, At, Mine
<1>14. Whole(j)'
  BY <1>1, <1>2, <1>4, <1>6 DEF Whole, At, Mine
<1> QED
  BY <1>9, <1>10, <1>12, <1>13, <1>14 DEF IInv

-----------------------------------------------------------------------------
(* The owner of the addresses.                                               *)

(* What the owner does changes no value a job is responsible for.            *)
OwnerStep(s) ==
    /\ UNCHANGED <<phase, outcome, mutex, staged, wrote, visible>>
    /\ op[s].pc \in {"idle", "insert"} /\ op'[s] \in OwnOp(s)
    /\ DOMAIN op' = Session /\ \A t \in Session \ {s} : op'[t] = op[t]
    /\ made' \in Nat /\ made' >= made

(* So it leaves the write-sets as they are.                                  *)
LEMMA OwnerKeepsJobs ==
    ASSUME IInv, NEW s \in Session, OwnerStep(s)
    PROVE  Apart' /\ \A j \in Job : Whole(j)'
<1>1. op'[s].pc \in {"idle", "insert"}
  BY DEF OwnerStep, OwnOp, Idle, InsertOp
<1>2. Doing(op[s]) = {} /\ Doing(op'[s]) = {}
  BY <1>1 DEF OwnerStep, Doing
<1>3. \A j \in Job : Held(j)' = Held(j)
  BY <1>2 DEF OwnerStep, Held, Session
<1>4. 1..made \subseteq 1..made'
  BY DEF OwnerStep, IInv, Shape
<1>5. Apart'
  BY <1>3, <1>4 DEF OwnerStep, IInv, Apart
<1>6. ASSUME NEW j \in Job
      PROVE  Whole(j)'
  <2>1. Whole(j) /\ Held(j)' = Held(j)
    BY <1>3 DEF IInv
  <2>2. CASE j = s
    BY <1>1, <2>1, <2>2 DEF OwnerStep, Whole, At, Mine
  <2>3. CASE j # s
    <3>1. op'[j] = op[j]
      BY <2>3 DEF OwnerStep, Session
    <3> QED
      BY <2>1, <3>1 DEF OwnerStep, Whole, At, Mine
  <2> QED
    BY <2>2, <2>3
<1> QED
  BY <1>5, <1>6

(* The put takes its number; the value is still to be inserted.              *)
LEMMA PutOwnKeeps ==
    ASSUME IInv, NEW s \in Session, NEW a \in Address, PutOwn(s, a)
    PROVE  IInv'
<1> DEFINE n == sequence[s]
           e == [seq |-> n, val |-> made']
           o == [pc |-> "insert", id |-> a, entry |-> e]
<1>1. /\ Shape /\ Owner[a] = s /\ phase[s] = "open" /\ At(s, "idle")
      /\ made' = made + 1 /\ made \in Nat /\ n \in Nat
      /\ sequence' = [sequence EXCEPT ![s] = @ + 1]
      /\ latest' = [latest EXCEPT ![a] = made']
      /\ op' = [op EXCEPT ![s] = o]
      /\ UNCHANGED <<phase, outcome, local, committed, mutex, staged, wrote, visible>>
  BY DEF PutOwn, Ready, Goto, IInv, Shape
<1>2. /\ o \in InsertOp(s) /\ o.pc = "insert" /\ o.id = a
      /\ o.entry.seq = n /\ o.entry.val = made' /\ made' # 0 /\ made' \in Nat
  BY <1>1 DEF InsertOp, Made
<1> HIDE DEF o, e
<1>3. op'[s] = o /\ DOMAIN op' = Session /\ \A t \in Session \ {s} : op'[t] = op[t]
  BY <1>1 DEF Shape
<1>4. OwnerStep(s)
  BY <1>1, <1>2, <1>3 DEF OwnerStep, OwnOp, At
<1>5. /\ sequence' \in [Session -> Nat] /\ sequence'[s] = n + 1
      /\ \A t \in Session : t # s => sequence'[t] = sequence[t]
      /\ latest' \in [Address -> Nat] /\ latest'[a] = made'
      /\ \A b \in Address : b # a => latest'[b] = latest[b]
  BY <1>1, <1>2 DEF Shape
<1>6. Shape'
  BY <1>1, <1>2, <1>3, <1>5 DEF Shape, OwnOp
<1>7. Reads'
  <2> SUFFICES ASSUME NEW b \in Address
               PROVE  /\ Numbered(b)'
                      /\ (phase[Owner[b]] \in {"new", "open"})' => Newest(b)'
    BY DEF Reads
  <2>1. Owner[b] \in Session /\ Numbered(b)
        /\ (phase[Owner[b]] \in {"new", "open"} => Newest(b))
    BY StorageAssumption DEF IInv, Reads
  <2>2. /\ local[b].seq \in Nat /\ committed[b].seq \in Nat
        /\ sequence[Owner[b]] \in Nat
        /\ sequence'[Owner[b]] \in Nat /\ sequence'[Owner[b]] >= sequence[Owner[b]]
    <3>1. local[b] \in Version /\ committed[b] \in Version /\ sequence[Owner[b]] \in Nat
      BY <1>1, <2>1 DEF Shape
    <3>2. sequence'[Owner[b]] \in Nat /\ sequence'[Owner[b]] >= sequence[Owner[b]]
      BY <1>1, <1>5, <2>1, <3>1
    <3> QED
      BY <3>1, <3>2 DEF Version
  <2>3. /\ Value(b)' = Value(b)
        /\ local'[b] = local[b] /\ committed'[b] = committed[b]
    BY <1>1 DEF Value
  <2>4. CASE b = a
    <3>1. Pending(b)'
      BY <1>1, <1>2, <1>3, <2>4 DEF Pending, At
    <3>2. committed[b].val # 0 => committed[b].seq < n
      BY <1>1, <2>1, <2>4 DEF Numbered
    <3>3. Newest(b)'
      BY <1>1, <1>2, <1>3, <1>5, <2>2, <2>4, <3>1, <3>2 DEF Newest
    <3>4. Numbered(b)'
      BY <1>1, <1>2, <1>3, <1>5, <2>1, <2>2, <2>3, <2>4 DEF Numbered
    <3> QED
      BY <3>3, <3>4
  <2>5. CASE b # a /\ Owner[b] = s
    <3>1. ~Pending(b) /\ ~Pending(b)'
      BY <1>1, <1>2, <1>3, <2>5 DEF Pending, At
    <3>2. Numbered(b)'
      BY <2>1, <2>2, <2>3, <3>1 DEF Numbered
    <3> QED
      BY <1>1, <1>5, <2>1, <2>3, <2>5, <3>1, <3>2 DEF Newest
  <2>6. CASE Owner[b] # s
    <3>1. op'[Owner[b]] = op[Owner[b]] /\ sequence'[Owner[b]] = sequence[Owner[b]] /\ b # a
      BY <1>1, <1>3, <1>5, <2>1, <2>6
    <3> QED
      BY <1>1, <1>5, <2>1, <2>3, <3>1 DEF Newest, Numbered, Pending, At
  <2> QED
    BY <2>4, <2>5, <2>6
<1> QED
  BY <1>4, <1>6, <1>7, OwnerKeepsJobs DEF IInv

(* The value is inserted: it is read unless a job has published since.       *)
LEMMA InsertKeeps ==
    ASSUME IInv, NEW s \in Session, Insert(s)
    PROVE  IInv'
<1> DEFINE a == op[s].id
           e == op[s].entry
<1>1. /\ Shape /\ At(s, "insert")
      /\ local' = [local EXCEPT ![a] = e]
      /\ op' = [op EXCEPT ![s] = Idle]
      /\ UNCHANGED <<phase, outcome, committed, sequence, mutex, staged, made, latest,
                     wrote, visible>>
  BY DEF Insert, Goto, IInv
<1>2. op[s] \in InsertOp(s)
  BY <1>1, OpIs DEF Shape, OwnOp, Idle, At
<1>3. a \in Address /\ Owner[a] = s /\ e.seq \in Nat /\ e.val \in Nat /\ e.val # 0
      /\ e \in Version
  BY <1>2 DEF InsertOp, Made, Version
<1> HIDE DEF a, e
<1>4. /\ op'[s] = Idle /\ DOMAIN op' = Session /\ Idle.pc = "idle"
      /\ \A t \in Session \ {s} : op'[t] = op[t]
      /\ local' \in [Address -> Version] /\ local'[a] = e
      /\ \A b \in Address : b # a => local'[b] = local[b]
  BY <1>1, <1>3 DEF Shape, Idle
<1>5. OwnerStep(s)
  BY <1>1, <1>4 DEF OwnerStep, OwnOp, At, Shape
<1>6. Shape'
  BY <1>1, <1>4 DEF Shape, OwnOp
<1>7. Reads'
  <2> SUFFICES ASSUME NEW b \in Address
               PROVE  /\ Numbered(b)'
                      /\ (phase[Owner[b]] \in {"new", "open"})' => Newest(b)'
    BY DEF Reads
  <2>1. Owner[b] \in Session /\ Numbered(b)
        /\ (phase[Owner[b]] \in {"new", "open"} => Newest(b))
        /\ committed[b].seq \in Nat
    BY <1>1, StorageAssumption DEF IInv, Reads, Shape, Version
  <2>2. CASE b = a
    <3>1. Pending(b) /\ ~Pending(b)'
      BY <1>1, <1>3, <1>4, <2>2 DEF Pending, At, a
    <3>2. /\ e.seq < sequence[s]
          /\ phase[Owner[b]] \in {"new", "open"} =>
                latest[b] = IF committed[b].val # 0 /\ committed[b].seq > e.seq
                            THEN committed[b].val ELSE e.val
      BY <1>3, <2>1, <2>2, <3>1 DEF Newest, Numbered, e
    <3>3. sequence[s] \in Nat
      BY <1>1 DEF Shape
    <3>4. Newest(b)' <=> Value(b)' = latest[b]
      BY <1>1, <3>1 DEF Newest
    <3>5. Value(b)' = IF committed[b].val # 0 /\ committed[b].seq > e.seq
                      THEN committed[b].val ELSE e.val
      BY <1>1, <1>3, <1>4, <2>1, <2>2 DEF Value
    <3>6. Numbered(b)'
      BY <1>1, <1>3, <1>4, <2>1, <2>2, <3>1, <3>2 DEF Numbered
    <3> QED
      BY <1>1, <3>2, <3>4, <3>5, <3>6
  <2>3. CASE b # a /\ Owner[b] = s
    <3>1. ~Pending(b) /\ ~Pending(b)'
      BY <1>1, <1>4, <2>3 DEF Pending, At, a
    <3> QED
      BY <1>1, <1>4, <2>1, <2>3, <3>1 DEF Newest, Numbered, Value
  <2>4. CASE Owner[b] # s
    <3>1. op'[Owner[b]] = op[Owner[b]] /\ b # a
      BY <1>3, <1>4, <2>1, <2>4
    <3> QED
      BY <1>1, <1>4, <2>1, <3>1 DEF Newest, Numbered, Value, Pending, At
  <2> QED
    BY <2>2, <2>3, <2>4
<1> QED
  BY <1>5, <1>6, <1>7, OwnerKeepsJobs DEF IInv

(* A deleted address has no entry in either place.                           *)
LEMMA DeleteKeeps ==
    ASSUME IInv, NEW s \in Session, NEW a \in Address, Delete(s, a)
    PROVE  IInv'
<1>1. /\ Shape /\ Owner[a] = s /\ At(s, "idle")
      /\ local' = [local EXCEPT ![a] = Absent]
      /\ committed' = [committed EXCEPT ![a] = Absent]
      /\ latest' = [latest EXCEPT ![a] = 0]
      /\ UNCHANGED <<phase, outcome, sequence, mutex, staged, op, made, wrote, visible>>
  BY DEF Delete, Ready, IInv
<1>2. Absent \in Version /\ Absent.val = 0
  BY DEF Absent, Version
<1>3. /\ local' \in [Address -> Version] /\ local'[a] = Absent
      /\ committed' \in [Address -> Version] /\ committed'[a] = Absent
      /\ latest' \in [Address -> Nat] /\ latest'[a] = 0
      /\ \A b \in Address : b # a => /\ local'[b] = local[b]
                                     /\ committed'[b] = committed[b]
                                     /\ latest'[b] = latest[b]
  BY <1>1, <1>2 DEF Shape
<1>4. Shape'
  BY <1>1, <1>3 DEF Shape
<1>5. Apart' /\ \A j \in Job : Whole(j)'
  <2>1. \A j \in Job : Held(j)' = Held(j)
    BY <1>1 DEF Held
  <2> QED
    BY <1>1, <2>1 DEF IInv, Apart, Whole, At, Mine
<1>6. Reads'
  <2> SUFFICES ASSUME NEW b \in Address
               PROVE  /\ Numbered(b)'
                      /\ (phase[Owner[b]] \in {"new", "open"})' => Newest(b)'
    BY DEF Reads
  <2>1. Numbered(b) /\ (phase[Owner[b]] \in {"new", "open"} => Newest(b))
    BY DEF IInv, Reads
  <2>2. CASE b = a
    <3>1. ~Pending(b)'
      BY <1>1, <2>2 DEF Pending, At
    <3>2. Numbered(b)' /\ Value(b)' = 0
      BY <1>2, <1>3, <2>2, <3>1 DEF Numbered, Value
    <3> QED
      BY <1>3, <2>2, <3>1, <3>2 DEF Newest
  <2>3. CASE b # a
    BY <1>1, <1>3, <2>1, <2>3 DEF Numbered, Newest, Value, Pending, At
  <2> QED
    BY <2>2, <2>3
<1> QED
  BY <1>4, <1>5, <1>6 DEF IInv

(* The foreground session ends while it does nothing.                        *)
LEMMA CloseForegroundKeeps ==
    ASSUME IInv, CloseForeground
    PROVE  IInv'
<1>1. /\ Shape /\ Foreground \in Session
      /\ phase' = [phase EXCEPT ![Foreground] = "closed"]
      /\ UNCHANGED <<outcome, local, committed, sequence, mutex, latest, visible, staged,
                     op, made, wrote>>
  BY DEF CloseForeground, storageVars, IInv, Session
<1>2. /\ phase' \in [Session -> {"new", "open", "ending", "over", "closed"}]
      /\ \A s \in Session : phase'[s] \in {"new", "open"} => phase'[s] = phase[s]
  BY <1>1 DEF Shape
<1>3. Shape'
  BY <1>1, <1>2 DEF Shape
<1>4. Reads'
  BY <1>1, <1>2, QuietReads DEF QuietFor, IInv
<1>5. \A j \in Job : Held(j)' = Held(j)
  BY <1>1 DEF Held
<1>6. Apart'
  BY <1>1, <1>5 DEF IInv, Apart
<1>7. ASSUME NEW j \in Job
      PROVE  Whole(j)'
  <2>1. Whole(j) /\ (phase'[j] \in {"new", "open"} => phase[j] \in {"new", "open"})
    BY <1>2 DEF IInv, Session
  <2> QED
    BY <1>1, <1>5, <2>1 DEF Whole, At, Mine
<1> QED
  BY <1>3, <1>4, <1>6, <1>7 DEF IInv

-----------------------------------------------------------------------------
(* The invariant holds in every reachable state.                             *)

(* The first state has no value anywhere.                                    *)
LEMMA InitIInv == Init => IInv
<1> SUFFICES ASSUME Init PROVE IInv
  OBVIOUS
<1>1. Idle.pc = "idle" /\ Absent \in Version /\ Absent.val = 0
  BY DEF Idle, Absent, Version
<1>2. Values(<<>>) = {}
  BY DEF Values
<1>3. Shape
  <2>1. \A j \in Job : <<>> \in Seq(WriteOf(j))
    BY EmptySeq
  <2> QED
    BY <1>1, <2>1 DEF Init, Shape, OwnOp, JobOp
<1>4. \A s \in Session : op[s] = Idle
  BY DEF Init
<1>5. Reads
  <2> SUFFICES ASSUME NEW a \in Address PROVE Numbered(a) /\ Newest(a)
    BY DEF Reads
  <2>1. Owner[a] \in Session
    BY StorageAssumption
  <2>2. local[a] = Absent /\ committed[a] = Absent /\ latest[a] = 0
    BY DEF Init
  <2>3. ~Pending(a)
    BY <1>1, <1>4, <2>1 DEF Pending, At
  <2> QED
    BY <1>1, <2>2, <2>3 DEF Numbered, Newest, Value
<1>6. \A j \in Job : Held(j) = {}
  <2> SUFFICES ASSUME NEW j \in Job PROVE Held(j) = {}
    OBVIOUS
  <2>1. op[j] = Idle /\ staged[j] = <<>> /\ wrote[j] = {}
    BY <1>4 DEF Init, Session
  <2> QED
    BY <1>1, <1>2, <2>1 DEF Held, Doing
<1>7. Apart
  BY <1>6 DEF Apart, Init
<1>8. ASSUME NEW j \in Job
      PROVE  Whole(j)
  <2>1. /\ op[j] = Idle /\ wrote[j] = {} /\ outcome[j] = "none" /\ visible = {}
    BY <1>4 DEF Init, Session
  <2> QED
    BY <1>1, <1>6, <2>1 DEF Whole, At
<1> QED
  BY <1>3, <1>5, <1>7, <1>8 DEF IInv

(* Every step keeps it.                                                      *)
LEMMA NextIInv == IInv /\ [Next]_vars => IInv'
<1> SUFFICES ASSUME IInv, [Next]_vars PROVE IInv'
  OBVIOUS
<1>1. ASSUME NEW s \in Session, OwnStep(s)
      PROVE  IInv'
  BY <1>1, PutOwnKeeps, InsertKeeps, DeleteKeeps DEF OwnStep
<1>2. ASSUME NEW j \in Job, StageStep(j)
      PROVE  IInv'
  BY <1>2, StartJobKeeps, MeasuringKeeps, ReplaceKeeps, PutCallerKeeps DEF StageStep
<1>3. ASSUME NEW j \in Job, EndStep(j)
      PROVE  IInv'
  BY <1>3, TakeStagedKeeps, LockingKeeps, WriteNextKeeps, UnlockKeeps, LeavingKeeps,
     AbortKeeps DEF EndStep
<1>4. CASE UNCHANGED vars
  <2>1. UNCHANGED <<phase, outcome, issued, ever, local, committed, sequence, mutex,
                    staged, op, made, latest, wrote, visible>>
    BY <1>4 DEF vars, storageVars
  <2>2. Shape'
    BY <2>1 DEF IInv, Shape
  <2>3. Reads'
    BY <2>1, QuietReads DEF QuietFor, IInv
  <2>4. \A j \in Job : Held(j)' = Held(j)
    BY <2>1 DEF Held
  <2>5. Apart' /\ \A j \in Job : Whole(j)'
    BY <2>1, <2>4 DEF IInv, Apart, Whole, At, Mine
  <2> QED
    BY <2>2, <2>3, <2>5 DEF IInv
<1> QED
  BY <1>1, <1>2, <1>3, <1>4, CloseForegroundKeeps DEF Next

(* The invariant holds in every reachable state.                             *)
THEOREM Inductive == Spec => []IInv
<1> QED
  BY InitIInv, NextIInv, PTL DEF Spec

-----------------------------------------------------------------------------
(* The credits.                                                              *)

(* What the staged writes weigh is a natural number, not less than any.      *)
LEMMA BytesAreNat ==
    ASSUME NEW S, \A w \in S : w.bytes \in Nat, NEW s \in Seq(S)
    PROVE  /\ Bytes(s) \in Nat
           /\ \A i \in DOMAIN s : s[i].bytes \in Nat /\ s[i].bytes <= Bytes(s)
<1> DEFINE C == DOMAIN s
           a == [i \in C |-> s[i].bytes]
<1>1. IsFiniteSet(C) /\ \A i \in C : s[i] \in S
  BY LenProperties, ElementOfSeq, FS_Interval
<1>2. a \in [C -> Nat] /\ \A i \in C : a[i] = s[i].bytes
  BY <1>1
<1>3. Bytes(s) = SumFunction(a)
  BY DEF Bytes
<1> HIDE DEF a, C
<1>4. SumFunction(a) \in Nat /\ \A i \in C : a[i] <= SumFunction(a)
  BY <1>1, <1>2, SumIsNat
<1> QED
  BY <1>2, <1>3, <1>4 DEF C

(* A write added at the end adds its weight.                                 *)
LEMMA BytesAppended ==
    ASSUME NEW S, \A w \in S : w.bytes \in Nat, NEW s \in Seq(S), NEW w \in S
    PROVE  Bytes(Append(s, w)) = Bytes(s) + w.bytes
<1> DEFINE t == Append(s, w)
           n == Len(s)
           C == DOMAIN s
           D == DOMAIN t
           a == [i \in C |-> s[i].bytes]
           b == [i \in D |-> t[i].bytes]
<1>1. /\ n \in Nat /\ C = 1..n /\ D = 1..n + 1
      /\ \A i \in C : s[i] \in S /\ t[i] = s[i]
      /\ t[n + 1] = w
  BY LenProperties, ElementOfSeq, AppendProperties
<1>0. UpTo(C, n) /\ UpTo(D, n + 1)
  BY <1>1 DEF UpTo
<1> HIDE DEF t, n, C, D
<1>2. n + 1 \in D /\ \A i \in C : i \in D
  BY <1>1
<1>3. \A i \in D : t[i].bytes \in Nat
  BY <1>1
<1>4. /\ a \in [C -> Int] /\ b \in [D -> Int]
      /\ \A i \in C : b[i] = a[i]
      /\ b[n + 1] = w.bytes
  BY <1>1, <1>2, <1>3
<1>5. Bytes(s) = SumFunction(a) /\ Bytes(t) = SumFunction(b)
  BY DEF Bytes, C, D
<1> HIDE DEF a, b
<1>6. SumFunction(b) = SumFunction(a) + b[n + 1]
  BY ONLY <1>0, <1>4, SumAppended
<1> QED
  BY <1>4, <1>5, <1>6 DEF t

(* A write taken out takes its weight with it.                               *)
LEMMA BytesRemoved ==
    ASSUME NEW S, \A w \in S : w.bytes \in Nat, NEW s \in Seq(S), NEW i \in DOMAIN s
    PROVE  /\ RemoveAt(s, i) \in Seq(S)
           /\ Bytes(RemoveAt(s, i)) = Bytes(s) - s[i].bytes
<1> DEFINE t == RemoveAt(s, i)
           n == Len(s)
           C == DOMAIN s
           D == DOMAIN t
           a == [k \in C |-> s[k].bytes]
           b == [k \in D |-> t[k].bytes]
<1>1. n \in Nat /\ C = 1..n /\ \A k \in C : s[k] \in S
  BY LenProperties, ElementOfSeq
<1>2. /\ t \in Seq(S) /\ Len(t) = n - 1
      /\ \A k \in 1..n - 1 : t[k] = IF k < i THEN s[k] ELSE s[k + 1]
  <2>1. i \in 1..Len(s)
    BY LenProperties
  <2> QED
    BY <2>1, RemoveAtIs
<1>3. D = 1..n - 1 /\ \A k \in D : t[k] \in S
  BY <1>1, <1>2, LenProperties, ElementOfSeq
<1>10. UpTo(C, n) /\ UpTo(D, n - 1)
  <2>1. n # 0
    BY <1>1
  <2> QED
    BY <1>1, <1>3, <2>1 DEF UpTo
<1> HIDE DEF t, n, D
<1>4. /\ a \in [C -> Int] /\ b \in [D -> Int] /\ a[i] = s[i].bytes
  BY <1>1, <1>3
<1>5. \A k \in D : k \in C /\ k + 1 \in C
  BY <1>1, <1>3
<1>6. \A k \in D : b[k] = IF k < i THEN a[k] ELSE a[k + 1]
  BY <1>2, <1>3, <1>5
<1>7. Bytes(s) = SumFunction(a) /\ Bytes(t) = SumFunction(b)
  BY DEF Bytes, D
<1>8. i \in C
  OBVIOUS
<1> HIDE DEF a, b, C
<1>9. SumFunction(b) = SumFunction(a) - a[i]
  BY ONLY <1>4, <1>6, <1>8, <1>10, SumRemoved
<1> QED
  BY <1>2, <1>4, <1>7, <1>9 DEF t

(* What a job has of the global budget, and what of it no staged write has.  *)
Share(j) == taken[j] + Reserved(j)
Replacing(j) == IF At(j, "replace") THEN op[j].write.bytes ELSE 0

(* The books of one job.  A put is under way in an open session only: so a   *)
(* write that is replaced gives back credits that the job still has.         *)
Ledger(j) ==
    /\ op[j].pc \in {"measure", "replace"} => phase[j] = "open"
    /\ phase[j] \in {"new", "open"} => left[j] + taken[j] = PerJob
    /\ Reserved(j) <= left[j]
    /\ phase[j] # "over" => taken[j] = Bytes(staged[j]) + Replacing(j)

Credits ==
    /\ left \in [Job -> Nat] /\ taken \in [Job -> Nat]
    /\ used = SumFunction([j \in Job |-> taken[j] + Reserved(j)])
    /\ used <= Limit
    /\ \A j \in Job : Ledger(j)

(* The amounts in the books are natural numbers.                             *)
LEMMA Amounts ==
    ASSUME Shape, NEW j \in Job
    PROVE  /\ Reserved(j) \in Nat /\ Replacing(j) \in Nat /\ Bytes(staged[j]) \in Nat
           /\ \A i \in DOMAIN staged[j] :
                 staged[j][i].bytes \in Nat /\ staged[j][i].bytes <= Bytes(staged[j])
<1>1. /\ At(j, "measure") => op[j] \in MeasureOp(j)
      /\ At(j, "replace") => op[j] \in ReplaceOp(j)
  BY OpIs
<1>2. Reserved(j) \in Nat /\ Replacing(j) \in Nat
  BY <1>1 DEF Reserved, Replacing, MeasureOp, ReplaceOp, WriteOf
<1>3. staged[j] \in Seq(WriteOf(j)) /\ \A w \in WriteOf(j) : w.bytes \in Nat
  BY DEF Shape, WriteOf
<1> QED
  BY <1>2, <1>3, BytesAreNat

(* The budget is the sum of natural numbers.                                 *)
LEMMA UsedIsNat ==
    ASSUME Shape, Credits
    PROVE  /\ used \in Nat
           /\ \A j \in Job : Share(j) \in Nat /\ Share(j) <= used
<1> DEFINE w == [j \in Job |-> taken[j] + Reserved(j)]
<1>1. \A j \in Job : taken[j] \in Nat /\ Reserved(j) \in Nat
  BY Amounts DEF Credits
<1>2. w \in [Job -> Nat] /\ \A j \in Job : w[j] = Share(j)
  BY <1>1 DEF Share
<1>3. used = SumFunction(w)
  BY DEF Credits
<1> HIDE DEF w
<1>4. SumFunction(w) \in Nat /\ \A j \in Job : w[j] <= SumFunction(w)
  BY <1>2, SumIsNat, StorageAssumption
<1> QED
  BY <1>2, <1>3, <1>4

(* A step that books credits of one job.                                     *)
Booking(j) ==
    /\ left' \in [Job -> Nat] /\ taken' \in [Job -> Nat]
    /\ \A k \in Job \ {j} :
          /\ left'[k] = left[k] /\ taken'[k] = taken[k] /\ staged'[k] = staged[k]
          /\ op'[k] = op[k] /\ phase'[k] = phase[k]
    /\ used' = used - Share(j) + Share(j)'
    /\ used' <= Limit
    /\ Ledger(j)'

(* Such a step keeps the books.                                              *)
LEMMA BookingKeeps ==
    ASSUME Shape, Shape', Credits, NEW j \in Job, Booking(j)
    PROVE  Credits'
<1>1. PICK w : w = [k \in Job |-> taken[k] + Reserved(k)]
  OBVIOUS
<1>2. PICK v : v = [k \in Job |-> taken'[k] + Reserved(k)']
  OBVIOUS
<1>3. \A k \in Job : taken[k] \in Nat /\ Reserved(k) \in Nat
  BY Amounts DEF Credits
<1>4. \A k \in Job : taken'[k] \in Nat /\ Reserved(k)' \in Nat
  <2>1. \A k \in Job : Reserved(k)' \in Nat
    <3> TAKE k \in Job
    <3>1. k \in Session /\ op'[k] \in JobOp(k)
      BY DEF Shape, Session, JobOp
    <3>2. At(k, "measure")' => op'[k] \in MeasureOp(k)
      BY <3>1 DEF At, JobOp, OwnOp, Idle, InsertOp, MeasureOp, ReplaceOp, EndOp
    <3> QED
      BY <3>2 DEF Reserved, MeasureOp
  <2> QED
    BY <2>1 DEF Booking
<1>5. \A k \in Job \ {j} : Reserved(k)' = Reserved(k)
  BY DEF Booking, Reserved, At
<1>6. /\ w \in [Job -> Int] /\ v \in [Job -> Int]
      /\ w[j] = Share(j) /\ v[j] = Share(j)'
  BY <1>1, <1>2, <1>3, <1>4 DEF Share
<1>7. \A k \in Job \ {j} : v[k] = w[k]
  BY <1>1, <1>2, <1>5 DEF Booking
<1>8. SumFunction(v) = SumFunction(w) - w[j] + v[j]
  BY <1>6, <1>7, SumChanged, StorageAssumption
<1>9. used = SumFunction(w)
  BY <1>1 DEF Credits
<1>10. used' = SumFunction(v)
  BY <1>6, <1>8, <1>9 DEF Booking
<1>11. used' = SumFunction([k \in Job |-> taken'[k] + Reserved(k)'])
  BY <1>2, <1>10
<1>12. \A k \in Job : Ledger(k)'
  <2>1. \A k \in Job \ {j} : Ledger(k)'
    BY <1>5 DEF Credits, Booking, Ledger, Replacing, At
  <2> QED
    BY <2>1 DEF Booking
<1> QED
  BY <1>11, <1>12 DEF Credits, Booking

(* A step that books nothing.                                                *)
NoBooking ==
    /\ UNCHANGED <<staged, creditVars>>
    /\ \A j \in Job :
          /\ op'[j] = op[j] \/ /\ op[j].pc \notin {"measure", "replace"}
                               /\ op'[j].pc \notin {"measure", "replace"}
          /\ phase'[j] = phase[j] \/ /\ op'[j].pc \notin {"measure", "replace"}
                                     /\ phase[j] # "over"
                                     /\ phase[j] \in {"new", "open"}
                                           \/ phase'[j] \notin {"new", "open"}

(* Such a step keeps the books.                                              *)
LEMMA NoBookingKeeps ==
    ASSUME Credits, NoBooking
    PROVE  Credits'
<1>1. \A j \in Job : Reserved(j)' = Reserved(j) /\ Replacing(j)' = Replacing(j)
  BY DEF NoBooking, Reserved, Replacing, At
<1>2. [j \in Job |-> taken[j] + Reserved(j)]' = [j \in Job |-> taken[j] + Reserved(j)]
  BY <1>1 DEF NoBooking, creditVars
<1>3. \A j \in Job : Ledger(j)'
  <2> TAKE j \in Job
  <2>1. Ledger(j)
    BY DEF Credits
  <2> QED
    BY <1>1, <2>1 DEF NoBooking, creditVars, Ledger
<1> QED
  BY <1>2, <1>3 DEF Credits, NoBooking, creditVars

(* A put begins to measure: it has no credits yet.                           *)
LEMMA PutCallerBooks ==
    ASSUME IInv, Shape', Credits,
           NEW j \in Job, NEW a \in Address, NEW n \in Sizes, PutCaller(j, a, n)
    PROVE  Credits'
<1> DEFINE o == [pc |-> "measure", id |-> a, val |-> made', need |-> n, got |-> 0]
<1>1. /\ Shape /\ Ledger(j) /\ j \in Session /\ phase[j] = "open" /\ At(j, "idle")
      /\ op' = [op EXCEPT ![j] = o]
      /\ UNCHANGED <<phase, staged, creditVars>>
  BY DEF PutCaller, Ready, Goto, IInv, Credits, Session
<1>2. o.pc = "measure" /\ o.got = 0
  OBVIOUS
<1> HIDE DEF o
<1>3. op'[j] = o /\ \A k \in Job \ {j} : op'[k] = op[k]
  BY <1>1 DEF Shape, Session
<1>4. /\ Reserved(j) = 0 /\ Reserved(j)' = 0 /\ Replacing(j) = 0 /\ Replacing(j)' = 0
  BY <1>1, <1>2, <1>3 DEF Reserved, Replacing, At
<1>5. left[j] \in Nat /\ used' = used /\ left' = left /\ taken' = taken
  BY <1>1 DEF Credits, creditVars
<1>6. Ledger(j)'
  BY <1>1, <1>4, <1>5 DEF Ledger
<1>7. used' = used - Share(j) + Share(j)'
  <2>1. Share(j) \in Nat /\ used \in Nat
    BY <1>1, UsedIsNat
  <2>2. Share(j)' = Share(j)
    BY <1>4, <1>5 DEF Share
  <2> QED
    BY <1>5, <2>1, <2>2
<1>8. Booking(j)
  BY <1>1, <1>3, <1>5, <1>6, <1>7 DEF Booking, Credits
<1> QED
  BY <1>1, <1>8, BookingKeeps

(* Measuring takes one credit from both budgets while both have one.         *)
LEMMA GrowBooks ==
    ASSUME IInv, Shape', Credits, NEW j \in Job, Grow(j)
    PROVE  Credits'
<1>1. /\ Shape /\ Ledger(j) /\ j \in Session /\ At(j, "measure")
      /\ op[j].got < left[j] /\ used < Limit /\ used' = used + 1
      /\ op' = [op EXCEPT ![j].got = @ + 1]
      /\ UNCHANGED <<phase, staged, left, taken>>
  BY DEF Grow, IInv, Credits, Session
<1>2. op[j] \in MeasureOp(j)
  BY <1>1, OpIs
<1>3. /\ op'[j].pc = "measure" /\ op'[j].got = op[j].got + 1
      /\ \A k \in Job \ {j} : op'[k] = op[k]
  BY <1>1, <1>2 DEF Shape, Session, MeasureOp
<1>4. /\ Reserved(j) = op[j].got /\ Reserved(j)' = op[j].got + 1
      /\ Replacing(j) = 0 /\ Replacing(j)' = 0
  BY <1>1, <1>3 DEF Reserved, Replacing, At
<1>5. /\ op[j].got \in Nat /\ left[j] \in Nat /\ taken[j] \in Nat /\ Limit \in Nat
      /\ used \in Nat /\ phase[j] = "open" /\ op'[j].pc \in {"measure", "replace"}
  BY <1>1, <1>2, <1>3, UsedIsNat, StorageAssumption DEF Credits, MeasureOp, Ledger, At
<1>6. Ledger(j)'
  BY <1>1, <1>4, <1>5 DEF Ledger
<1>7. used' = used - Share(j) + Share(j)' /\ used' <= Limit
  <2> DEFINE g == op[j].got
             t == taken[j]
  <2>1. Share(j) = t + g /\ Share(j)' = t + (g + 1)
    BY <1>1, <1>4 DEF Share
  <2>2. g \in Nat /\ t \in Nat
    BY <1>5
  <2> HIDE DEF g, t
  <2> QED
    BY <1>1, <1>5, <2>1, <2>2
<1>8. Booking(j)
  BY <1>1, <1>3, <1>6, <1>7 DEF Booking, Credits
<1> QED
  BY <1>1, <1>8, BookingKeeps

(* A refusal and an abort drop the lease: all that was reserved goes back.   *)
LEMMA DropLeaseBooks ==
    ASSUME IInv, Shape', Credits, NEW j \in Job, Refuse(j) \/ Abort(j)
    PROVE  Credits'
<1>1. /\ Shape /\ Ledger(j) /\ j \in Session
      /\ used' = used - Reserved(j)
      /\ op' = [op EXCEPT ![j] = Idle]
      /\ UNCHANGED <<staged, left, taken>>
      /\ \A k \in Job \ {j} : phase'[k] = phase[k]
  BY DEF Refuse, Abort, Reserved, Goto, IInv, Credits, Session, Shape
<1>2. \/ phase' = phase /\ At(j, "measure")
      \/ phase'[j] = "over"
  BY DEF Refuse, Abort, IInv, Shape, Session
<1>3. op'[j].pc = "idle" /\ \A k \in Job \ {j} : op'[k] = op[k]
  BY <1>1 DEF Shape, Session, Idle
<1>4. /\ Reserved(j)' = 0 /\ Replacing(j)' = 0
      /\ At(j, "measure") => Replacing(j) = 0
  BY <1>3 DEF Reserved, Replacing, At
<1>5. /\ Reserved(j) \in Nat /\ left[j] \in Nat /\ taken[j] \in Nat /\ used \in Nat
      /\ Limit \in Nat /\ used <= Limit
  BY <1>1, Amounts, UsedIsNat, StorageAssumption DEF Credits
<1>6. Ledger(j)'
  BY <1>1, <1>2, <1>3, <1>4, <1>5 DEF Ledger
<1>7. used' = used - Share(j) + Share(j)' /\ used' <= Limit
  <2> DEFINE r == Reserved(j)
             t == taken[j]
  <2>1. Share(j) = t + r /\ Share(j)' = t + 0 /\ used' = used - r
    BY <1>1, <1>4 DEF Share
  <2>2. r \in Nat /\ t \in Nat
    BY <1>5
  <2> HIDE DEF r, t
  <2> QED
    BY <1>5, <2>1, <2>2
<1>8. Booking(j)
  BY <1>1, <1>3, <1>6, <1>7 DEF Booking, Credits
<1> QED
  BY <1>1, <1>8, BookingKeeps

(* The snapshot is paid from the lease, the rest of the lease goes back.     *)
LEMMA SnapBooks ==
    ASSUME IInv, Shape', Credits, NEW j \in Job, Snap(j)
    PROVE  Credits'
<1>1. /\ Shape /\ Ledger(j) /\ j \in Session /\ At(j, "measure")
      /\ op[j].got = op[j].need /\ UNCHANGED <<phase, staged>>
  BY DEF Snap, IInv, Credits, Session
<1>2. PICK bytes \in 1..op[j].need :
         /\ left' = [left EXCEPT ![j] = @ - bytes]
         /\ taken' = [taken EXCEPT ![j] = @ + bytes]
         /\ used' = used - (op[j].got - bytes)
         /\ Goto(j, [pc |-> "replace",
                     write |-> [id |-> op[j].id, val |-> op[j].val, bytes |-> bytes]])
  BY DEF Snap
<1>3. op[j] \in MeasureOp(j)
  BY <1>1, OpIs
<1> DEFINE o == [pc |-> "replace",
                 write |-> [id |-> op[j].id, val |-> op[j].val, bytes |-> bytes]]
<1>4. o.pc = "replace" /\ o.write.bytes = bytes /\ op' = [op EXCEPT ![j] = o]
  BY <1>2 DEF Goto
<1> HIDE DEF o
<1>5. op'[j] = o /\ \A k \in Job \ {j} : op'[k] = op[k]
  BY <1>1, <1>4 DEF Shape, Session
<1>6. /\ Reserved(j) = op[j].got /\ Reserved(j)' = 0
      /\ Replacing(j) = 0 /\ Replacing(j)' = bytes
  BY <1>1, <1>4, <1>5 DEF Reserved, Replacing, At
<1>7. /\ op[j].got \in Nat /\ bytes \in Nat /\ bytes <= op[j].got /\ op[j].got <= left[j]
  <2>1. op[j].got \in Nat /\ op[j].need \in Nat
    BY <1>3 DEF MeasureOp
  <2> QED
    BY <1>1, <1>2, <1>6, <2>1 DEF Ledger
<1>8. /\ left[j] \in Nat /\ taken[j] \in Nat /\ used \in Nat /\ PerJob \in Nat
      /\ Limit \in Nat /\ used <= Limit
      /\ Share(j) <= used /\ Bytes(staged[j]) \in Nat /\ phase[j] = "open"
  BY <1>1, Amounts, UsedIsNat, StorageAssumption DEF Credits, Ledger, At
<1>9. /\ left'[j] = left[j] - bytes /\ taken'[j] = taken[j] + bytes
      /\ left[j] - bytes \in Nat /\ taken[j] + bytes \in Nat
      /\ \A k \in Job \ {j} : left'[k] = left[k] /\ taken'[k] = taken[k]
  BY <1>2, <1>7, <1>8 DEF Credits
<1>10. left' \in [Job -> Nat] /\ taken' \in [Job -> Nat]
  BY <1>2, <1>9 DEF Credits
<1>11. Ledger(j)'
  <2> DEFINE l == left[j]
             t == taken[j]
             w == Bytes(staged[j])
  <2>1. l + t = PerJob /\ t = w + 0 /\ l \in Nat /\ t \in Nat /\ w \in Nat
    BY <1>1, <1>6, <1>8 DEF Ledger
  <2>2. left'[j] = l - bytes /\ taken'[j] = t + bytes /\ Bytes(staged'[j]) = w
    BY <1>1, <1>9
  <2> HIDE DEF l, t, w
  <2>3. left'[j] + taken'[j] = PerJob /\ 0 <= left'[j] /\ taken'[j] = w + bytes
    <3>1. l - bytes \in Nat
      BY <1>9, <2>2
    <3> QED
      BY <1>7, <2>1, <2>2, <3>1
  <2> QED
    BY <1>1, <1>6, <1>8, <2>2, <2>3 DEF Ledger
<1>12. used' = used - Share(j) + Share(j)' /\ used' <= Limit
  <2> DEFINE g == op[j].got
             t == taken[j]
  <2>1. Share(j) = t + g /\ Share(j)' = (t + bytes) + 0 /\ used' = used - (g - bytes)
    BY <1>2, <1>6, <1>9 DEF Share
  <2>2. g \in Nat /\ t \in Nat /\ bytes \in Nat /\ bytes <= g
    BY <1>7, <1>8
  <2> HIDE DEF g, t
  <2> QED
    BY <1>8, <2>1, <2>2
<1>13. Booking(j)
  BY <1>1, <1>5, <1>9, <1>10, <1>11, <1>12 DEF Booking
<1> QED
  BY <1>1, <1>13, BookingKeeps

(* A write that is replaced gives its credits back.                          *)
LEMMA ReplaceBooks ==
    ASSUME IInv, Shape', Credits, NEW j \in Job, Replace(j)
    PROVE  Credits'
<1> DEFINE w == op[j].write
           s == staged[j]
           b == w.bytes
           m == Bytes(s)
           l == left[j]
           t == taken[j]
<1>1. /\ Shape /\ Ledger(j) /\ j \in Session /\ At(j, "replace")
      /\ op' = [op EXCEPT ![j] = Idle] /\ UNCHANGED phase
  BY DEF Replace, Goto, IInv, Credits, Session
<1>2. /\ w \in WriteOf(j) /\ s \in Seq(WriteOf(j))
      /\ \A x \in WriteOf(j) : x.bytes \in Nat
  BY <1>1, OpIs DEF Shape, ReplaceOp, WriteOf
<1>3. op'[j].pc = "idle" /\ \A k \in Job \ {j} : op'[k] = op[k]
  BY <1>1 DEF Shape, Session, Idle
<1>4. /\ Reserved(j) = 0 /\ Reserved(j)' = 0 /\ Replacing(j) = b /\ Replacing(j)' = 0
  BY <1>1, <1>3 DEF Reserved, Replacing, At
<1>5. /\ l \in Nat /\ t \in Nat /\ used \in Nat /\ b \in Nat /\ m \in Nat
      /\ PerJob \in Nat /\ Limit \in Nat /\ used <= Limit
      /\ phase[j] = "open" /\ l + t = PerJob /\ t = m + b
  <2>1. l \in Nat /\ t \in Nat /\ used \in Nat /\ b \in Nat /\ m \in Nat
    BY <1>1, <1>2, Amounts, UsedIsNat DEF Credits
  <2>2. phase[j] = "open" /\ l + t = PerJob /\ t = m + b
    BY <1>1, <1>4 DEF Ledger, At
  <2> QED
    BY <2>1, <2>2, StorageAssumption DEF Credits
<1>6. \/ /\ staged' = [staged EXCEPT ![j] = Append(@, w)]
         /\ UNCHANGED creditVars
      \/ \E i \in DOMAIN s :
            /\ staged' = [staged EXCEPT ![j] = Append(RemoveAt(@, i), w)]
            /\ used' = used - s[i].bytes
            /\ taken' = [taken EXCEPT ![j] = @ - s[i].bytes]
            /\ left' = [left EXCEPT ![j] = @ + s[i].bytes]
  BY DEF Replace
<1>7. Bytes(Append(s, w)) = m + b
  BY <1>2, BytesAppended
<1>8. CASE /\ staged' = [staged EXCEPT ![j] = Append(@, w)]
           /\ UNCHANGED creditVars
  <2>1. /\ staged'[j] = Append(s, w) /\ left' = left /\ taken' = taken /\ used' = used
        /\ \A k \in Job \ {j} : staged'[k] = staged[k]
    BY <1>1, <1>8 DEF Shape, creditVars
  <2>2. Ledger(j)'
    <3>1. left'[j] = l /\ taken'[j] = t /\ Bytes(staged'[j]) = m + b
      BY <1>7, <2>1
    <3> HIDE DEF l, t, m, b
    <3> QED
      BY <1>1, <1>3, <1>4, <1>5, <3>1 DEF Ledger
  <2>3. used' = used - Share(j) + Share(j)'
    <3>1. Share(j)' = Share(j) /\ Share(j) \in Nat
      BY <1>1, <1>4, <2>1, UsedIsNat DEF Share
    <3> QED
      BY <1>5, <2>1, <3>1
  <2>4. Booking(j)
    BY <1>1, <1>3, <1>5, <2>1, <2>2, <2>3 DEF Booking, Credits
  <2> QED
    BY <1>1, <2>4, BookingKeeps
<1>9. ASSUME NEW i \in DOMAIN s,
             staged' = [staged EXCEPT ![j] = Append(RemoveAt(@, i), w)],
             used' = used - s[i].bytes,
             taken' = [taken EXCEPT ![j] = @ - s[i].bytes],
             left' = [left EXCEPT ![j] = @ + s[i].bytes]
      PROVE  Credits'
  <2> DEFINE d == s[i].bytes
  <2>1. d \in Nat /\ d <= m
    BY <1>1, Amounts
  <2>2. /\ RemoveAt(s, i) \in Seq(WriteOf(j)) /\ Bytes(RemoveAt(s, i)) = m - d
    BY <1>2, BytesRemoved
  <2>3. Bytes(Append(RemoveAt(s, i), w)) = (m - d) + b
    BY <1>2, <2>2, BytesAppended
  <2>4. /\ staged'[j] = Append(RemoveAt(s, i), w)
        /\ left'[j] = l + d /\ taken'[j] = t - d
        /\ \A k \in Job \ {j} : /\ staged'[k] = staged[k]
                                /\ left'[k] = left[k] /\ taken'[k] = taken[k]
    BY <1>1, <1>9 DEF Shape, Credits
  <2>5. Bytes(staged'[j]) = (m - d) + b
    BY <2>3, <2>4
  <2>6. used' = used - d
    BY <1>9
  <2> DEFINE sh == Share(j)
  <2>7. sh = t + 0 /\ Share(j)' = (t - d) + 0
    BY <1>4, <2>4 DEF Share
  <2> HIDE DEF d, l, t, m, b, sh
  <2>8. l + d \in Nat /\ t - d \in Nat /\ t - d = (m - d) + b /\ (l + d) + (t - d) = PerJob
    BY <1>5, <2>1
  <2>9. left' \in [Job -> Nat] /\ taken' \in [Job -> Nat]
    BY <1>9, <2>4, <2>8 DEF Credits
  <2>10. Ledger(j)'
    BY <1>1, <1>3, <1>4, <1>5, <2>4, <2>5, <2>8 DEF Ledger
  <2>11. used' = used - sh + Share(j)' /\ used' <= Limit
    <3>1. Share(j)' = t - d
      BY <2>7, <2>8
    <3> QED
      BY <1>5, <2>1, <2>6, <2>7, <2>8, <3>1
  <2>12. Booking(j)
    BY <1>1, <1>3, <2>4, <2>9, <2>10, <2>11 DEF Booking, sh
  <2> QED
    BY <1>1, <2>12, BookingKeeps
<1> QED
  BY <1>6, <1>8, <1>9

(* take_staged and the drop of the session give back what staged writes have.*)
LEMMA GiveBackBooks ==
    ASSUME IInv, Shape', Credits, NEW j \in Job, TakeStaged(j) \/ DropSession(j)
    PROVE  Credits'
<1>1. /\ Shape /\ Ledger(j) /\ j \in Session
      /\ used' = used - taken[j]
      /\ taken' = [taken EXCEPT ![j] = 0]
      /\ staged' = [staged EXCEPT ![j] = <<>>]
      /\ left' = left
      /\ phase'[j] \in {"ending", "closed"}
      /\ \A k \in Job \ {j} : phase'[k] = phase[k]
      /\ op[j].pc \notin {"measure", "replace"}
  BY DEF TakeStaged, DropSession, Ready, At, IInv, Credits, Session, Shape, Ledger
<1>2. op'[j].pc \notin {"measure", "replace"} /\ \A k \in Job \ {j} : op'[k] = op[k]
  <2>1. op' = op \/ op' = [op EXCEPT ![j] = [pc |-> "upgrade", writes |-> staged[j]]]
    BY DEF TakeStaged, DropSession, Goto
  <2>2. [pc |-> "upgrade", writes |-> staged[j]].pc = "upgrade"
    OBVIOUS
  <2> QED
    BY <1>1, <2>1, <2>2 DEF Shape, Session
<1>3. /\ Reserved(j) = 0 /\ Reserved(j)' = 0 /\ Replacing(j)' = 0
  BY <1>1, <1>2 DEF Reserved, Replacing, At
<1>4. /\ left[j] \in Nat /\ taken[j] \in Nat /\ used \in Nat
      /\ Limit \in Nat /\ used <= Limit
  BY <1>1, UsedIsNat, StorageAssumption DEF Credits
<1>5. /\ taken'[j] = 0 /\ staged'[j] = <<>>
      /\ taken' \in [Job -> Nat] /\ left' \in [Job -> Nat]
      /\ \A k \in Job \ {j} : taken'[k] = taken[k] /\ staged'[k] = staged[k]
  BY <1>1 DEF Shape, Credits
<1>6. Bytes(<<>>) = 0
  BY SumOfNone DEF Bytes
<1>7. Ledger(j)'
  BY <1>1, <1>2, <1>3, <1>4, <1>5, <1>6 DEF Ledger
<1>8. used' = used - Share(j) + Share(j)' /\ used' <= Limit
  <2> DEFINE t == taken[j]
  <2>1. Share(j) = t + 0 /\ Share(j)' = 0 + 0 /\ used' = used - t /\ t \in Nat
    BY <1>1, <1>3, <1>4, <1>5 DEF Share
  <2> HIDE DEF t
  <2> QED
    BY <1>4, <2>1
<1>9. Booking(j)
  BY <1>1, <1>2, <1>5, <1>7, <1>8 DEF Booking
<1> QED
  BY <1>1, <1>9, BookingKeeps

(* The steps of a job that leave its credits alone.                          *)
LEMMA JobBooksNothing ==
    ASSUME IInv, Credits, NEW j \in Job,
           StartJob(j) \/ Upgrade(j) \/ Lock(j) \/ WriteNext(j) \/ Unlock(j) \/ Finish(j)
    PROVE  Credits'
<1>1. Shape /\ j \in Session /\ Ledger(j)
  BY DEF IInv, Credits, Session
<1>2. UNCHANGED <<staged, creditVars>>
  BY DEF StartJob, Upgrade, Lock, WriteNext, Unlock, Finish
<1>3. CASE StartJob(j) \/ Finish(j)
  <2>1. /\ op' = op /\ phase[j] \in {"new", "ending"}
        /\ phase[j] = "ending" => phase'[j] = "over"
        /\ \A k \in Job \ {j} : phase'[k] = phase[k]
    BY <1>1, <1>3 DEF StartJob, Finish, Shape, Session
  <2>2. op'[j].pc \notin {"measure", "replace"}
    BY <1>1, <2>1 DEF Ledger
  <2>3. NoBooking
    BY <1>2, <2>1, <2>2 DEF NoBooking
  <2> QED
    BY <2>3, NoBookingKeeps
<1>4. CASE Upgrade(j) \/ Lock(j) \/ WriteNext(j) \/ Unlock(j)
  <2>1. op[j].pc \in {"upgrade", "lock", "write"} /\ phase' = phase
    BY <1>4 DEF Upgrade, Lock, WriteNext, Unlock, At
  <2>2. op[j] \in EndOp(j)
    BY <1>1, <2>1, OpIs
  <2>3. \E o : /\ op' = [op EXCEPT ![j] = o]
               /\ o.pc \in {"idle", "upgrade", "lock", "write"}
    <3>1. CASE Upgrade(j)
      <4>1. \/ op' = [op EXCEPT ![j] = Idle]
            \/ op' = [op EXCEPT ![j] = [op[j] EXCEPT !.pc = "lock"]]
        BY <3>1 DEF Upgrade, Goto
      <4>2. Idle.pc = "idle" /\ [op[j] EXCEPT !.pc = "lock"].pc = "lock"
        BY <2>2 DEF Idle, EndOp
      <4> QED
        BY <4>1, <4>2
    <3>2. CASE Lock(j)
      <4>1. op' = [op EXCEPT ![j] = [op[j] EXCEPT !.pc = "write"]]
        BY <3>2 DEF Lock, Goto
      <4>2. [op[j] EXCEPT !.pc = "write"].pc = "write"
        BY <2>2 DEF EndOp
      <4> QED
        BY <4>1, <4>2
    <3>3. CASE WriteNext(j)
      <4>1. op' = [op EXCEPT ![j] = [op[j] EXCEPT !.writes = Tail(@)]]
        BY <3>3 DEF WriteNext, Goto
      <4>2. [op[j] EXCEPT !.writes = Tail(@)].pc = op[j].pc
        BY <2>2 DEF EndOp
      <4> QED
        BY <2>1, <4>1, <4>2
    <3>4. CASE Unlock(j)
      <4>1. op' = [op EXCEPT ![j] = Idle] /\ Idle.pc = "idle"
        BY <3>4 DEF Unlock, Goto, Idle
      <4> QED
        BY <4>1
    <3> QED
      BY <1>4, <3>1, <3>2, <3>3, <3>4
  <2>4. /\ op'[j].pc \notin {"measure", "replace"}
        /\ \A k \in Job \ {j} : op'[k] = op[k]
    BY <1>1, <2>3 DEF Shape, Session
  <2>5. NoBooking
    BY <1>2, <2>1, <2>4 DEF NoBooking
  <2> QED
    BY <2>5, NoBookingKeeps
<1> QED
  BY <1>3, <1>4

(* The owner of addresses and the end of the foreground session book nothing.*)
LEMMA OwnerBooksNothing ==
    ASSUME IInv, Credits, CloseForeground \/ \E s \in Session : OwnStep(s)
    PROVE  Credits'
<1>1. Shape /\ Job \subseteq Session
  BY DEF IInv, Session
<1>2. CASE CloseForeground
  <2>1. /\ op' = op /\ phase' = [phase EXCEPT ![Foreground] = "closed"]
        /\ phase[Foreground] = "open" /\ op[Foreground].pc = "idle"
        /\ UNCHANGED <<staged, creditVars>>
    BY <1>2 DEF CloseForeground, Ready, At
  <2>2. \A k \in Session : k # Foreground => phase'[k] = phase[k]
    BY <1>1, <2>1 DEF Shape
  <2>3. phase'[Foreground] = "closed"
    <3>1. Foreground \in Session
      BY DEF Session
    <3> QED
      BY <1>1, <2>1, <3>1 DEF Shape
  <2>4. NoBooking
    BY <1>1, <2>1, <2>2, <2>3 DEF NoBooking
  <2> QED
    BY <2>4, NoBookingKeeps
<1>3. ASSUME NEW s \in Session, OwnStep(s)
      PROVE  Credits'
  <2>1. /\ UNCHANGED <<phase, staged, creditVars>>
        /\ op[s].pc \in {"idle", "insert"}
    BY <1>3 DEF OwnStep, Insert, PutOwn, Delete, Ready, At
  <2>2. op' = op \/ \E o : op' = [op EXCEPT ![s] = o] /\ o.pc \in {"idle", "insert"}
    <3>1. CASE Insert(s)
      <4>1. op' = [op EXCEPT ![s] = Idle] /\ Idle.pc = "idle"
        BY <3>1 DEF Insert, Goto, Idle
      <4> QED
        BY <4>1
    <3>2. ASSUME NEW a \in Address, PutOwn(s, a)
          PROVE  \E o : op' = [op EXCEPT ![s] = o] /\ o.pc \in {"idle", "insert"}
      <4> DEFINE o == [pc |-> "insert", id |-> a,
                       entry |-> [seq |-> sequence[s], val |-> made']]
      <4>1. op' = [op EXCEPT ![s] = o] /\ o.pc = "insert"
        BY <3>2 DEF PutOwn, Goto
      <4> HIDE DEF o
      <4> QED
        BY <4>1
    <3>3. ASSUME NEW a \in Address, Delete(s, a)
          PROVE  op' = op
      BY <3>3 DEF Delete
    <3> QED
      BY <1>3, <3>1, <3>2, <3>3 DEF OwnStep
  <2>3. op'[s].pc \in {"idle", "insert"} /\ \A k \in Session \ {s} : op'[k] = op[k]
    BY <1>1, <2>1, <2>2 DEF Shape
  <2>4. NoBooking
    BY <1>1, <2>1, <2>3 DEF NoBooking
  <2> QED
    BY <2>4, NoBookingKeeps
<1> QED
  BY <1>2, <1>3

(* At the start there is nothing to book.                                    *)
LEMMA InitCredits == Init => Credits
<1> SUFFICES ASSUME Init PROVE Credits
  OBVIOUS
<1>1. \A j \in Job : op[j].pc = "idle" /\ j \in Session
  BY DEF Init, Idle, Session
<1>2. \A j \in Job : Reserved(j) = 0 /\ Replacing(j) = 0
  BY <1>1 DEF Reserved, Replacing, At
<1>3. Bytes(<<>>) = 0
  BY SumOfNone DEF Bytes
<1>4. PerJob \in Nat /\ Limit \in Nat /\ IsFiniteSet(Job)
  BY StorageAssumption
<1>5. \A j \in Job : Ledger(j)
  BY <1>1, <1>2, <1>3, <1>4 DEF Init, Ledger
<1>6. SumFunction([j \in Job |-> taken[j] + Reserved(j)]) = 0
  <2> DEFINE w == [j \in Job |-> taken[j] + Reserved(j)]
  <2>1. w \in [Job -> Int] /\ \A j \in Job : w[j] = 0
    BY <1>2 DEF Init
  <2> HIDE DEF w
  <2>2. SumFunction(w) = 0
    BY <1>4, <2>1, SumOfZeros
  <2> QED
    BY <2>2 DEF w
<1> QED
  BY <1>4, <1>5, <1>6 DEF Init, Credits

-----------------------------------------------------------------------------
(* The rest of the types: no value is newer than the last write, and a       *)
(* mailbox is held by a job.                                                 *)
Known(a) ==
    local[a].val <= made /\ committed[a].val <= made /\ latest[a] <= made

IsMap(map) == map = [j \in Job |-> map[j]]

Ranges ==
    /\ issued \subseteq ever /\ ever \subseteq Address
    /\ mutex \in [Session -> Job \cup {NoSession}]
    /\ IsMap(staged) /\ IsMap(wrote)
    /\ made <= MaxWrites
    /\ \A a \in Address : Known(a)
    /\ \A s \in Session : At(s, "insert") => op[s].entry.val <= made

(* A step that writes known values, if any, and begins no put at an own      *)
(* address but with the number of the next write.                            *)
InRange ==
    /\ issued' \subseteq ever' /\ ever' \subseteq ever \cup Address
    /\ mutex' = mutex \/ \E s \in Session, j \in Job \cup {NoSession} :
                             mutex' = [mutex EXCEPT ![s] = j]
    /\ staged' = staged \/ \E j \in Job : \E x : staged' = [staged EXCEPT ![j] = x]
    /\ wrote' = wrote \/ \E j \in Job : \E x : wrote' = [wrote EXCEPT ![j] = x]
    /\ made' \in Nat /\ made <= made' /\ made' <= MaxWrites
    /\ \A a \in Address : /\ local'[a] = local[a] \/ local'[a].val <= made'
                          /\ committed'[a] = committed[a] \/ committed'[a].val <= made'
                          /\ latest'[a] = latest[a] \/ latest'[a] <= made'
    /\ \A s \in Session : \/ op'[s] = op[s]
                          \/ op'[s].pc # "insert"
                          \/ op'[s].entry.val <= made'

(* Such a step keeps the ranges.                                             *)
LEMMA InRangeKeeps ==
    ASSUME Shape, Ranges, InRange
    PROVE  Ranges'
<1>1. made \in Nat /\ made' \in Nat /\ made <= made'
  BY DEF Shape, InRange
<1>2. ASSUME NEW a \in Address
      PROVE  Known(a)'
  <2>1. local[a].val \in Nat /\ committed[a].val \in Nat /\ latest[a] \in Nat
    <3>1. local[a] \in Version /\ committed[a] \in Version /\ latest[a] \in Nat
      BY DEF Shape
    <3> QED
      BY <3>1 DEF Version
  <2>2. Known(a)
    BY DEF Ranges
  <2>3. /\ local'[a] = local[a] \/ local'[a].val <= made'
        /\ committed'[a] = committed[a] \/ committed'[a].val <= made'
        /\ latest'[a] = latest[a] \/ latest'[a] <= made'
    BY DEF InRange
  <2> QED
    BY <1>1, <2>1, <2>2, <2>3 DEF Known
<1>3. ASSUME NEW s \in Session, At(s, "insert")'
      PROVE  op'[s].entry.val <= made'
  <2>1. CASE op'[s] = op[s]
    <3>1. op[s].pc = "insert" /\ op[s].entry.val <= made
      BY <1>3, <2>1 DEF Ranges, At
    <3>2. op[s] \in InsertOp(s)
      BY <3>1, OpIs DEF Shape, OwnOp, Idle, At
    <3>3. op[s].entry.val \in Nat
      BY <3>2 DEF InsertOp, Made
    <3> QED
      BY <1>1, <2>1, <3>1, <3>3
  <2>2. CASE op'[s] # op[s]
    BY <1>3, <2>2 DEF InRange, At
  <2> QED
    BY <2>1, <2>2
<1>4. mutex' \in [Session -> Job \cup {NoSession}]
  BY DEF InRange, Ranges
<1>5. IsMap(staged)' /\ IsMap(wrote)'
  BY DEF InRange, Ranges, IsMap
<1> QED
  BY <1>2, <1>3, <1>4, <1>5 DEF Ranges, InRange

(* The steps of an owner stay in range.                                      *)
LEMMA OwnerInRange ==
    ASSUME IInv, Ranges, NEW s \in Session, OwnStep(s)
    PROVE  Ranges'
<1>1. Shape /\ made \in Nat /\ MaxWrites \in Nat /\ made <= MaxWrites
      /\ issued \subseteq ever /\ ever \subseteq Address
  BY StorageAssumption DEF IInv, Shape, Ranges
<1>2. CASE Insert(s)
  <2>1. /\ op[s].pc = "insert" /\ op[s] \in InsertOp(s) /\ op[s].entry.val <= made
    <3>1. op[s].pc = "insert"
      BY <1>2 DEF Insert, At
    <3>2. op[s] \in InsertOp(s)
      BY <1>1, <3>1, OpIs DEF Shape, OwnOp, Idle, At
    <3> QED
      BY <3>1, <3>2 DEF Ranges, At
  <2> DEFINE id == op[s].id
             e == op[s].entry
  <2>2. /\ local' = [local EXCEPT ![id] = e] /\ id \in Address /\ e.val <= made
        /\ op' = [op EXCEPT ![s] = Idle] /\ Idle.pc = "idle"
        /\ UNCHANGED <<issued, ever, committed, mutex, made, latest, staged, wrote>>
    BY <1>2, <2>1 DEF Insert, Goto, Idle, InsertOp
  <2> HIDE DEF id, e
  <2>3. \A a \in Address : local'[a] = local[a] \/ local'[a].val <= made'
    BY <1>1, <2>2 DEF Shape
  <2>4. \A t \in Session : op'[t] = op[t] \/ op'[t].pc # "insert"
    BY <1>1, <2>2 DEF Shape
  <2>5. InRange
    BY <1>1, <2>2, <2>3, <2>4 DEF InRange
  <2> QED
    BY <1>1, <2>5, InRangeKeeps
<1>3. ASSUME NEW a \in Address, PutOwn(s, a)
      PROVE  Ranges'
  <2> DEFINE o == [pc |-> "insert", id |-> a,
                   entry |-> [seq |-> sequence[s], val |-> made']]
  <2>1. /\ op' = [op EXCEPT ![s] = o] /\ o.entry.val = made'
        /\ made < MaxWrites /\ made' = made + 1
        /\ issued' = issued \cup {a} /\ ever' = ever \cup {a}
        /\ latest' = [latest EXCEPT ![a] = made']
        /\ UNCHANGED <<local, committed, mutex, staged, wrote>>
    BY <1>3 DEF PutOwn, Goto
  <2> HIDE DEF o
  <2>2. made' \in Nat /\ made <= made' /\ made' <= MaxWrites
    BY <1>1, <2>1
  <2>3. \A b \in Address : latest'[b] = latest[b] \/ latest'[b] <= made'
    BY <1>1, <2>1, <2>2 DEF Shape
  <2>4. \A t \in Session : op'[t] = op[t] \/ op'[t].entry.val <= made'
    BY <1>1, <2>1, <2>2 DEF Shape
  <2>5. InRange
    BY <1>1, <2>1, <2>2, <2>3, <2>4 DEF InRange
  <2> QED
    BY <1>1, <2>5, InRangeKeeps
<1>4. ASSUME NEW a \in Address, Delete(s, a)
      PROVE  Ranges'
  <2>1. /\ issued' = issued \ {a} /\ ever' = ever
        /\ local' = [local EXCEPT ![a] = Absent]
        /\ committed' = [committed EXCEPT ![a] = Absent]
        /\ latest' = [latest EXCEPT ![a] = 0]
        /\ UNCHANGED <<mutex, op, made, staged, wrote>>
    BY <1>4 DEF Delete
  <2>2. Absent.val = 0
    BY DEF Absent
  <2>3. \A b \in Address : /\ local'[b] = local[b] \/ local'[b].val <= made'
                           /\ committed'[b] = committed[b] \/ committed'[b].val <= made'
                           /\ latest'[b] = latest[b] \/ latest'[b] <= made'
    BY <1>1, <2>1, <2>2 DEF Shape
  <2>4. InRange
    BY <1>1, <2>1, <2>3 DEF InRange
  <2> QED
    BY <1>1, <2>4, InRangeKeeps
<1> QED
  BY <1>2, <1>3, <1>4 DEF OwnStep

(* A job publishes values it is responsible for, and those were made.        *)
LEMMA WriteNextInRange ==
    ASSUME IInv, Ranges, NEW j \in Job, WriteNext(j)
    PROVE  Ranges'
<1> DEFINE w == Head(op[j].writes)
           n == sequence[Caller[j]]
           o == [op[j] EXCEPT !.writes = Tail(@)]
<1>1. /\ Shape /\ j \in Session /\ At(j, "write") /\ op[j].writes # <<>>
      /\ op[j] \in EndOp(j) /\ Doing(op[j]) = Values(op[j].writes)
      /\ committed' = [committed EXCEPT ![w.id] = [seq |-> n, val |-> w.val]]
      /\ latest' = [latest EXCEPT ![w.id] = w.val]
      /\ op' = [op EXCEPT ![j] = o]
      /\ UNCHANGED <<issued, ever, local, mutex, made, staged, wrote>>
  BY OpIs DEF WriteNext, Goto, At, IInv, Session
<1>2. w \in WriteOf(j) /\ w.val \in Values(op[j].writes)
  <2>1. op[j].writes \in Seq(WriteOf(j))
    BY <1>1 DEF EndOp
  <2> QED
    BY <1>1, <2>1, TailValues
<1>3. /\ made \in Nat /\ made <= MaxWrites /\ w.val <= made /\ w.id \in Address
      /\ issued \subseteq ever
  <2>1. w.val \in 1..made
    BY <1>1, <1>2 DEF IInv, Apart, Held
  <2> QED
    BY <1>1, <1>2, <2>1 DEF WriteOf, Mine, Shape, Ranges
<1>4. o.pc = "write"
  BY <1>1 DEF EndOp, At
<1> HIDE DEF w, o, n
<1>5. [seq |-> n, val |-> w.val].val = w.val
  OBVIOUS
<1>6. \A a \in Address : /\ committed'[a] = committed[a] \/ committed'[a].val <= made'
                         /\ latest'[a] = latest[a] \/ latest'[a] <= made'
  BY <1>1, <1>3, <1>5 DEF Shape
<1>7. \A t \in Session : op'[t] = op[t] \/ op'[t].pc # "insert"
  BY <1>1, <1>4 DEF Shape
<1>8. InRange
  BY <1>1, <1>3, <1>6, <1>7 DEF InRange
<1> QED
  BY <1>1, <1>8, InRangeKeeps

(* All the other steps write nothing.                                        *)
LEMMA OthersInRange ==
    ASSUME IInv, Ranges,
           UNCHANGED <<issued, ever, local, committed, latest>>,
           mutex' = mutex \/ \E s \in Session, h \in Job \cup {NoSession} :
                                mutex' = [mutex EXCEPT ![s] = h],
           staged' = staged \/ \E j \in Job : \E x : staged' = [staged EXCEPT ![j] = x],
           wrote' = wrote \/ \E j \in Job : \E x : wrote' = [wrote EXCEPT ![j] = x],
           made' = made \/ (made < MaxWrites /\ made' = made + 1),
           op' = op \/ \E s \in Session : \E o : op' = [op EXCEPT ![s] = o] /\ o.pc # "insert"
    PROVE  Ranges'
<1>1. Shape /\ made \in Nat /\ MaxWrites \in Nat /\ made <= MaxWrites /\ issued \subseteq ever
  BY StorageAssumption DEF IInv, Shape, Ranges
<1>2. made' \in Nat /\ made <= made' /\ made' <= MaxWrites
  BY <1>1
<1>3. \A t \in Session : op'[t] = op[t] \/ op'[t].pc # "insert"
  BY <1>1 DEF Shape
<1>4. InRange
  BY <1>1, <1>2, <1>3 DEF InRange
<1> QED
  BY <1>1, <1>4, InRangeKeeps

(* What a job does with its operation, seen from outside.                    *)
LEMMA JobOpIsReplaced ==
    ASSUME IInv, NEW j \in Job,
           \/ StartJob(j) \/ Grow(j) \/ Refuse(j) \/ Snap(j) \/ Replace(j)
           \/ \E a \in Address, n \in Sizes : PutCaller(j, a, n)
           \/ TakeStaged(j) \/ Upgrade(j) \/ Lock(j) \/ Unlock(j)
           \/ Finish(j) \/ Abort(j) \/ DropSession(j)
    PROVE  op' = op \/ \E o : op' = [op EXCEPT ![j] = o] /\ o.pc # "insert"
<1>1. Idle.pc # "insert" /\ Shape /\ j \in Session
  BY DEF Idle, IInv, Session
<1>2. ASSUME op' = [op EXCEPT ![j] = Idle]
      PROVE  op' = op \/ \E o : op' = [op EXCEPT ![j] = o] /\ o.pc # "insert"
  BY <1>1, <1>2
<1>3. CASE StartJob(j) \/ Finish(j) \/ DropSession(j)
  BY <1>3 DEF StartJob, Finish, DropSession
<1>4. CASE Refuse(j) \/ Replace(j) \/ Unlock(j) \/ Abort(j)
  BY <1>2, <1>4 DEF Refuse, Replace, Unlock, Abort, Goto
<1>5. CASE Grow(j)
  <2>1. op[j] \in MeasureOp(j)
    BY <1>1, <1>5, OpIs DEF Grow
  <2>2. [op[j] EXCEPT !.got = @ + 1].pc # "insert"
    BY <2>1 DEF MeasureOp
  <2> QED
    BY <1>5, <2>2 DEF Grow
<1>6. CASE Snap(j)
  <2>1. PICK bytes : Goto(j, [pc |-> "replace",
                write |-> [id |-> op[j].id, val |-> op[j].val, bytes |-> bytes]])
    BY <1>6 DEF Snap
  <2>2. [pc |-> "replace", write |-> [id |-> op[j].id, val |-> op[j].val,
                                      bytes |-> bytes]].pc # "insert"
    OBVIOUS
  <2> QED
    BY <2>1, <2>2 DEF Goto
<1>7. ASSUME NEW a \in Address, NEW n \in Sizes, PutCaller(j, a, n)
      PROVE  \E o : op' = [op EXCEPT ![j] = o] /\ o.pc # "insert"
  <2> DEFINE o == [pc |-> "measure", id |-> a, val |-> made', need |-> n, got |-> 0]
  <2>1. op' = [op EXCEPT ![j] = o] /\ o.pc # "insert"
    BY <1>7 DEF PutCaller, Goto
  <2> HIDE DEF o
  <2> QED
    BY <2>1
<1>8. CASE TakeStaged(j)
  <2>1. [pc |-> "upgrade", writes |-> staged[j]].pc # "insert"
    OBVIOUS
  <2>2. op' = op \/ op' = [op EXCEPT ![j] = [pc |-> "upgrade", writes |-> staged[j]]]
    BY <1>8 DEF TakeStaged, Goto
  <2> QED
    BY <2>1, <2>2
<1>9. CASE Upgrade(j) \/ Lock(j)
  <2>1. op[j] \in EndOp(j)
    BY <1>1, <1>9, OpIs DEF Upgrade, Lock, At
  <2>2. /\ [op[j] EXCEPT !.pc = "lock"].pc # "insert"
        /\ [op[j] EXCEPT !.pc = "write"].pc # "insert"
    BY <2>1 DEF EndOp
  <2>3. \/ op' = [op EXCEPT ![j] = Idle]
        \/ op' = [op EXCEPT ![j] = [op[j] EXCEPT !.pc = "lock"]]
        \/ op' = [op EXCEPT ![j] = [op[j] EXCEPT !.pc = "write"]]
    BY <1>9 DEF Upgrade, Lock, Goto
  <2> QED
    BY <1>2, <2>2, <2>3
<1> QED
  BY <1>3, <1>4, <1>5, <1>6, <1>7, <1>8, <1>9

(* A job that does not publish stays in range.                               *)
LEMMA JobInRange ==
    ASSUME IInv, Ranges, NEW j \in Job,
           \/ StartJob(j) \/ Grow(j) \/ Refuse(j) \/ Snap(j) \/ Replace(j)
           \/ \E a \in Address, n \in Sizes : PutCaller(j, a, n)
           \/ TakeStaged(j) \/ Upgrade(j) \/ Lock(j) \/ Unlock(j)
           \/ Finish(j) \/ Abort(j) \/ DropSession(j)
    PROVE  Ranges'
<1>1. op' = op \/ \E o : op' = [op EXCEPT ![j] = o] /\ o.pc # "insert"
  BY JobOpIsReplaced
<1>2. j \in Session /\ Caller[j] \in Session
  BY StorageAssumption DEF Session
<1>3. op' = op \/ \E s \in Session : \E o : op' = [op EXCEPT ![s] = o] /\ o.pc # "insert"
  BY <1>1, <1>2
<1>4. UNCHANGED <<issued, ever, local, committed, latest>>
  BY DEF StartJob, Grow, Refuse, Snap, Replace, PutCaller, TakeStaged, Upgrade, Lock,
         Unlock, Finish, Abort, DropSession, storageVars
<1>5. made' = made \/ (made < MaxWrites /\ made' = made + 1)
  BY DEF StartJob, Grow, Refuse, Snap, Replace, PutCaller, TakeStaged, Upgrade, Lock,
         Unlock, Finish, Abort, DropSession
<1>6. \/ mutex' = mutex
      \/ mutex' = [mutex EXCEPT ![Caller[j]] = j]
      \/ mutex' = [mutex EXCEPT ![Caller[j]] = NoSession]
  BY DEF StartJob, Grow, Refuse, Snap, Replace, PutCaller, TakeStaged, Upgrade, Lock,
         Unlock, Finish, Abort, DropSession, storageVars
<1>7. mutex' = mutex \/ \E s \in Session, h \in Job \cup {NoSession} :
                           mutex' = [mutex EXCEPT ![s] = h]
  BY <1>2, <1>6
<1>8. staged' = staged \/ \E x : staged' = [staged EXCEPT ![j] = x]
  BY DEF StartJob, Grow, Refuse, Snap, Replace, PutCaller, TakeStaged, Upgrade, Lock,
         Unlock, Finish, Abort, DropSession
<1>9. wrote' = wrote \/ \E x : wrote' = [wrote EXCEPT ![j] = x]
  BY DEF StartJob, Grow, Refuse, Snap, Replace, PutCaller, TakeStaged, Upgrade, Lock,
         Unlock, Finish, Abort, DropSession
<1> QED
  BY <1>3, <1>4, <1>5, <1>7, <1>8, <1>9, OthersInRange

-----------------------------------------------------------------------------
(* All of it is an invariant.                                                *)

Books == IInv /\ Credits /\ Ranges

(* The first state.                                                          *)
LEMMA InitBooks == Init => Books
<1> SUFFICES ASSUME Init PROVE Books
  OBVIOUS
<1>1. Ranges
  <2>1. Absent.val = 0 /\ Idle.pc = "idle" /\ MaxWrites \in Nat
    BY StorageAssumption DEF Absent, Idle
  <2>2. \A a \in Address : Known(a)
    BY <2>1 DEF Init, Known
  <2> QED
    BY <2>1, <2>2 DEF Init, Ranges, At, IsMap
<1> QED
  BY <1>1, InitIInv, InitCredits DEF Books

(* Every step.                                                               *)
LEMMA NextBooks == Books /\ [Next]_vars => Books'
<1> SUFFICES ASSUME Books, [Next]_vars PROVE Books'
  OBVIOUS
<1>1. IInv /\ Credits /\ Ranges /\ IInv' /\ Shape'
  BY NextIInv DEF Books, IInv
<1>2. ASSUME NEW s \in Session, OwnStep(s)
      PROVE  Credits' /\ Ranges'
  BY <1>1, <1>2, OwnerBooksNothing, OwnerInRange
<1>3. ASSUME NEW j \in Job, StageStep(j)
      PROVE  Credits' /\ Ranges'
  <2>1. Ranges'
    BY <1>1, <1>3, JobInRange DEF StageStep
  <2>2. Credits'
    BY <1>1, <1>3, JobBooksNothing, GrowBooks, DropLeaseBooks, SnapBooks, ReplaceBooks,
       PutCallerBooks DEF StageStep
  <2> QED
    BY <2>1, <2>2
<1>4. ASSUME NEW j \in Job, EndStep(j)
      PROVE  Credits' /\ Ranges'
  <2>1. Ranges'
    BY <1>1, <1>4, JobInRange, WriteNextInRange DEF EndStep
  <2>2. Credits'
    BY <1>1, <1>4, JobBooksNothing, GiveBackBooks, DropLeaseBooks DEF EndStep
  <2> QED
    BY <2>1, <2>2
<1>5. CASE CloseForeground
  <2>1. UNCHANGED <<issued, ever, local, committed, latest, mutex, made, op, staged, wrote>>
    BY <1>5 DEF CloseForeground, storageVars
  <2>2. Ranges'
    BY <1>1, <2>1, OthersInRange
  <2> QED
    BY <1>1, <1>5, <2>2, OwnerBooksNothing DEF Books
<1>6. CASE UNCHANGED vars
  <2>1. UNCHANGED <<phase, issued, ever, local, committed, latest, mutex, made, op,
                    staged, wrote, left, taken, used>>
    BY <1>6 DEF vars, storageVars, creditVars
  <2>2. Ranges'
    BY <1>1, <2>1, OthersInRange
  <2>3. NoBooking
    BY <2>1 DEF NoBooking, creditVars
  <2> QED
    BY <1>1, <2>2, <2>3, NoBookingKeeps DEF Books
<1> QED
  BY <1>1, <1>2, <1>3, <1>4, <1>5, <1>6 DEF Next, Books

(* The books are right in every reachable state.                             *)
LEMMA BooksInvariant == Spec => []Books
<1> QED
  BY InitBooks, NextBooks, PTL DEF Spec

(* The types follow.                                                         *)
LEMMA BooksTypes == Books => TypeOK
<1> SUFFICES ASSUME Books PROVE TypeOK
  OBVIOUS
<1>1. Shape /\ Apart /\ Credits /\ Ranges
  BY DEF Books, IInv
<1>2. made \in 0..MaxWrites /\ MaxWrites \in Nat
  BY <1>1, StorageAssumption DEF Shape, Ranges
<1>3. used \in Nat
  BY <1>1, UsedIsNat
<1>4. local \in [Address -> Entry] /\ committed \in [Address -> Entry]
      /\ latest \in [Address -> 0..MaxWrites]
  <2>1. /\ local \in [Address -> Version] /\ committed \in [Address -> Version]
        /\ latest \in [Address -> Nat]
    BY <1>1 DEF Shape
  <2>2. \A a \in Address : Known(a)
    BY <1>1 DEF Ranges
  <2>3. \A v \in Version : v.val <= made => v \in Entry
    BY <1>2 DEF Version, Entry
  <2>4. \A a \in Address : /\ local[a] \in Version /\ committed[a] \in Version
                           /\ latest[a] \in Nat
    BY <2>1
  <2>5. \A a \in Address : /\ local[a] \in Entry /\ committed[a] \in Entry
                           /\ latest[a] \in 0..MaxWrites
    BY <1>2, <2>2, <2>3, <2>4 DEF Known
  <2> QED
    BY <2>1, <2>5
<1>5. 1..made \subseteq 1..MaxWrites
  BY <1>2
<1>6. wrote \in [Job -> SUBSET (1..MaxWrites)] /\ visible \subseteq 1..MaxWrites
  <2>1. \A j \in Job : wrote[j] \subseteq 1..MaxWrites
    BY <1>1, <1>5 DEF Apart, Held
  <2> QED
    BY <1>1, <1>5, <2>1 DEF Apart, Ranges, IsMap
<1>7. staged \in [Job -> Seq(Staged)]
  <2>1. ASSUME NEW j \in Job
        PROVE  staged[j] \in Seq(Staged)
    <3> DEFINE s == staged[j]
    <3>1. s \in Seq(WriteOf(j)) /\ Values(s) \subseteq 1..MaxWrites
      BY <1>1, <1>5 DEF Shape, Apart, Held
    <3>2. /\ Len(s) \in Nat /\ DOMAIN s = 1..Len(s)
          /\ \A i \in 1..Len(s) : s[i] \in WriteOf(j)
      BY <3>1, LenProperties, ElementOfSeq
    <3>3. \A i \in 1..Len(s) : s[i].val \in 1..MaxWrites
      BY <3>1, <3>2 DEF Values
    <3>4. \A w \in WriteOf(j) : w.val \in 1..MaxWrites => w \in Staged
      BY DEF WriteOf, Staged, Mine, Made
    <3>5. \A i \in 1..Len(s) : s[i] \in Staged
      BY <3>2, <3>3, <3>4
    <3> HIDE DEF s
    <3>6. s \in Seq(Staged)
      BY <3>1, <3>2, <3>5
    <3> QED
      BY <3>6 DEF s
  <2> QED
    BY <1>1, <2>1 DEF Ranges, IsMap
<1> QED
  BY <1>1, <1>2, <1>3, <1>4, <1>6, <1>7 DEF TypeOK, Shape, Credits, Ranges

-----------------------------------------------------------------------------
(* The results.                                                              *)

(* Whenever the owner of an address can read it, it gets the newest value,   *)
(* also when jobs publish between the two steps of a put of the owner.       *)
THEOREM ReadersGetTheNewest == Spec => []NewestWins
<1>1. IInv => NewestWins
  <2> SUFFICES ASSUME IInv, NEW a \in Address, Readable(a)
               PROVE  Value(a) = latest[a]
    BY DEF NewestWins
  <2>1. phase[Owner[a]] = "open" /\ ~Pending(a)
    BY DEF Readable, Ready, Pending, At
  <2> QED
    BY <2>1 DEF IInv, Reads, Newest
<1> QED
  BY <1>1, Inductive, PTL

(* Whoever can read the addresses of the caller sees the write-set of a job  *)
(* as a whole if the job has published it, and nothing of it if the job was  *)
(* canceled, crashed or refused, or has not come so far.                     *)
THEOREM WriteSetsAreAtomic == Spec => []AllOrNothing
<1>1. IInv => AllOrNothing
  <2> SUFFICES ASSUME IInv, NEW j \in Job,
                      \A a \in Address : Owner[a] = Caller[j] => Readable(a)
               PROVE  IF outcome[j] = "published" THEN wrote[j] \subseteq visible
                                                  ELSE wrote[j] \cap visible = {}
    BY DEF AllOrNothing
  <2>1. Whole(j) /\ wrote[j] \subseteq Held(j)
    BY DEF IInv, Held
  <2>2. CASE outcome[j] = "published"
    BY <2>1, <2>2 DEF Whole
  <2>3. CASE outcome[j] # "published" /\ ~At(j, "write")
    BY <2>1, <2>3 DEF Whole
  <2>4. CASE outcome[j] # "published" /\ At(j, "write")
    <3>1. mutex[Caller[j]] = j /\ j # NoSession
      BY <2>1, <2>4, StorageAssumption DEF Whole, Session
    <3>2. Mine(j) = {}
      BY <3>1 DEF Mine, Readable
    <3> QED
      BY <2>1, <2>4, <3>2 DEF Whole
  <2> QED
    BY <2>2, <2>3, <2>4
<1> QED
  BY <1>1, Inductive, PTL

(* Whichever way puts and jobs end, interleaved in any order, the global     *)
(* counter is the sum of what the jobs hold, and no budget is exceeded.      *)
THEOREM CreditsAreExact == Spec => []BudgetExact
<1>1. Books => BudgetExact
  <2> SUFFICES ASSUME Books PROVE BudgetExact
    OBVIOUS
  <2>1. TypeOK
    BY BooksTypes
  <2>2. \A j \in Job : Ledger(j)
    BY DEF Books, Credits
  <2> QED
    BY <2>1, <2>2 DEF BudgetExact, Books, Credits, Ledger, Replacing
<1> QED
  BY <1>1, BooksInvariant, PTL
=============================================================================
