--------------------------- MODULE SessionProofs ---------------------------
(* Proofs about Session for every set of parameters and every depth of       *)
(* calls: the modes of a caller come back, safe mode is inherited over the   *)
(* borders of executions, writes remain, and a parameter does not stay in    *)
(* initialisation when names are asked for one by one.                       *)
EXTENDS Session, TLAPS, SequenceTheorems

-----------------------------------------------------------------------------
(* The modes of any stack, as Modes computes them for the current one.       *)

OwnOf(s) == {i \in DOMAIN s : \A k \in DOMAIN s : k > i => s[k].kind = "call"}
RootOf(s) == CHOOSE i \in OwnOf(s) : \A k \in OwnOf(s) : i <= k
SafeOf(s) ==
    /\ s # <<>>
    /\ s[RootOf(s)].inh.safe \/ \E i \in OwnOf(s) : s[i].safe > 0
    /\ ~(s[RootOf(s)].inh.off \/ \E i \in OwnOf(s) : s[i].latch)
PrivOf(s) ==
    /\ s # <<>>
    /\ ~SafeOf(s)
    /\ s[RootOf(s)].inh.priv \/ \E i \in OwnOf(s) : s[i].priv > 0
ModesOf(s) == [safe |-> SafeOf(s), priv |-> PrivOf(s)]

(* The modes in force are a function of the stack, also after a step.        *)
LEMMA ModesAre ==
    /\ Safe = SafeOf(stack)
    /\ Modes = ModesOf(stack)
    /\ Modes' = ModesOf(stack')
<1>1. Own = OwnOf(stack) /\ Own' = OwnOf(stack')
  BY DEF Own, OwnOf
<1>2. Root = RootOf(stack) /\ Root' = RootOf(stack')
  BY <1>1 DEF Root, RootOf, Own, OwnOf
<1>3. Safe = SafeOf(stack) /\ Safe' = SafeOf(stack')
  BY <1>1, <1>2 DEF Safe, SafeOf, Snapshot, SnapshotOf
<1>4. Privileged = PrivOf(stack) /\ Privileged' = PrivOf(stack')
  BY <1>1, <1>2, <1>3 DEF Privileged, PrivOf, Snapshot, SnapshotOf
<1> QED
  BY <1>3, <1>4 DEF Modes, ModesOf

(* The frames of an execution go from the last frame that is not a call to   *)
(* the top, and that frame is its root.                                      *)
Starts(s, r) ==
    /\ r \in 1..Len(s)
    /\ s[r].kind # "call"
    /\ \A k \in (r + 1)..Len(s) : s[k].kind = "call"

(* An execution is a segment of the stack with its root at the bottom.       *)
LEMMA RootIs ==
    ASSUME NEW s \in Seq(FrameType), NEW r, Starts(s, r)
    PROVE  OwnOf(s) = r..Len(s) /\ RootOf(s) = r
<1>1. DOMAIN s = 1..Len(s) /\ Len(s) \in Nat /\ r \in Nat
  BY LenProperties DEF Starts
<1>2. OwnOf(s) = r..Len(s)
  BY <1>1 DEF OwnOf, Starts
<1>3. r \in OwnOf(s) /\ \A k \in OwnOf(s) : r <= k
  BY <1>1, <1>2 DEF Starts
<1>4. RootOf(s) \in OwnOf(s) /\ \A k \in OwnOf(s) : RootOf(s) <= k
  BY <1>3 DEF RootOf
<1>5. RootOf(s) = r
  BY <1>1, <1>2, <1>3, <1>4
<1> QED
  BY <1>2, <1>5

(* A new execution is safe by the modes that it is entered with.             *)
LEMMA EntrySafe ==
    ASSUME NEW s \in Seq(FrameType), s # <<>>,
           s[Len(s)].kind # "call", ~s[Len(s)].latch,
           s[Len(s)].inh.safe, ~s[Len(s)].inh.off
    PROVE  SafeOf(s)
<1>1. Len(s) \in Nat \ {0}
  BY EmptySeq
<1>2. Starts(s, Len(s))
  BY <1>1 DEF Starts
<1>3. OwnOf(s) = {Len(s)} /\ RootOf(s) = Len(s)
  BY <1>1, <1>2, RootIs
<1> QED
  BY <1>3 DEF SafeOf

(* A call in safe mode is in safe mode, whatever its own counter says.       *)
LEMMA CallSafe ==
    ASSUME NEW s \in Seq(FrameType), NEW n \in Nat, Len(s) = n + 1,
           s[n + 1].kind = "call", ~s[n + 1].latch,
           NEW r, Starts(s, r),
           SafeOf(SubSeq(s, 1, n))
    PROVE  SafeOf(s)
<1> DEFINE t == SubSeq(s, 1, n)
<1>1. \A i \in 1..n : s[i] \in FrameType
  BY LenProperties
<1>2. /\ t \in Seq(FrameType) /\ Len(t) = n
      /\ \A i \in 1..n : t[i] = s[i]
  BY <1>1, SubSeqProperties
<1> HIDE DEF t
<1>3. r \in 1..n
  BY DEF Starts
<1>4. Starts(t, r)
  BY <1>2, <1>3 DEF Starts
<1>5. OwnOf(s) = r..(n + 1) /\ RootOf(s) = r
  BY RootIs
<1>6. OwnOf(t) = r..n /\ RootOf(t) = r
  BY <1>2, <1>4, RootIs
<1>7. s # <<>>
  BY EmptySeq
<1>8. t[r] = s[r] /\ SafeOf(t)
  BY <1>2, <1>3 DEF t
<1>9. s[r].inh.safe \/ \E i \in OwnOf(s) : s[i].safe > 0
  BY <1>2, <1>3, <1>5, <1>6, <1>8 DEF SafeOf
<1>10. ~s[r].inh.off /\ ~\E i \in OwnOf(t) : t[i].latch
  BY <1>6, <1>8 DEF SafeOf
<1>11. ~\E i \in OwnOf(s) : s[i].latch
  BY <1>2, <1>3, <1>5, <1>6, <1>10
<1> QED
  BY <1>5, <1>7, <1>9, <1>10, <1>11 DEF SafeOf

-----------------------------------------------------------------------------
(* What is true of the frames of every stack.                                *)

(* A frame that is entered from safe mode must be safe; a call is safe by    *)
(* its caller, another frame by the modes it is entered with.                *)
EntryHolds(f) ==
    /\ f.was.safe => f.must
    /\ f.kind = "call" /\ f.must => f.was.safe
    /\ f.kind # "call" /\ f.must /\ ~f.lift => f.inh.safe /\ ~f.inh.off
    /\ f.kind = "body" => ~f.lift

(* Nothing in frame k takes what runs above it out of safe mode.             *)
Clean(s, k) == ~s[k].latch /\ ~s[k].lift

(* Frames remember the modes of their callers; the stack starts with an      *)
(* execution; safe mode reaches a frame over clean ones.                     *)
Frames(s) ==
    /\ s \in Seq(FrameType)
    /\ s # <<>> => s[1].kind # "call"
    /\ \A i \in 1..Len(s) : EntryHolds(s[i])
    /\ \A i \in 2..Len(s) : s[i].was = ModesOf(SubSeq(s, 1, i - 1))
    /\ \A i \in 1..Len(s) : \E r \in 1..i : Starts(SubSeq(s, 1, i), r)
    /\ \A i \in 1..Len(s), j \in 1..Len(s) :
          i < j /\ s[i].must /\ (\A k \in i..(j - 1) : Clean(s, k)) => s[j].must

(* Prefixes of stacks that agree are equal.                                  *)
LEMMA SamePrefix ==
    ASSUME NEW S, NEW s \in Seq(S), NEW t \in Seq(S), NEW n \in Nat,
           n <= Len(s), n <= Len(t), \A i \in 1..n : s[i] = t[i]
    PROVE  /\ SubSeq(s, 1, n) = SubSeq(t, 1, n)
           /\ SubSeq(s, 1, n) \in Seq(S)
           /\ Len(SubSeq(s, 1, n)) = n
           /\ \A i \in 1..n : SubSeq(s, 1, n)[i] = s[i]
<1>1. Len(s) \in Nat /\ Len(t) \in Nat
  BY LenProperties
<1>2. \A i \in 1..n : s[i] \in S /\ t[i] \in S
  BY <1>1, ElementOfSeq
<1>3. /\ SubSeq(s, 1, n) \in Seq(S) /\ Len(SubSeq(s, 1, n)) = n
      /\ \A i \in 1..n : SubSeq(s, 1, n)[i] = s[i]
  BY <1>2, SubSeqProperties
<1>4. /\ SubSeq(t, 1, n) \in Seq(S) /\ Len(SubSeq(t, 1, n)) = n
      /\ \A i \in 1..n : SubSeq(t, 1, n)[i] = t[i]
  BY <1>2, SubSeqProperties
<1>5. SubSeq(s, 1, n) = SubSeq(t, 1, n)
  BY <1>3, <1>4, SeqEqual
<1> QED
  BY <1>3, <1>5

(* The frames below the top.                                                 *)
LEMMA CallerIs ==
    ASSUME stack \in Seq(FrameType), stack # <<>>
    PROVE  /\ Len(stack) \in Nat \ {0}
           /\ Top \in FrameType
           /\ Caller \in Seq(FrameType)
           /\ Len(Caller) = Len(stack) - 1
           /\ \A i \in 1..(Len(stack) - 1) : Caller[i] = stack[i]
           /\ Caller = <<>> <=> Len(stack) = 1
<1>1. Len(stack) \in Nat \ {0}
  BY EmptySeq
<1>2. Top \in FrameType
  BY <1>1, ElementOfSeq DEF Top
<1>3. /\ Caller \in Seq(FrameType) /\ Len(Caller) = Len(stack) - 1
      /\ \A i \in 1..(Len(stack) - 1) : Caller[i] = stack[i]
  <2> DEFINE m == Len(stack) - 1
  <2>1. m \in Nat /\ m <= Len(stack) /\ Caller = SubSeq(stack, 1, m)
    BY <1>1 DEF Caller
  <2> HIDE DEF m
  <2>2. /\ Caller \in Seq(FrameType) /\ Len(Caller) = m
        /\ \A i \in 1..m : Caller[i] = stack[i]
    BY <2>1, SamePrefix
  <2> QED
    BY <2>2 DEF m
<1>4. Caller = <<>> <=> Len(Caller) = 0
  BY <1>3, EmptySeq
<1> QED
  BY <1>1, <1>2, <1>3, <1>4

(* Returning keeps the frames of the caller.                                 *)
LEMMA PopKeeps ==
    ASSUME Frames(stack), stack # <<>>
    PROVE  Frames(Caller)
<1> DEFINE n == Len(stack) - 1
<1>1. /\ Len(stack) \in Nat \ {0} /\ n \in Nat
      /\ Caller \in Seq(FrameType) /\ Len(Caller) = n
      /\ \A i \in 1..n : Caller[i] = stack[i]
  BY CallerIs DEF Frames
<1> HIDE DEF n
<1>2. n + 1 = Len(stack)
  BY <1>1 DEF n
<1>3. ASSUME NEW i \in 0..n
      PROVE  SubSeq(Caller, 1, i) = SubSeq(stack, 1, i)
  <2>1. /\ i \in Nat /\ i <= Len(Caller) /\ i <= Len(stack)
        /\ \A k \in 1..i : Caller[k] = stack[k]
    BY <1>1, <1>2
  <2> QED
    BY <1>1, <2>1, SamePrefix DEF Frames
<1>4. \A i \in 1..n : EntryHolds(Caller[i])
  BY <1>1, <1>2 DEF Frames
<1>5. ASSUME NEW i \in 2..n
      PROVE  Caller[i].was = ModesOf(SubSeq(Caller, 1, i - 1))
  <2>1. i \in 2..Len(stack) /\ i - 1 \in 0..n /\ Caller[i] = stack[i]
    BY <1>1, <1>2
  <2>2. SubSeq(Caller, 1, i - 1) = SubSeq(stack, 1, i - 1)
    BY <1>3, <2>1
  <2>3. stack[i].was = ModesOf(SubSeq(stack, 1, i - 1))
    BY <2>1 DEF Frames
  <2> QED
    BY <2>1, <2>2, <2>3
<1>6. ASSUME NEW i \in 1..n
      PROVE  \E r \in 1..i : Starts(SubSeq(Caller, 1, i), r)
  <2>1. i \in 1..Len(stack) /\ i \in 0..n
    BY <1>1, <1>2
  <2>2. SubSeq(Caller, 1, i) = SubSeq(stack, 1, i)
    BY <1>3, <2>1
  <2>3. \E r \in 1..i : Starts(SubSeq(stack, 1, i), r)
    BY <2>1 DEF Frames
  <2> QED
    BY <2>2, <2>3
<1>7. ASSUME NEW i \in 1..n, NEW j \in 1..n, i < j, Caller[i].must,
             \A k \in i..(j - 1) : Clean(Caller, k)
      PROVE  Caller[j].must
  <2>1. \A k \in i..(j - 1) : Clean(stack, k)
    BY <1>1, <1>2, <1>7 DEF Clean
  <2>2. i \in 1..Len(stack) /\ j \in 1..Len(stack) /\ stack[i].must
    BY <1>1, <1>2, <1>7
  <2>3. stack[j].must
    BY <1>7, <2>1, <2>2 DEF Frames
  <2> QED
    BY <1>1, <2>3
<1>8. Caller # <<>> => Caller[1].kind # "call"
  <2>1. Caller # <<>> => n # 0
    BY <1>1, EmptySeq
  <2> QED
    BY <1>1, <2>1 DEF Frames
<1> QED
  BY <1>1, <1>4, <1>5, <1>6, <1>7, <1>8 DEF Frames

(* What the running frame does to itself keeps the frames.                   *)
LEMMA TouchKeeps ==
    ASSUME Frames(stack), stack # <<>>, NEW g \in FrameType,
           g.was = Top.was, g.must = Top.must, EntryHolds(g),
           g.kind = "call" <=> Top.kind = "call"
    PROVE  Frames([stack EXCEPT ![Len(stack)] = g])
<1> DEFINE n == Len(stack)
           t == [stack EXCEPT ![n] = g]
<1>1. n \in Nat \ {0} /\ stack \in Seq(FrameType)
  BY CallerIs DEF Frames
<1>2. /\ t \in Seq(FrameType) /\ Len(t) = n
      /\ \A i \in 1..n : t[i] = IF i = n THEN g ELSE stack[i]
  BY <1>1, ExceptSeq
<1> HIDE DEF t
<1>3. \A i \in 1..n : /\ t[i].was = stack[i].was
                      /\ t[i].must = stack[i].must
                      /\ t[i].kind = "call" <=> stack[i].kind = "call"
  BY <1>2 DEF Top
<1>4. ASSUME NEW i \in 0..(n - 1)
      PROVE  SubSeq(t, 1, i) = SubSeq(stack, 1, i)
  <2>1. /\ i \in Nat /\ i <= Len(t) /\ i <= Len(stack)
        /\ \A k \in 1..i : t[k] = stack[k]
    BY <1>1, <1>2
  <2> QED
    BY <1>1, <1>2, <2>1, SamePrefix
<1>5. \A i \in 1..n : EntryHolds(t[i])
  BY <1>2 DEF Frames
<1>6. ASSUME NEW i \in 2..n
      PROVE  t[i].was = ModesOf(SubSeq(t, 1, i - 1))
  <2>1. i \in 1..n /\ i - 1 \in 0..(n - 1)
    BY <1>1
  <2>2. SubSeq(t, 1, i - 1) = SubSeq(stack, 1, i - 1)
    BY <1>4, <2>1
  <2>3. stack[i].was = ModesOf(SubSeq(stack, 1, i - 1))
    BY DEF Frames
  <2> QED
    BY <1>3, <2>1, <2>2, <2>3
<1>7. ASSUME NEW i \in 1..n
      PROVE  \E r \in 1..i : Starts(SubSeq(t, 1, i), r)
  <2>1. PICK r \in 1..i : Starts(SubSeq(stack, 1, i), r)
    BY DEF Frames
  <2>2. /\ Len(SubSeq(stack, 1, i)) = i
        /\ \A k \in 1..i : SubSeq(stack, 1, i)[k] = stack[k]
    BY <1>1, SamePrefix
  <2>3. /\ Len(SubSeq(t, 1, i)) = i
        /\ \A k \in 1..i : SubSeq(t, 1, i)[k] = t[k]
    BY <1>1, <1>2, SamePrefix
  <2>4. Starts(SubSeq(t, 1, i), r)
    BY <1>1, <1>3, <2>1, <2>2, <2>3 DEF Starts
  <2> QED
    BY <2>4
<1>8. ASSUME NEW i \in 1..n, NEW j \in 1..n, i < j, t[i].must,
             \A k \in i..(j - 1) : Clean(t, k)
      PROVE  t[j].must
  <2>1. \A k \in i..(j - 1) : Clean(stack, k)
    BY <1>1, <1>2, <1>8 DEF Clean
  <2>2. stack[j].must
    BY <1>3, <1>8, <2>1 DEF Frames
  <2> QED
    BY <1>3, <2>2
<1>9. t[1].kind # "call"
  BY <1>1, <1>3 DEF Frames
<1> QED
  BY <1>2, <1>5, <1>6, <1>7, <1>8, <1>9 DEF Frames, t

(* The state is in safe mode when its top frame must be and is clean.        *)
LEMMA TopIsSafe ==
    ASSUME Frames(stack), stack # <<>>, Top.must, Clean(stack, Len(stack))
    PROVE  Safe
<1> DEFINE n == Len(stack)
<1>1. n \in Nat \ {0} /\ Top = stack[n] /\ stack \in Seq(FrameType)
  BY CallerIs DEF Frames, Top
<1>2. EntryHolds(stack[n])
  BY <1>1 DEF Frames
<1>3. CASE Top.kind # "call"
  BY <1>1, <1>2, <1>3, EntrySafe, ModesAre DEF EntryHolds, Clean
<1>4. CASE Top.kind = "call"
  <2>1. n # 1
    BY <1>1, <1>4 DEF Frames
  <2>2. stack[n].was = ModesOf(SubSeq(stack, 1, n - 1)) /\ stack[n].was.safe
    BY <1>1, <1>2, <1>4, <2>1 DEF Frames, EntryHolds
  <2>3. SafeOf(SubSeq(stack, 1, n - 1))
    BY <2>2 DEF ModesOf
  <2>4. PICK r \in 1..n : Starts(SubSeq(stack, 1, n), r)
    BY <1>1 DEF Frames
  <2>5. SubSeq(stack, 1, n) = stack
    BY <1>1, SubSeqFull
  <2>6. n - 1 \in Nat /\ n = (n - 1) + 1
    BY <1>1
  <2>7. stack[(n - 1) + 1].kind = "call" /\ ~stack[(n - 1) + 1].latch
    BY <1>1, <1>4, <2>6 DEF Clean
  <2>8. SafeOf(stack)
    <3> DEFINE m == n - 1
    <3>1. /\ m \in Nat /\ Len(stack) = m + 1
          /\ stack[m + 1].kind = "call" /\ ~stack[m + 1].latch
          /\ SafeOf(SubSeq(stack, 1, m))
          /\ Starts(stack, r)
      BY <2>3, <2>4, <2>5, <2>6, <2>7
    <3> HIDE DEF m
    <3> QED
      BY <1>1, <3>1, CallSafe
  <2> QED
    BY <2>8, ModesAre
<1> QED
  BY <1>3, <1>4

(* Entering a frame keeps the frames.                                        *)
LEMMA PushKeeps ==
    ASSUME Frames(stack), NEW f \in FrameType,
           f.was = Modes, EntryHolds(f),
           f.kind = "call" => stack # <<>>
    PROVE  Frames(Append(stack, f))
<1> DEFINE n == Len(stack)
           t == Append(stack, f)
<1>1. n \in Nat /\ stack \in Seq(FrameType) /\ (stack # <<>> <=> n # 0)
  BY LenProperties, EmptySeq DEF Frames
<1>2. /\ t \in Seq(FrameType) /\ Len(t) = n + 1 /\ t[n + 1] = f
      /\ \A i \in 1..n : t[i] = stack[i]
  BY <1>1, AppendProperties
<1> HIDE DEF t
<1>3. ASSUME NEW i \in 0..n
      PROVE  SubSeq(t, 1, i) = SubSeq(stack, 1, i)
  <2>1. /\ i \in Nat /\ i <= Len(t) /\ i <= Len(stack)
        /\ \A k \in 1..i : t[k] = stack[k]
    BY <1>1, <1>2
  <2> QED
    BY <1>1, <1>2, <2>1, SamePrefix
<1>4. \A i \in 1..(n + 1) : EntryHolds(t[i])
  BY <1>1, <1>2 DEF Frames
<1>5. ASSUME NEW i \in 2..(n + 1)
      PROVE  t[i].was = ModesOf(SubSeq(t, 1, i - 1))
  <2>1. CASE i = n + 1
    <3>1. i - 1 = n /\ n \in 0..n
      BY <1>1, <2>1
    <3>2. SubSeq(t, 1, n) = stack
      BY <1>1, <1>3, <3>1, SubSeqFull
    <3> QED
      BY <1>2, <2>1, <3>1, <3>2, ModesAre
  <2>2. CASE i \in 2..n
    <3>1. i - 1 \in 0..n /\ i \in 1..n
      BY <1>1, <2>2
    <3>2. SubSeq(t, 1, i - 1) = SubSeq(stack, 1, i - 1)
      BY <1>3, <3>1
    <3>3. stack[i].was = ModesOf(SubSeq(stack, 1, i - 1))
      BY <2>2 DEF Frames
    <3> QED
      BY <1>2, <3>1, <3>2, <3>3
  <2> QED
    BY <1>1, <2>1, <2>2
<1>6. ASSUME NEW i \in 1..(n + 1)
      PROVE  \E r \in 1..i : Starts(SubSeq(t, 1, i), r)
  <2>1. CASE i \in 1..n
    <3>1. SubSeq(t, 1, i) = SubSeq(stack, 1, i)
      BY <1>1, <1>3, <2>1
    <3>2. \E r \in 1..i : Starts(SubSeq(stack, 1, i), r)
      BY <2>1 DEF Frames
    <3> QED
      BY <3>1, <3>2
  <2>2. CASE i = n + 1
    <3>1. SubSeq(t, 1, i) = t
      BY <1>2, <2>2, SubSeqFull
    <3>2. CASE f.kind # "call"
      <4>1. Starts(t, n + 1)
        BY <1>1, <1>2, <3>2 DEF Starts
      <4> QED
        BY <1>1, <2>2, <3>1, <4>1
    <3>3. CASE f.kind = "call"
      <4>1. n \in 1..n
        BY <1>1, <3>3
      <4>2. PICK r \in 1..n : Starts(SubSeq(stack, 1, n), r)
        BY <4>1 DEF Frames
      <4>3. SubSeq(stack, 1, n) = stack
        BY <1>1, SubSeqFull
      <4>4. Starts(t, r)
        BY <1>1, <1>2, <3>3, <4>2, <4>3 DEF Starts
      <4>5. r \in 1..i
        BY <1>1, <2>2, <4>2
      <4> QED
        BY <3>1, <4>4, <4>5
    <3> QED
      BY <3>2, <3>3
  <2> QED
    BY <1>1, <2>1, <2>2
<1>7. ASSUME NEW i \in 1..(n + 1), NEW j \in 1..(n + 1), i < j, t[i].must,
             \A k \in i..(j - 1) : Clean(t, k)
      PROVE  t[j].must
  <2>1. i \in 1..n /\ stack[i].must
    BY <1>1, <1>2, <1>7
  <2>2. \A k \in i..(j - 1) : k \in 1..n => Clean(stack, k)
    BY <1>2, <1>7 DEF Clean
  <2>3. CASE j \in 1..n
    <3>1. \A k \in i..(j - 1) : Clean(stack, k)
      BY <1>1, <2>2, <2>3
    <3>2. stack[j].must
      BY <1>7, <2>1, <2>3, <3>1 DEF Frames
    <3> QED
      BY <1>2, <2>3, <3>2
  <2>4. CASE j = n + 1
    <3>1. \A k \in i..n : Clean(stack, k)
      BY <1>1, <2>1, <2>2, <2>4
    <3>2. stack[n].must
      <4>1. CASE i = n
        BY <2>1, <4>1
      <4>2. CASE i < n
        <5>1. \A k \in i..(n - 1) : Clean(stack, k)
          BY <1>1, <2>1, <3>1
        <5> QED
          BY <1>1, <2>1, <4>2, <5>1 DEF Frames
      <4> QED
        BY <1>1, <2>1, <4>1, <4>2
    <3>3. n \in i..n /\ stack # <<>>
      BY <1>1, <2>1
    <3>4. Safe
      BY <3>1, <3>2, <3>3, TopIsSafe DEF Top
    <3>5. f.must
      BY <3>4 DEF EntryHolds, Modes
    <3> QED
      BY <1>2, <2>4, <3>5
  <2> QED
    BY <1>1, <2>3, <2>4
<1>8. t[1].kind # "call"
  <2>1. CASE n = 0
    BY <1>1, <1>2, <2>1
  <2>2. CASE n # 0
    <3>1. 1 \in 1..n /\ stack[1].kind # "call"
      BY <1>1, <2>2 DEF Frames
    <3> QED
      BY <1>2, <3>1
  <2> QED
    BY <2>1, <2>2
<1> QED
  BY <1>2, <1>4, <1>5, <1>6, <1>7, <1>8 DEF Frames, t

-----------------------------------------------------------------------------
(* The inductive invariant.                                                  *)

Kinds == {"entry", "call", "event", "body", "handler"}
Inh == [safe : BOOLEAN, off : BOOLEAN, priv : BOOLEAN]

(* The first frame is an execution; a request for nothing in particular is   *)
(* the one that opens the session.                                           *)
Base(s) ==
    /\ Frames(s)
    /\ s # <<>> => /\ s[1].kind \in {"entry", "body", "handler"}
                   /\ s[1].kind \in {"body", "handler"} => s[1].names = <<>>

IInv ==
    /\ TypeOK
    /\ Base(stack)
    /\ phase = "closed" => stack = <<>>

(* What a frame inherits keeps safe mode on where it is on.                  *)
LEMMA SnapshotIs ==
    /\ Snapshot \in Inh
    /\ Safe => Snapshot.safe /\ ~Snapshot.off
BY DEF Snapshot, SnapshotOf, Inh, Safe

(* What a new frame is made of.                                              *)
LEMMA FrameIs ==
    ASSUME NEW kind \in Kinds, NEW names \in Seq(Param), NEW inh \in Inh,
           NEW f, f = Frame(kind, names, inh)
    PROVE  /\ f \in FrameType
           /\ f.kind = kind /\ f.names = names /\ f.inh = inh
           /\ f.was = Modes /\ f.was.safe = Safe /\ f.must = Safe
           /\ ~f.lift /\ ~f.latch
<1>1. Safe \in BOOLEAN /\ Privileged \in BOOLEAN
  BY DEF Safe, Privileged
<1>2. Modes \in [safe : BOOLEAN, priv : BOOLEAN] /\ Modes.safe = Safe
  BY <1>1 DEF Modes
<1> HIDE DEF Modes, Safe
<1> QED
  BY <1>1, <1>2 DEF Frame, FrameType, Kinds, Inh

(* Entering a frame that records the modes it found keeps the stack sound.   *)
LEMMA Pushed ==
    ASSUME IInv, NEW f \in FrameType, f.was = Modes, EntryHolds(f),
           f.kind \notin {"entry", "body", "handler"} => stack # <<>>,
           stack = <<>> => f.names = <<>>,
           stack' = Append(stack, f)
    PROVE  Base(stack') /\ stack' # <<>> /\ stack' \in Seq(FrameType)
<1>1. Frames(stack')
  BY PushKeeps DEF IInv, Base
<1>2. /\ stack \in Seq(FrameType) /\ Len(stack) \in Nat
      /\ stack # <<>> <=> Len(stack) # 0
      /\ stack' # <<>> /\ stack' \in Seq(FrameType)
      /\ \A i \in 1..Len(stack) : stack'[i] = stack[i]
      /\ stack'[Len(stack) + 1] = f
  BY LenProperties, EmptySeq, AppendProperties DEF IInv, TypeOK
<1>3. stack'[1] = IF stack = <<>> THEN f ELSE stack[1]
  BY <1>2
<1> QED
  BY <1>1, <1>2, <1>3 DEF IInv, Base, FrameType

(* Leaving a frame keeps the stack sound.                                    *)
LEMMA Popped ==
    ASSUME IInv, stack # <<>>, stack' = Caller
    PROVE  Base(stack') /\ stack' \in Seq(FrameType)
<1>1. Frames(stack')
  BY PopKeeps DEF IInv, Base
<1>2. /\ Len(stack) \in Nat \ {0} /\ Caller \in Seq(FrameType)
      /\ \A i \in 1..(Len(stack) - 1) : Caller[i] = stack[i]
      /\ Caller = <<>> <=> Len(stack) = 1
  BY CallerIs DEF IInv, TypeOK
<1>3. Caller # <<>> => Caller[1] = stack[1]
  <2> DEFINE n == Len(stack)
  <2>1. n \in Nat \ {0} /\ (Caller # <<>> => n # 1)
    BY <1>2
  <2> HIDE DEF n
  <2>2. Caller # <<>> => 1 \in 1..(n - 1)
    BY <2>1
  <2> USE DEF n
  <2> QED
    BY <1>2, <2>2
<1> QED
  BY <1>1, <1>2, <1>3 DEF IInv, Base

(* So does a change of the top frame that touches only its own modes.        *)
LEMMA Touched ==
    ASSUME IInv, stack # <<>>, NEW g \in FrameType,
           g.was = Top.was, g.must = Top.must, g.names = Top.names, EntryHolds(g),
           g.kind = Top.kind \/ (Top.kind = "body" /\ g.kind = "handler"),
           stack' = [stack EXCEPT ![Len(stack)] = g]
    PROVE  Base(stack') /\ stack' # <<>> /\ stack' \in Seq(FrameType)
<1>1. Frames(stack')
  BY TouchKeeps DEF IInv, Base
<1>2. /\ Len(stack) \in Nat \ {0} /\ stack \in Seq(FrameType)
      /\ stack' \in Seq(FrameType) /\ Len(stack') = Len(stack)
      /\ \A i \in 1..Len(stack) : stack'[i] = IF i = Len(stack) THEN g ELSE stack[i]
      /\ stack' # <<>>
  BY CallerIs, ExceptSeq, EmptySeq DEF IInv, TypeOK
<1>3. stack'[1] = IF Len(stack) = 1 THEN g ELSE stack[1]
  BY <1>2
<1> QED
  BY <1>1, <1>2, <1>3 DEF IInv, Base, Top

-----------------------------------------------------------------------------
(* Every action keeps the invariant.                                         *)

(* The empty stack satisfies the invariant.                                  *)
LEMMA InitIInv == Init => IInv
<1> SUFFICES ASSUME Init PROVE IInv
  OBVIOUS
<1>1. stack = <<>> /\ stack \in Seq(FrameType) /\ Len(stack) = 0
  BY EmptySeq DEF Init
<1>2. Base(stack)
  BY <1>1 DEF Base, Frames
<1> QED
  BY <1>1, <1>2 DEF Init, IInv, TypeOK

(* A mode is counted in the top frame only.                                  *)
LEMMA SetModeIs ==
    ASSUME IInv, NEW m \in {"safe", "off", "priv"}, NEW on \in BOOLEAN, SetMode(m, on)
    PROVE  /\ stack # <<>> /\ ~raising /\ UNCHANGED <<phase, param, module>>
           /\ \/ stack' = stack /\ raising' = TRUE
              \/ /\ UNCHANGED raising
                 /\ \E g \in FrameType :
                       /\ stack' = [stack EXCEPT ![Len(stack)] = g]
                       /\ g.kind = Top.kind /\ g.names = Top.names /\ g.inh = Top.inh
                       /\ g.was = Top.was /\ g.must = Top.must /\ g.lift = Top.lift
<1>1. stack # <<>> /\ ~raising /\ UNCHANGED <<phase, param, module>>
  BY DEF SetMode, Runs
<1>2. Top \in FrameType /\ Len(stack) \in Nat \ {0} /\ stack \in Seq(FrameType)
  BY <1>1, CallerIs DEF IInv, TypeOK
<1>3. CASE on \/ Top[m] > 0
  <2> DEFINE n == IF on THEN Top[m] + 1 ELSE Top[m] - 1
             l == Top.latch \/ (m = "off" /\ on)
             g == [Top EXCEPT ![m] = n, !.latch = l]
  <2>1. /\ UNCHANGED raising
        /\ stack' = [stack EXCEPT ![Len(stack)][m] = n, ![Len(stack)].latch = @ \/ (m = "off" /\ on)]
    BY <1>3 DEF SetMode
  <2>2. Top[m] \in Nat
    BY <1>2 DEF FrameType
  <2>3. n \in Nat /\ l \in BOOLEAN
    BY <1>3, <2>2
  <2>4. stack' = [stack EXCEPT ![Len(stack)] = g]
    <3> HIDE DEF n
    <3>1. \A i \in DOMAIN stack : i = Len(stack) => stack[i] = Top
      BY DEF Top
    <3>2. CASE m = "safe"
      BY <1>2, <2>1, <3>1, <3>2 DEF FrameType, Top
    <3>3. CASE m = "off"
      BY <1>2, <2>1, <3>1, <3>3 DEF FrameType, Top
    <3>4. CASE m = "priv"
      BY <1>2, <2>1, <3>1, <3>4 DEF FrameType, Top
    <3> QED
      BY <3>2, <3>3, <3>4
  <2> HIDE DEF n, l
  <2>5. /\ g \in FrameType /\ g.kind = Top.kind /\ g.names = Top.names
        /\ g.inh = Top.inh /\ g.was = Top.was /\ g.must = Top.must
        /\ g.lift = Top.lift
    BY <1>2, <2>3 DEF FrameType
  <2> HIDE DEF g
  <2> QED
    BY <1>1, <2>1, <2>4, <2>5
<1>4. CASE ~(on \/ Top[m] > 0)
  BY <1>1, <1>4 DEF SetMode
<1> QED
  BY <1>3, <1>4

(* The counters of a mode, and calls of procedures and of events.            *)
LEMMA SetModeKeeps ==
    ASSUME IInv, NEW m \in {"safe", "off", "priv"}, NEW on \in BOOLEAN, SetMode(m, on)
    PROVE  IInv'
<1>1. stack # <<>> /\ ~raising /\ UNCHANGED <<phase, param, module>>
  BY SetModeIs
<1>2. CASE stack' = stack /\ raising' = TRUE
  BY <1>1, <1>2 DEF IInv, TypeOK, Base
<1>3. CASE /\ UNCHANGED raising
           /\ \E g \in FrameType :
                 /\ stack' = [stack EXCEPT ![Len(stack)] = g]
                 /\ g.kind = Top.kind /\ g.names = Top.names /\ g.inh = Top.inh
                 /\ g.was = Top.was /\ g.must = Top.must /\ g.lift = Top.lift
  <2>1. PICK g \in FrameType :
                 /\ stack' = [stack EXCEPT ![Len(stack)] = g]
                 /\ g.kind = Top.kind /\ g.names = Top.names /\ g.inh = Top.inh
                 /\ g.was = Top.was /\ g.must = Top.must /\ g.lift = Top.lift
    BY <1>3
  <2>2. EntryHolds(Top)
    BY <1>1, CallerIs DEF IInv, TypeOK, Base, Frames, Top
  <2>3. EntryHolds(g)
    BY <2>1, <2>2 DEF EntryHolds
  <2>4. Base(stack') /\ stack' # <<>> /\ stack' \in Seq(FrameType)
    BY <1>1, <2>1, <2>3, Touched
  <2> QED
    BY <1>1, <1>3, <2>4 DEF IInv, TypeOK, Base
<1> QED
  BY <1>2, <1>3, SetModeIs

(* A call within the task of its caller keeps the invariant.                 *)
LEMMA CallKeeps == IInv /\ Call => IInv'
<1> SUFFICES ASSUME IInv, Call PROVE IInv'
  OBVIOUS
<1> DEFINE f == Frame("call", <<>>, NoModes)
<1>1. stack # <<>> /\ stack' = Append(stack, f) /\ UNCHANGED <<phase, param, module, raising>>
  BY DEF Call, Runs, Push
<1>2. /\ f \in FrameType /\ f.kind = "call" /\ f.was = Modes
      /\ f.was.safe = Safe /\ f.must = Safe /\ ~f.lift
  <2> DEFINE none == <<>>
             kind == "call"
  <2>1. NoModes \in Inh /\ none \in Seq(Param) /\ kind \in Kinds
    BY EmptySeq DEF NoModes, Inh, Kinds
  <2>2. f = Frame(kind, none, NoModes)
    OBVIOUS
  <2> HIDE DEF f, none
  <2>3. /\ f \in FrameType /\ f.kind = kind /\ f.was = Modes
        /\ f.was.safe = Safe /\ f.must = Safe /\ ~f.lift
        /\ f.inh = NoModes
    <3> HIDE DEF kind
    <3> QED
      BY <2>1, <2>2, FrameIs
  <2> QED
    BY <2>3
<1> HIDE DEF f
<1>3. EntryHolds(f)
  BY <1>2 DEF EntryHolds
<1>4. Base(stack') /\ stack' # <<>> /\ stack' \in Seq(FrameType)
  BY <1>1, <1>2, <1>3, Pushed
<1> QED
  BY <1>1, <1>4 DEF IInv, TypeOK, Base

(* Entering an event keeps it, whatever its policy is.                       *)
LEMMA EventKeeps ==
    ASSUME IInv, NEW policy, Event(policy)
    PROVE  IInv'
<1> DEFINE f == Frame("event", <<>>, Snapshot)
<1>1. stack # <<>> /\ UNCHANGED <<phase, param, module, raising>>
  BY DEF Event, Runs
<1>2. /\ f \in FrameType /\ f.kind = "event" /\ f.was = Modes /\ f.inh = Snapshot
      /\ f.was.safe = Safe /\ f.must = Safe /\ ~f.lift
  <2> DEFINE none == <<>>
             kind == "event"
  <2>1. Snapshot \in Inh /\ none \in Seq(Param) /\ kind \in Kinds
    BY EmptySeq, SnapshotIs DEF Kinds
  <2>2. f = Frame(kind, none, Snapshot)
    OBVIOUS
  <2> HIDE DEF f, none
  <2>3. /\ f \in FrameType /\ f.kind = kind /\ f.was = Modes
        /\ f.was.safe = Safe /\ f.must = Safe /\ ~f.lift
        /\ f.inh = Snapshot
    <3> HIDE DEF kind
    <3> QED
      BY <2>1, <2>2, FrameIs
  <2> QED
    BY <2>3
<1>3. Safe => f.inh.safe /\ ~f.inh.off
  BY <1>2, SnapshotIs
<1>4. \E g \in FrameType : /\ stack' = Append(stack, g)
                           /\ g.kind = "event" /\ g.was = Modes
                           /\ EntryHolds(g)
  <2>1. CASE stack' = Append(stack, f)
    BY <1>2, <1>3, <2>1 DEF EntryHolds
  <2> HIDE DEF f
  <2>2. CASE stack' = Append(stack, [f EXCEPT !.inh.off = TRUE, !.lift = TRUE])
    <3> DEFINE g == [f EXCEPT !.inh.off = TRUE, !.lift = TRUE]
    <3>1. /\ g \in FrameType /\ g.kind = "event" /\ g.was = Modes
          /\ g.was.safe = Safe /\ g.must = Safe /\ g.lift
      BY <1>2 DEF FrameType
    <3> QED
      BY <2>2, <3>1 DEF EntryHolds
  <2>3. CASE stack' = Append(stack, [f EXCEPT !.inh.safe = TRUE, !.inh.off = FALSE,
                                              !.must = TRUE])
    <3> DEFINE g == [f EXCEPT !.inh.safe = TRUE, !.inh.off = FALSE, !.must = TRUE]
    <3>1. /\ g \in FrameType /\ g.kind = "event" /\ g.was = Modes
          /\ g.must /\ g.inh.safe /\ ~g.inh.off
      BY <1>2 DEF FrameType
    <3> QED
      BY <2>3, <3>1 DEF EntryHolds
  <2>4. CASE stack' = Append(stack, [f EXCEPT !.inh.off = TRUE, !.lift = TRUE,
                                              !.off = 1, !.latch = TRUE])
    <3> DEFINE g == [f EXCEPT !.inh.off = TRUE, !.lift = TRUE, !.off = 1, !.latch = TRUE]
    <3>1. /\ g \in FrameType /\ g.kind = "event" /\ g.was = Modes
          /\ g.was.safe = Safe /\ g.must = Safe /\ g.lift
      BY <1>2 DEF FrameType
    <3> QED
      BY <2>4, <3>1 DEF EntryHolds
  <2> QED
    BY <2>1, <2>2, <2>3, <2>4 DEF Event, Push, f
<1>5. Base(stack') /\ stack' # <<>> /\ stack' \in Seq(FrameType)
  BY <1>1, <1>4, Pushed
<1> QED
  BY <1>1, <1>5 DEF IInv, TypeOK, Base

(* Returning from a procedure, an event or the call from outside.            *)
LEMMA LeaveFrameKeeps == IInv /\ LeaveFrame => IInv'
<1> SUFFICES ASSUME IInv, LeaveFrame PROVE IInv'
  OBVIOUS
<1>1. /\ stack # <<>> /\ stack' = Caller /\ UNCHANGED <<phase, param, module>>
      /\ raising' = (raising /\ Caller # <<>>)
  BY DEF LeaveFrame
<1>2. Base(stack') /\ stack' \in Seq(FrameType)
  BY <1>1, Popped
<1> QED
  BY <1>1, <1>2 DEF IInv, TypeOK, Base

(* The body or the handler of the module is entered, in safe mode when its   *)
(* caller is.                                                                *)
Entered(names, f) ==
    /\ stack' = Append(stack, f)
    /\ f.names = names
    /\ \/ f.kind = "body" /\ module = "new" /\ module' = "busy"
       \/ f.kind = "handler" /\ module = "ready" /\ module' = "ready"

(* What entering the session module pushes: its body, or its handler.        *)
LEMMA EnterModuleIs ==
    ASSUME IInv, NEW names \in Seq(Param), NEW inh \in Inh,
           Safe => inh.safe /\ ~inh.off,
           stack = <<>> => names = <<>>,
           EnterModule(names, inh)
    PROVE  /\ Base(stack') /\ stack' # <<>> /\ stack' \in Seq(FrameType)
           /\ \E f \in FrameType : Entered(names, f)
<1>1. \E f \in FrameType : /\ Entered(names, f)
                           /\ f.was = Modes /\ EntryHolds(f)
                           /\ f.kind \in {"body", "handler"}
  <2>1. CASE module = "new" /\ module' = "busy" /\ Push(Frame("body", names, inh))
    <3> DEFINE f == Frame("body", names, inh)
               kind == "body"
    <3>1. f = Frame(kind, names, inh) /\ kind \in Kinds
      BY DEF Kinds
    <3>2. stack' = Append(stack, f)
      BY <2>1 DEF Push
    <3> HIDE DEF f
    <3>3. /\ f \in FrameType /\ f.kind = kind /\ f.was = Modes /\ f.names = names
          /\ f.was.safe = Safe /\ f.must = Safe /\ ~f.lift /\ f.inh = inh
      <4> HIDE DEF kind
      <4> QED
        BY <3>1, FrameIs
    <3> QED
      BY <2>1, <3>2, <3>3 DEF Entered, EntryHolds
  <2>2. CASE /\ module = "ready" /\ UNCHANGED module
             /\ Push(Frame("handler", names, HandlerModes(inh)))
    <3> DEFINE h == HandlerModes(inh)
               f == Frame("handler", names, h)
               kind == "handler"
    <3>1. h \in Inh /\ h.safe = inh.safe /\ h.off = inh.off
      BY DEF HandlerModes, Inh
    <3>2. f = Frame(kind, names, h) /\ kind \in Kinds
      BY DEF Kinds
    <3>3. stack' = Append(stack, f)
      BY <2>2 DEF Push
    <3> HIDE DEF f, h
    <3>4. /\ f \in FrameType /\ f.kind = kind /\ f.was = Modes /\ f.names = names
          /\ f.was.safe = Safe /\ f.must = Safe /\ ~f.lift /\ f.inh = h
      <4> HIDE DEF kind
      <4> QED
        BY <3>1, <3>2, FrameIs
    <3> QED
      BY <2>2, <3>1, <3>3, <3>4 DEF Entered, EntryHolds
  <2> QED
    BY <2>1, <2>2 DEF EnterModule
<1>2. PICK f \in FrameType : /\ Entered(names, f)
                            /\ f.was = Modes /\ EntryHolds(f)
                            /\ f.kind \in {"body", "handler"}
  BY <1>1
<1>3. Base(stack') /\ stack' # <<>> /\ stack' \in Seq(FrameType)
  BY <1>2, Pushed DEF Entered
<1> QED
  BY <1>2, <1>3

(* Marks and their removal keep the type of the parameters.                  *)
LEMMA MarksAre ==
    ASSUME param \in [Param -> {"unset", "busy", "set"}], NEW ps
    PROVE  /\ Mark(ps) \in [Param -> {"unset", "busy", "set"}]
           /\ Unmark(ps) \in [Param -> {"unset", "busy", "set"}]
           /\ \A p \in Param : Mark(ps)[p] = IF p \in ps /\ param[p] = "unset"
                                             THEN "busy" ELSE param[p]
           /\ \A p \in Param : Unmark(ps)[p] = IF p \in ps /\ param[p] = "busy"
                                               THEN "unset" ELSE param[p]
BY DEF Mark, Unmark

(* A request of parameters keeps the invariant, granted or refused.          *)
LEMMA RequestKeeps ==
    ASSUME IInv, NEW names \in Requests, Request(names)
    PROVE  IInv'
<1>1. /\ stack # <<>> /\ ~raising /\ UNCHANGED phase
      /\ names \in Seq(Param)
  BY SessionAssumption DEF Request, Runs
<1>2. param' \in [Param -> {"unset", "busy", "set"}]
  BY MarksAre DEF Request, IInv, TypeOK
<1>3. CASE Busy(names) = {} /\ EnterModule(names, Snapshot) /\ UNCHANGED raising
  <2>1. /\ Base(stack') /\ stack' # <<>> /\ stack' \in Seq(FrameType)
        /\ \E f \in FrameType : Entered(names, f)
    BY <1>1, <1>3, SnapshotIs, EnterModuleIs
  <2>2. module' \in {"busy", "ready"}
    BY <2>1 DEF Entered
  <2> QED
    BY <1>1, <1>2, <1>3, <2>1, <2>2 DEF IInv, TypeOK, Base
<1>4. CASE /\ raising' = TRUE /\ UNCHANGED stack
           /\ module' \in {module, "failed"}
  BY <1>1, <1>2, <1>4 DEF IInv, TypeOK, Base
<1> QED
  BY <1>3, <1>4 DEF Request

(* The body is replaced by its handler, which was owed the same modes.       *)
LEMMA BodyReturnsKeeps == IInv /\ BodyReturns => IInv'
<1> SUFFICES ASSUME IInv, BodyReturns PROVE IInv'
  OBVIOUS
<1> DEFINE inh == HandlerModes(Top.inh)
           kind == "handler"
           names == Top.names
           h == Frame(kind, names, inh)
           g == [h EXCEPT !.was = Top.was, !.must = Top.must]
<1>1. /\ stack # <<>> /\ Top.kind = "body" /\ module' = "ready"
      /\ UNCHANGED <<phase, param, raising>>
      /\ stack' = Append(Caller, g)
  BY DEF BodyReturns, Runs
<1>2. /\ Top \in FrameType /\ EntryHolds(Top)
      /\ Len(stack) \in Nat \ {0} /\ stack \in Seq(FrameType)
      /\ Caller \in Seq(FrameType) /\ Len(Caller) = Len(stack) - 1
      /\ \A i \in 1..(Len(stack) - 1) : Caller[i] = stack[i]
  BY <1>1, CallerIs DEF IInv, TypeOK, Base, Frames, Top
<1>3. /\ names \in Seq(Param) /\ inh \in Inh /\ kind \in Kinds
      /\ inh.safe = Top.inh.safe /\ inh.off = Top.inh.off
  BY <1>2 DEF FrameType, HandlerModes, Inh, Kinds
<1>4. h = Frame(kind, names, inh)
  OBVIOUS
<1> HIDE DEF h
<1>5. /\ h \in FrameType /\ h.kind = "handler" /\ h.names = Top.names
      /\ h.inh = inh /\ ~h.lift
  <2>1. /\ h \in FrameType /\ h.kind = kind /\ h.names = names
        /\ h.inh = inh /\ ~h.lift
    <3> HIDE DEF kind, names, inh
    <3> QED
      BY <1>3, <1>4, FrameIs
  <2> QED
    BY <2>1
<1> HIDE DEF inh
<1>6. /\ g \in FrameType /\ g.kind = "handler" /\ g.names = Top.names
      /\ g.inh = inh /\ ~g.lift /\ g.was = Top.was /\ g.must = Top.must
  BY <1>2, <1>5 DEF FrameType
<1> HIDE DEF g
<1>7. EntryHolds(g)
  BY <1>1, <1>2, <1>3, <1>6 DEF EntryHolds
<1>8. stack' = [stack EXCEPT ![Len(stack)] = g]
  <2> DEFINE t == [stack EXCEPT ![Len(stack)] = g]
             u == Append(Caller, g)
  <2>1. /\ t \in Seq(FrameType) /\ Len(t) = Len(stack)
        /\ \A i \in 1..Len(stack) : t[i] = IF i = Len(stack) THEN g ELSE stack[i]
    BY <1>2, <1>6, ExceptSeq
  <2>2. /\ u \in Seq(FrameType) /\ Len(u) = Len(Caller) + 1
        /\ \A i \in 1..Len(Caller) : u[i] = Caller[i]
        /\ u[Len(Caller) + 1] = g
    BY <1>2, <1>6, AppendProperties
  <2> HIDE DEF t, u
  <2>3. Len(t) = Len(u) /\ \A i \in 1..Len(t) : t[i] = u[i]
    BY <1>2, <2>1, <2>2
  <2>4. t = u
    BY <2>1, <2>2, <2>3, SeqEqual
  <2> QED
    BY <1>1, <2>4 DEF t, u
<1>9. Base(stack') /\ stack' # <<>> /\ stack' \in Seq(FrameType)
  BY <1>1, <1>6, <1>7, <1>8, Touched
<1> QED
  BY <1>1, <1>9 DEF IInv, TypeOK, Base

(* The handler returns: when nobody waits below it, it was asked for nothing *)
(* and cannot have missed anything.                                          *)
LEMMA HandlerReturnsKeeps == IInv /\ HandlerReturns => IInv'
<1> SUFFICES ASSUME IInv, HandlerReturns PROVE IInv'
  OBVIOUS
<1>1. /\ stack # <<>> /\ Top.kind = "handler" /\ stack' = Caller /\ UNCHANGED module
      /\ phase' = IF Caller = <<>> THEN "open" ELSE phase
      /\ raising' = (Busy(Top.names) # {} \/ (Len(Top.names) = 1 /\ param[Top.names[1]] # "set"))
  BY DEF HandlerReturns, Runs
<1>2. param' \in [Param -> {"unset", "busy", "set"}]
  BY MarksAre DEF HandlerReturns, IInv, TypeOK
<1>3. Base(stack') /\ stack' \in Seq(FrameType)
  BY <1>1, Popped
<1>4. raising' => Caller # <<>>
  <2> SUFFICES ASSUME Caller = <<>> PROVE ~raising'
    OBVIOUS
  <2>1. Len(stack) = 1
    BY <1>1, CallerIs DEF IInv, TypeOK
  <2>2. Top.names = <<>>
    BY <1>1, <2>1 DEF IInv, Base, Top
  <2> DEFINE names == Top.names
  <2>3. raising' = (Busy(names) # {} \/ (Len(names) = 1 /\ param[names[1]] # "set"))
    BY <1>1
  <2>4. Len(names) = 0 /\ DOMAIN names = {}
    BY <2>2, EmptySeq
  <2> HIDE DEF names
  <2>5. Busy(names) = {}
    BY <2>4 DEF Busy
  <2>6. Len(names) # 1
    BY <2>4
  <2> QED
    BY <2>3, <2>5, <2>6, Zenon
<1>5. raising' \in BOOLEAN
  BY <1>1
<1> QED
  BY <1>1, <1>2, <1>3, <1>4, <1>5 DEF IInv, TypeOK, Base

(* An error that leaves the body or the handler keeps the invariant.         *)
LEMMA RequestFailsKeeps == IInv /\ RequestFails => IInv'
<1> SUFFICES ASSUME IInv, RequestFails PROVE IInv'
  OBVIOUS
<1>1. /\ stack # <<>> /\ stack' = Caller
      /\ raising' = (Caller # <<>>)
      /\ phase' = IF Caller = <<>> THEN "refused" ELSE phase
      /\ module' \in {"failed", module}
  BY DEF RequestFails, IInv, TypeOK
<1>2. param' \in [Param -> {"unset", "busy", "set"}]
  BY MarksAre DEF RequestFails, IInv, TypeOK
<1>3. Base(stack') /\ stack' \in Seq(FrameType)
  BY <1>1, Popped
<1> QED
  BY <1>1, <1>2, <1>3 DEF IInv, TypeOK, Base

(* The session is opened, or entered from outside.                           *)
LEMMA OpenKeeps == IInv /\ (Open \/ Enter) => IInv'
<1> SUFFICES ASSUME IInv, Open \/ Enter PROVE IInv'
  OBVIOUS
<1>1. ~Safe
  BY DEF Open, Enter, IInv, Safe
<1>2. NoModes \in Inh /\ stack = <<>>
  BY DEF NoModes, Inh, Open, Enter, IInv
<1>3. CASE Open
  <2> DEFINE none == <<>>
  <2>1. none \in Seq(Param) /\ EnterModule(none, NoModes)
    BY <1>3, EmptySeq DEF Open
  <2>2. stack = <<>> => none = <<>>
    OBVIOUS
  <2> HIDE DEF none
  <2>3. /\ Base(stack') /\ stack' # <<>> /\ stack' \in Seq(FrameType)
        /\ \E f \in FrameType : Entered(none, f)
    BY <1>1, <1>2, <2>1, <2>2, EnterModuleIs
  <2>4. module' \in {"busy", "ready"}
    BY <2>3 DEF Entered
  <2> QED
    BY <1>3, <2>3, <2>4 DEF Open, IInv, TypeOK, Base
<1>4. CASE Enter
  <2> DEFINE none == <<>>
             kind == "entry"
             f == Frame(kind, none, NoModes)
  <2>1. none \in Seq(Param) /\ kind \in Kinds
    BY EmptySeq DEF Kinds
  <2>2. f = Frame(kind, none, NoModes) /\ stack' = Append(stack, f)
    BY <1>4 DEF Enter, Push
  <2> HIDE DEF f, none
  <2>3. /\ f \in FrameType /\ f.kind = kind /\ f.was = Modes /\ f.names = none
        /\ f.was.safe = Safe /\ f.must = Safe /\ ~f.lift
    <3> HIDE DEF kind
    <3> QED
      BY <1>2, <2>1, <2>2, FrameIs
  <2>4. EntryHolds(f)
    BY <1>1, <2>3 DEF EntryHolds
  <2>5. f.kind = "entry" /\ f.names = <<>>
    BY <2>3 DEF none
  <2>6. Base(stack') /\ stack' # <<>> /\ stack' \in Seq(FrameType)
    BY <2>2, <2>3, <2>4, <2>5, Pushed
  <2> QED
    BY <1>4, <2>6 DEF Enter, IInv, TypeOK, Base
<1> QED
  BY <1>3, <1>4

(* Every step keeps the invariant.                                           *)
LEMMA NextIInv == IInv /\ [Next]_vars => IInv'
<1> SUFFICES ASSUME IInv, [Next]_vars PROVE IInv'
  OBVIOUS
<1>1. CASE Raise \/ Catch \/ Clear \/ \E p \in Param : Set(p)
  BY <1>1 DEF Raise, Catch, Clear, Set, Runs, IInv, TypeOK, Base
<1>2. CASE UNCHANGED vars
  BY <1>2 DEF vars, IInv, TypeOK, Base
<1> QED
  BY <1>1, <1>2, OpenKeeps, CallKeeps, LeaveFrameKeeps, SetModeKeeps, EventKeeps,
     RequestKeeps, BodyReturnsKeeps, HandlerReturnsKeeps, RequestFailsKeeps DEF Next

(* The invariant holds in every reachable state.                             *)
THEOREM Inductive == Spec => []IInv
<1> QED
  BY InitIInv, NextIInv, PTL DEF Spec

-----------------------------------------------------------------------------
(* The results.                                                              *)

(* A push makes the stack one frame longer.                                  *)
LEMMA AppendIsLonger ==
    ASSUME NEW t \in Seq(FrameType), NEW f
    PROVE  Len(Append(t, f)) = Len(t) + 1
<1> DEFINE S == FrameType \cup {f}
<1>1. t \in Seq(S) /\ f \in S
  BY SeqMonotonic
<1> HIDE DEF S
<1> QED
  BY <1>1, AppendProperties

(* A stack that gets shorter loses its top and nothing else.                 *)
LEMMA ShorterIsCaller ==
    ASSUME IInv, IInv', [Next]_vars, Len(stack') < Len(stack)
    PROVE  stack # <<>> /\ stack' = Caller
<1> DEFINE m == Len(stack)
           n == Len(stack')
<1>1. /\ stack \in Seq(FrameType) /\ m \in Nat /\ DOMAIN stack = 1..m
      /\ stack' \in Seq(FrameType) /\ n \in Nat /\ DOMAIN stack' = 1..n
  BY LenProperties DEF IInv, TypeOK
<1>2. n < m
  OBVIOUS
<1>3. DOMAIN stack' # DOMAIN stack
  <2> HIDE DEF m, n
  <2>1. m \in 1..m /\ m \notin 1..n
    BY <1>1, <1>2
  <2> QED
    BY <1>1, <2>1
<1>4. stack # <<>>
  <2>1. m # 0
    <3> HIDE DEF m, n
    <3> QED
      BY <1>1, <1>2
  <2> QED
    BY <1>1, <2>1, EmptySeq
<1>5. ASSUME NEW f, stack' = Append(stack, f) \/ stack' = Append(Caller, f)
      PROVE  FALSE
  <2>1. Len(Append(stack, f)) = m + 1
    BY <1>1, AppendIsLonger
  <2>2. Caller \in Seq(FrameType) /\ Len(Caller) = m - 1
    BY <1>1, <1>4, CallerIs
  <2>3. Len(Append(Caller, f)) = m - 1 + 1
    BY <2>2, AppendIsLonger
  <2>4. n = m + 1 \/ n = m - 1 + 1
    BY <1>5, <2>1, <2>3
  <2> HIDE DEF m, n
  <2> QED
    BY <1>1, <1>2, <2>4
<1>6. ASSUME NEW mode \in {"safe", "off", "priv"}, NEW on \in BOOLEAN, SetMode(mode, on)
      PROVE  FALSE
  BY <1>3, <1>6 DEF SetMode
<1>7. ASSUME Open \/ Enter \/ Call \/ BodyReturns
      PROVE  FALSE
  BY <1>5, <1>7 DEF Open, Enter, Call, BodyReturns, EnterModule, Push
<1>8. ASSUME NEW policy, Event(policy)
      PROVE  FALSE
  BY <1>5, <1>8 DEF Event, Push
<1>9. ASSUME NEW names \in Requests, Request(names)
      PROVE  FALSE
  <2>1. stack' = stack \/ \E f : stack' = Append(stack, f)
    BY <1>9 DEF Request, EnterModule, Push
  <2> QED
    BY <1>3, <1>5, <2>1
<1>10. ASSUME Raise \/ Catch \/ Clear \/ (\E p \in Param : Set(p)) \/ UNCHANGED vars
       PROVE  FALSE
  BY <1>3, <1>10 DEF Raise, Catch, Clear, Set, vars
<1>11. CASE LeaveFrame \/ HandlerReturns \/ RequestFails
  BY <1>4, <1>11 DEF LeaveFrame, HandlerReturns, RequestFails
<1> QED
  BY <1>6, <1>7, <1>8, <1>9, <1>10, <1>11 DEF Next

(* Whatever a callee does with its modes, and however it is left, its caller *)
(* runs in the modes it had before.                                          *)
THEOREM CallersGetTheirModesBack == Spec => ModesAreRestored
<1>1. ASSUME IInv, IInv', [Next]_vars
      PROVE  [Len(stack') < Len(stack) /\ stack' # <<>> => Modes' = Top.was]_vars
  <2> SUFFICES ASSUME Len(stack') < Len(stack), stack' # <<>>
               PROVE  Modes' = Top.was
    OBVIOUS
  <2>1. stack # <<>> /\ stack' = Caller
    BY <1>1, ShorterIsCaller
  <2>2. Len(stack) \in Nat \ {0} /\ Len(stack) # 1
    BY <1>1, <2>1, CallerIs DEF IInv, TypeOK
  <2>3. Len(stack) \in 2..Len(stack)
    BY <2>2
  <2>4. stack[Len(stack)].was = ModesOf(SubSeq(stack, 1, Len(stack) - 1))
    BY <1>1, <2>3 DEF IInv, Base, Frames
  <2>5. Modes' = ModesOf(stack')
    BY ModesAre
  <2> QED
    BY <2>1, <2>4, <2>5 DEF Top, Caller
<1> QED
  BY <1>1, Inductive, PTL DEF Spec, ModesAreRestored

(* Safe mode reaches everything that is called from it, over the borders of  *)
(* executions and into the privileged handler of the session module.         *)
THEOREM SafeModeIsInherited == Spec => []SafeModeHolds
<1>1. ASSUME IInv
      PROVE  SafeModeHolds
  <2> SUFFICES ASSUME NEW i \in DOMAIN stack, stack[i].must,
                      \A k \in i..Len(stack) : Clean(stack, k)
               PROVE  Safe /\ ~Privileged
    BY DEF SafeModeHolds, Clean
  <2> DEFINE n == Len(stack)
  <2>1. /\ stack \in Seq(FrameType) /\ Frames(stack)
        /\ DOMAIN stack = 1..n /\ n \in Nat
    BY <1>1, LenProperties DEF IInv, TypeOK, Base
  <2>2. i \in 1..n /\ n \in 1..n /\ n \in i..n
    BY <2>1
  <2>3. stack # <<>>
    BY <2>1, <2>2, EmptySeq
  <2>4. stack[n].must
    <3>1. CASE i = n
      BY <3>1
    <3>2. CASE i < n
      <4>1. \A k \in i..(n - 1) : Clean(stack, k)
        BY <2>1, <2>2
      <4> QED
        BY <2>1, <2>2, <3>2, <4>1 DEF Frames
    <3> QED
      BY <2>1, <2>2, <3>1, <3>2
  <2>5. Safe
    BY <2>1, <2>2, <2>3, <2>4, TopIsSafe DEF Top
  <2> QED
    BY <2>5 DEF Privileged
<1> QED
  BY <1>1, Inductive, PTL

(* No failure takes back a write: values go by Clear only.                   *)
THEOREM NoWriteIsTakenBack == Spec => WritesRemain
<1> DEFINE Kept == \A p \in Param : param[p] = "set" => param'[p] = "set"
<1>1. ASSUME IInv, [Next]_vars
      PROVE  [~Clear => Kept]_vars
  <2> SUFFICES ASSUME ~Clear
               PROVE  Kept
    OBVIOUS
  <2>1. param \in [Param -> {"unset", "busy", "set"}]
    BY <1>1 DEF IInv, TypeOK
  <2>2. CASE \E ps : param' \in {param, Mark(ps), Unmark(ps)}
    BY <2>1, <2>2, MarksAre
  <2>3. ASSUME NEW p \in Param, Set(p)
        PROVE  Kept
    BY <2>1, <2>3 DEF Set
  <2>4. ASSUME NEW names \in Requests, Request(names)
        PROVE  \E ps : param' \in {param, Mark(ps), Unmark(ps)}
    BY <2>4 DEF Request
  <2>5. ASSUME HandlerReturns \/ RequestFails
        PROVE  \E ps : param' \in {param, Mark(ps), Unmark(ps)}
    BY <2>5 DEF HandlerReturns, RequestFails
  <2>6. ASSUME \/ Open \/ Enter \/ Call \/ Raise \/ Catch \/ LeaveFrame \/ BodyReturns
               \/ \E m \in {"safe", "off", "priv"}, on \in BOOLEAN : SetMode(m, on)
               \/ \E policy \in {"inherit", "withoutSafe", "extensionSafe", "extensionUnsafe"} :
                     Event(policy)
               \/ UNCHANGED vars
        PROVE  param' = param
    BY <2>6 DEF Open, Enter, Call, Raise, Catch, LeaveFrame, BodyReturns, SetMode, Event, vars
  <2> QED
    BY <1>1, <2>2, <2>3, <2>4, <2>5, <2>6 DEF Next
<1> QED
  BY <1>1, Inductive, PTL DEF Spec, WritesRemain

-----------------------------------------------------------------------------
(* Nothing is left half done, when names are asked for one by one: with      *)
(* several names, a return of the handler answers for the first one only.    *)

OneByOne == \A names \in Requests : Len(names) = 1

At(kind) == {i \in DOMAIN stack : stack[i].kind = kind}

(* A body on the stack is that of a module which is not ready, and a call of *)
(* the handler answers for at most one name.                                 *)
HInv ==
    /\ \A i \in DOMAIN stack : Len(stack[i].names) \in {0, 1}
    /\ NothingStaysBusy
    /\ At("handler") # {} => module = "ready" /\ At("body") = {}
    /\ module = "busy" => At("body") # {}
    /\ \A i, k \in At("body") : i = k
    /\ At("body") # {} => module \in {"busy", "failed"}

(* What frames come and go without touching the body of the module.          *)
LEMMA QuietStack ==
    ASSUME HInv, UNCHANGED module,
           \A p \in Param : param'[p] = "busy" => param[p] = "busy",
           \A i \in DOMAIN stack :
               \/ /\ i \in DOMAIN stack'
                  /\ stack'[i].kind = stack[i].kind
                  /\ stack'[i].names = stack[i].names
               \/ /\ i \notin DOMAIN stack'
                  /\ stack[i].kind # "body"
                  /\ \A p \in Param : Asks(i, p) => param'[p] # "busy",
           \A i \in DOMAIN stack' :
               \/ i \in DOMAIN stack
               \/ stack'[i].kind \notin {"body", "handler"} /\ Len(stack'[i].names) = 0
    PROVE  HInv'
<1>1. \A i \in DOMAIN stack' : Len(stack'[i].names) \in {0, 1}
  BY DEF HInv
<1>2. NothingStaysBusy'
  <2> SUFFICES ASSUME NEW p \in Param, param'[p] = "busy"
               PROVE  \E i \in DOMAIN stack' : Asks(i, p)'
    BY DEF NothingStaysBusy
  <2>1. PICK i \in DOMAIN stack : Asks(i, p)
    BY DEF HInv, NothingStaysBusy
  <2>2. i \in DOMAIN stack' /\ stack'[i].kind = stack[i].kind /\ stack'[i].names = stack[i].names
    BY <2>1
  <2> QED
    BY <2>1, <2>2 DEF Asks, Named
<1>3. At("body")' = At("body") /\ At("handler")' \subseteq At("handler")
  BY DEF At
<1> QED
  BY <1>1, <1>2, <1>3 DEF HInv

(* The module is entered for one name or for none.                           *)
LEMMA EnteredKeepsH ==
    ASSUME IInv, HInv, NEW names \in Seq(Param), Len(names) \in {0, 1},
           NEW f \in FrameType, Entered(names, f),
           param' = param \/ param' = Mark(Named(names))
    PROVE  HInv'
<1> DEFINE n == Len(stack)
<1>1. /\ n \in Nat /\ DOMAIN stack = 1..n /\ DOMAIN stack' = 1..(n + 1)
      /\ \A i \in 1..n : stack'[i] = stack[i]
      /\ stack'[n + 1] = f
  BY LenProperties, AppendProperties DEF IInv, TypeOK, Entered
<1> HIDE DEF n
<1>2. \A i \in DOMAIN stack' : Len(stack'[i].names) \in {0, 1}
  BY <1>1 DEF HInv, Entered
<1>3. NothingStaysBusy'
  <2> SUFFICES ASSUME NEW p \in Param, param'[p] = "busy"
               PROVE  \E i \in DOMAIN stack' : Asks(i, p)'
    BY DEF NothingStaysBusy
  <2>1. CASE param[p] = "busy"
    <3>1. PICK i \in 1..n : Asks(i, p)
      BY <1>1, <2>1 DEF HInv, NothingStaysBusy
    <3>2. i \in DOMAIN stack' /\ stack'[i] = stack[i]
      BY <1>1, <3>1
    <3> QED
      BY <3>1, <3>2 DEF Asks
  <2>2. CASE param[p] # "busy"
    <3>1. p \in Named(names)
      BY <2>2, MarksAre DEF IInv, TypeOK
    <3>2. n + 1 \in DOMAIN stack'
      BY <1>1
    <3> QED
      BY <1>1, <3>1, <3>2 DEF Asks, Entered
  <2> QED
    BY <2>1, <2>2
<1>4. \A kind : At(kind)' = IF f.kind = kind THEN At(kind) \cup {n + 1} ELSE At(kind)
  BY <1>1 DEF At
<1>5. CASE f.kind = "body" /\ module = "new" /\ module' = "busy"
  <2>1. At("body") = {} /\ At("handler") = {}
    BY <1>5 DEF HInv
  <2>2. At("body")' = {n + 1} /\ At("handler")' = {}
    BY <1>4, <1>5, <2>1
  <2> QED
    BY <1>2, <1>3, <1>5, <2>2 DEF HInv
<1>6. CASE f.kind = "handler" /\ module = "ready" /\ module' = "ready"
  <2>1. At("body") = {}
    BY <1>6 DEF HInv
  <2>2. At("body")' = {}
    BY <1>4, <1>6, <2>1
  <2> QED
    BY <1>2, <1>3, <1>6, <2>2 DEF HInv
<1> QED
  BY <1>5, <1>6 DEF Entered

(* A frame that is no request comes, goes or counts.                         *)
LEMMA FramesKeepH ==
    ASSUME IInv, HInv,
           \/ Enter \/ Call \/ LeaveFrame
           \/ \E policy \in {"inherit", "withoutSafe", "extensionSafe", "extensionUnsafe"} :
                 Event(policy)
           \/ \E m \in {"safe", "off", "priv"}, on \in BOOLEAN : SetMode(m, on)
    PROVE  HInv'
<1> DEFINE n == Len(stack)
<1>1. /\ stack \in Seq(FrameType) /\ n \in Nat /\ DOMAIN stack = 1..n
      /\ stack = <<>> <=> n = 0
  BY LenProperties, EmptySeq DEF IInv, TypeOK
<1>2. ASSUME NEW f, stack' = Append(stack, f), UNCHANGED <<param, module>>,
             f.kind \in {"entry", "call", "event"}, Len(f.names) = 0
      PROVE  HInv'
  <2> DEFINE S == FrameType \cup {f}
  <2>1. stack \in Seq(S) /\ f \in S
    BY <1>1, SeqMonotonic
  <2>2. /\ DOMAIN stack' = 1..(n + 1)
        /\ \A i \in 1..n : stack'[i] = stack[i]
        /\ stack'[n + 1] = f
    <3> HIDE DEF S
    <3> QED
      BY <1>1, <1>2, <2>1, AppendProperties, LenProperties
  <2> HIDE DEF n, S
  <2>3. \A i \in DOMAIN stack : i \in DOMAIN stack' /\ stack'[i] = stack[i]
    BY <1>1, <2>2
  <2>4. \A i \in DOMAIN stack' : i \in DOMAIN stack \/ stack'[i] = f
    BY <1>1, <2>2
  <2> QED
    BY <1>2, <2>3, <2>4, QuietStack
<1>3. CASE Enter \/ Call
  <2>1. \E kind \in {"entry", "call"} : /\ stack' = Append(stack, Frame(kind, <<>>, NoModes))
                                        /\ UNCHANGED <<param, module>>
    BY <1>3 DEF Enter, Call, Push
  <2>2. PICK kind \in {"entry", "call"} :
               /\ stack' = Append(stack, Frame(kind, <<>>, NoModes))
               /\ UNCHANGED <<param, module>>
    BY <2>1
  <2>3. /\ Frame(kind, <<>>, NoModes).kind = kind
        /\ Frame(kind, <<>>, NoModes).names = <<>>
    BY DEF Frame
  <2>4. Len(Frame(kind, <<>>, NoModes).names) = 0
    BY <2>3
  <2> DEFINE f == Frame(kind, <<>>, NoModes)
  <2>5. f.kind \in {"entry", "call", "event"} /\ Len(f.names) = 0 /\ stack' = Append(stack, f)
    BY <2>2, <2>3, <2>4
  <2> HIDE DEF f
  <2> QED
    BY <1>2, <2>2, <2>5
<1>4. ASSUME NEW policy, Event(policy)
      PROVE  HInv'
  <2> DEFINE none == <<>>
             f == Frame("event", none, Snapshot)
  <2>1. /\ f.kind = "event" /\ f.names = none /\ UNCHANGED <<param, module>>
        /\ DOMAIN f = {"kind", "names", "inh", "safe", "off", "priv", "latch", "was",
                       "must", "lift"}
    BY <1>4 DEF Event, Frame
  <2>2. Len(none) = 0
    BY EmptySeq
  <2>3. \/ stack' = Append(stack, f)
        \/ stack' = Append(stack, [f EXCEPT !.inh.off = TRUE, !.lift = TRUE])
        \/ stack' = Append(stack, [f EXCEPT !.inh.safe = TRUE, !.inh.off = FALSE,
                                            !.must = TRUE])
        \/ stack' = Append(stack, [f EXCEPT !.inh.off = TRUE, !.lift = TRUE,
                                            !.off = 1, !.latch = TRUE])
    BY <1>4 DEF Event, Push
  <2> HIDE DEF f, none
  <2>4. PICK g : /\ stack' = Append(stack, g)
                 /\ \/ g = f
                    \/ g = [f EXCEPT !.inh.off = TRUE, !.lift = TRUE]
                    \/ g = [f EXCEPT !.inh.safe = TRUE, !.inh.off = FALSE, !.must = TRUE]
                    \/ g = [f EXCEPT !.inh.off = TRUE, !.lift = TRUE, !.off = 1,
                                     !.latch = TRUE]
    BY <2>3
  <2>5. g.kind = "event" /\ g.names = none
    BY <2>1, <2>4
  <2> QED
    BY <1>2, <2>1, <2>2, <2>4, <2>5
<1>5. CASE LeaveFrame
  <2>1. /\ stack # <<>> /\ stack' = Caller /\ UNCHANGED <<param, module>>
        /\ stack[n].kind \in {"entry", "call", "event"}
    BY <1>5 DEF LeaveFrame, Top
  <2>2. DOMAIN stack' = 1..(n - 1) /\ \A i \in 1..(n - 1) : stack'[i] = stack[i]
    BY <1>1, <2>1, CallerIs, LenProperties
  <2> HIDE DEF n
  <2>3. \A i \in DOMAIN stack :
           \/ i \in DOMAIN stack' /\ stack'[i] = stack[i]
           \/ i \notin DOMAIN stack' /\ i = n
    BY <1>1, <2>2
  <2>4. \A i \in DOMAIN stack' : i \in DOMAIN stack
    BY <1>1, <2>2
  <2> QED
    BY <2>1, <2>3, <2>4, QuietStack DEF Asks
<1>6. ASSUME NEW m \in {"safe", "off", "priv"}, NEW on \in BOOLEAN, SetMode(m, on)
      PROVE  HInv'
  <2>1. /\ DOMAIN stack' = DOMAIN stack /\ UNCHANGED <<param, module>>
        /\ \A i \in DOMAIN stack : /\ stack'[i].kind = stack[i].kind
                                   /\ stack'[i].names = stack[i].names
    <3>1. UNCHANGED <<param, module>>
      BY <1>6, SetModeIs
    <3>2. CASE stack' = stack
      BY <3>1, <3>2
    <3>3. ASSUME NEW g \in FrameType, stack' = [stack EXCEPT ![n] = g],
                 g.kind = Top.kind, g.names = Top.names
          PROVE  /\ DOMAIN stack' = DOMAIN stack
                 /\ \A i \in DOMAIN stack : /\ stack'[i].kind = stack[i].kind
                                            /\ stack'[i].names = stack[i].names
      BY <3>3 DEF Top
    <3> QED
      BY <1>6, <3>1, <3>2, <3>3, SetModeIs
  <2> QED
    BY <2>1, QuietStack
<1> QED
  BY <1>3, <1>4, <1>5, <1>6

(* The session is opened, or a parameter that is not set is asked for.       *)
LEMMA RequestKeepsH ==
    ASSUME OneByOne, IInv, HInv, Open \/ \E names \in Requests : Request(names)
    PROVE  HInv'
<1>1. ASSUME NEW names \in Seq(Param), NEW inh \in Inh, Len(names) \in {0, 1},
             Safe => inh.safe /\ ~inh.off, stack = <<>> => names = <<>>,
             EnterModule(names, inh), param' = param \/ param' = Mark(Named(names))
      PROVE  HInv'
  <2>1. PICK f \in FrameType : Entered(names, f)
    BY <1>1, EnterModuleIs
  <2> QED
    BY <1>1, <2>1, EnteredKeepsH
<1>2. CASE Open
  <2> DEFINE none == <<>>
  <2>1. none \in Seq(Param) /\ Len(none) = 0 /\ EnterModule(none, NoModes) /\ param' = param
    BY <1>2, EmptySeq DEF Open
  <2>2. NoModes \in Inh /\ ~Safe /\ (stack = <<>> => none = <<>>)
    BY <1>2 DEF NoModes, Inh, Open, IInv, Safe
  <2> HIDE DEF none
  <2> QED
    BY <1>1, <2>1, <2>2
<1>3. ASSUME NEW names \in Requests, Request(names)
      PROVE  HInv'
  <2>1. /\ names \in Seq(Param) /\ Len(names) = 1 /\ DOMAIN names = {1}
        /\ stack # <<>>
    <3>1. names \in Seq(Param) /\ Len(names) = 1
      BY SessionAssumption DEF OneByOne
    <3> QED
      BY <1>3, <3>1, LenProperties DEF Request, Runs
  <2>2. CASE /\ Busy(names) # {}
             /\ param' = Mark({names[i] : i \in 1..(FirstBusy(names) - 1)})
             /\ UNCHANGED <<module, stack>>
    <3>1. FirstBusy(names) = 1
      BY <2>1, <2>2 DEF FirstBusy, Busy
    <3>2. {names[i] : i \in 1..(FirstBusy(names) - 1)} = {}
      BY <3>1
    <3>3. \A p \in Param : param'[p] = "busy" => param[p] = "busy"
      BY <2>2, <3>2 DEF Mark
    <3> QED
      BY <2>2, <3>3, QuietStack
  <2>3. CASE param' = Mark(Named(names)) /\ EnterModule(names, Snapshot)
    BY <1>1, <2>1, <2>3, SnapshotIs
  <2>4. CASE module \in {"busy", "failed"} /\ module' = "failed" /\ UNCHANGED <<param, stack>>
    BY <2>4 DEF HInv, NothingStaysBusy, Asks, At
  <2> QED
    BY <1>3, <2>2, <2>3, <2>4 DEF Request
<1> QED
  BY <1>2, <1>3

(* The only body gives way to the handler it was run for.                    *)
LEMMA BodyReturnsKeepsH ==
    ASSUME IInv, HInv, BodyReturns
    PROVE  HInv'
<1> DEFINE n == Len(stack)
           g == [Frame("handler", Top.names, HandlerModes(Top.inh))
                   EXCEPT !.was = Top.was, !.must = Top.must]
<1>1. /\ stack # <<>> /\ stack[n].kind = "body" /\ module' = "ready" /\ param' = param
      /\ stack' = Append(Caller, g)
  BY DEF BodyReturns, Runs, Top
<1>2. g.kind = "handler" /\ g.names = stack[n].names
  BY DEF Frame, Top
<1> HIDE DEF g
<1>3. /\ stack \in Seq(FrameType) /\ n \in Nat \ {0} /\ DOMAIN stack = 1..n
      /\ Caller \in Seq(FrameType) /\ Len(Caller) = n - 1
      /\ \A i \in 1..(n - 1) : Caller[i] = stack[i]
  BY <1>1, CallerIs, LenProperties DEF IInv, TypeOK
<1>4. /\ DOMAIN stack' = 1..n
      /\ \A i \in 1..(n - 1) : stack'[i] = stack[i]
      /\ stack'[n] = g
  <2> DEFINE S == FrameType \cup {g}
  <2>1. Caller \in Seq(S) /\ g \in S
    BY <1>3, SeqMonotonic
  <2> HIDE DEF S, n
  <2>2. /\ DOMAIN stack' = 1..(n - 1 + 1)
        /\ \A i \in 1..(n - 1) : stack'[i] = Caller[i]
        /\ stack'[n - 1 + 1] = g
    BY <1>1, <1>3, <2>1, AppendProperties, LenProperties
  <2> QED
    BY <1>3, <2>2
<1> HIDE DEF n
<1>5. \A i \in DOMAIN stack : stack'[i].names = stack[i].names
  BY <1>2, <1>3, <1>4
<1>6. NothingStaysBusy'
  <2> SUFFICES ASSUME NEW p \in Param, param'[p] = "busy"
               PROVE  \E i \in DOMAIN stack' : Asks(i, p)'
    BY DEF NothingStaysBusy
  <2>1. PICK i \in DOMAIN stack : Asks(i, p)
    BY <1>1 DEF HInv, NothingStaysBusy
  <2>2. /\ i \in DOMAIN stack' /\ stack'[i].names = stack[i].names
        /\ stack'[i].kind \in {"body", "handler"}
    BY <1>2, <1>3, <1>4, <1>5, <2>1 DEF Asks
  <2> QED
    BY <2>1, <2>2 DEF Asks, Named
<1>7. At("body") = {n}
  BY <1>1, <1>3 DEF HInv, At
<1>8. At("body")' = {}
  BY <1>2, <1>3, <1>4, <1>7 DEF At
<1>9. \A i \in DOMAIN stack' : Len(stack'[i].names) \in {0, 1}
  BY <1>3, <1>4, <1>5 DEF HInv
<1> QED
  BY <1>1, <1>6, <1>8, <1>9 DEF HInv

(* A request that ends takes its name out of initialisation.                 *)
LEMMA RequestEndsKeepsH ==
    ASSUME IInv, HInv, HandlerReturns \/ RequestFails
    PROVE  HInv'
<1> DEFINE n == Len(stack)
           names == Top.names
<1>1. stack # <<>> /\ stack' = Caller /\ Top.kind \in {"body", "handler"}
  BY DEF HandlerReturns, RequestFails, Runs, IInv, TypeOK
<1>2. /\ n \in Nat \ {0} /\ DOMAIN stack = 1..n /\ Top = stack[n]
      /\ DOMAIN stack' = 1..(n - 1)
      /\ \A i \in 1..(n - 1) : stack'[i] = stack[i]
      /\ names \in Seq(Param)
  BY <1>1, CallerIs, LenProperties DEF IInv, TypeOK, Top, FrameType
<1>3. Len(names) \in {0, 1} /\ DOMAIN names = 1..Len(names)
  BY <1>2, LenProperties DEF HInv
<1> HIDE DEF n, names
<1>4. \A p \in Param : /\ param'[p] = "busy" => param[p] = "busy"
                       /\ p \in Named(names) => param'[p] # "busy"
  <2>1. CASE RequestFails
    BY <2>1, MarksAre DEF RequestFails, IInv, TypeOK, names
  <2>2. CASE HandlerReturns
    <3>1. param' = IF Busy(names) = {} THEN param ELSE Unmark({names[FirstBusy(names)]})
      BY <2>2 DEF HandlerReturns, names
    <3>2. CASE Busy(names) = {}
      BY <3>1, <3>2 DEF Busy, Named
    <3>3. CASE Busy(names) # {}
      <4>1. DOMAIN names = {1}
        BY <1>3, <3>3 DEF Busy
      <4>2. FirstBusy(names) = 1
        BY <3>3, <4>1 DEF FirstBusy, Busy
      <4>3. Named(names) = {names[FirstBusy(names)]}
        BY <4>1, <4>2 DEF Named
      <4> QED
        BY <3>1, <3>3, <4>3, MarksAre DEF IInv, TypeOK
    <3> QED
      BY <3>2, <3>3
  <2> QED
    BY <2>1, <2>2
<1>5. \A i \in DOMAIN stack :
         \/ i \in DOMAIN stack' /\ stack'[i] = stack[i]
         \/ i \notin DOMAIN stack' /\ i = n
  BY <1>2
<1>6. \A i \in DOMAIN stack' : i \in DOMAIN stack
  BY <1>2
<1>7. \A p \in Param : Asks(n, p) => param'[p] # "busy"
  BY <1>2, <1>4 DEF Asks, names
<1>8. CASE Top.kind = "handler"
  <2>1. module' = module
    BY <1>8 DEF HandlerReturns, RequestFails
  <2> QED
    BY <1>2, <1>4, <1>5, <1>6, <1>7, <1>8, <2>1, QuietStack
<1>9. CASE Top.kind = "body"
  <2>1. At("body") = {n} /\ module \in {"busy", "failed"} /\ At("handler") = {}
    <3>1. n \in At("body")
      BY <1>2, <1>9 DEF At
    <3> QED
      BY <3>1 DEF HInv
  <2>2. module' = "failed"
    BY <1>9, <2>1 DEF HandlerReturns, RequestFails
  <2>3. At("body")' = {} /\ At("handler")' = {}
    BY <1>2, <2>1 DEF At
  <2>4. NothingStaysBusy'
    <3> SUFFICES ASSUME NEW p \in Param, param'[p] = "busy"
                 PROVE  \E i \in DOMAIN stack' : Asks(i, p)'
      BY DEF NothingStaysBusy
    <3>1. PICK i \in DOMAIN stack : Asks(i, p)
      BY <1>4 DEF HInv, NothingStaysBusy
    <3>2. i \in DOMAIN stack' /\ stack'[i] = stack[i]
      BY <1>5, <1>7, <3>1
    <3> QED
      BY <3>1, <3>2 DEF Asks
  <2>5. \A i \in DOMAIN stack' : Len(stack'[i].names) \in {0, 1}
    BY <1>2 DEF HInv
  <2> QED
    BY <2>2, <2>3, <2>4, <2>5 DEF HInv
<1> QED
  BY <1>1, <1>8, <1>9

(* Errors and values leave the stack alone.                                  *)
LEMMA ValuesKeepH ==
    ASSUME IInv, HInv, Raise \/ Catch \/ Clear \/ (\E p \in Param : Set(p)) \/ UNCHANGED vars
    PROVE  HInv'
<1>1. UNCHANGED <<stack, module>>
  BY DEF Raise, Catch, Clear, Set, vars
<1>2. \A p \in Param : param'[p] = "busy" => param[p] = "busy"
  BY DEF Raise, Catch, Clear, Set, vars, IInv, TypeOK
<1> QED
  BY <1>1, <1>2, QuietStack

(* And the invariant about preparation, when names are asked one by one.     *)
LEMMA NextHInv ==
    ASSUME OneByOne, IInv, HInv, [Next]_vars
    PROVE  HInv'
BY FramesKeepH, RequestKeepsH, BodyReturnsKeepsH, RequestEndsKeepsH, ValuesKeepH DEF Next

(* Whatever fails in between, a parameter is in initialisation only while a  *)
(* call for it is on the stack, the body of the module runs alone, and its   *)
(* handler only after it: for sessions whose parameters are asked for one by *)
(* one, as every caller in the repository does.                              *)
THEOREM PreparationIsBalanced ==
    ASSUME OneByOne
    PROVE  Spec => []NothingIsLeftHalfDone
<1>1. Init => HInv
  BY EmptySeq DEF Init, HInv, NothingStaysBusy, At
<1>2. IInv /\ HInv /\ [Next]_vars => HInv'
  BY NextHInv
<1>3. IInv /\ HInv => NothingIsLeftHalfDone
  BY DEF IInv, HInv, NothingIsLeftHalfDone, HandlerNeedsBody, At
<1> QED
  BY <1>1, <1>2, <1>3, Inductive, PTL DEF Spec

============================================================================
