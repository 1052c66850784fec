------------------------ MODULE DebugAdapterProofs ------------------------
(* Proofs about DebugAdapter for every script and every editor: no request   *)
(* is lost, each frame shows the line of its call, a run stops once per pass *)
(* of a breakpoint, and the lines confirmed to the editor are those          *)
(* compared.                                                                 *)
EXTENDS DebugAdapter, CollectionTheorems

-----------------------------------------------------------------------------
(* The inductive invariant.                                                  *)

Frame == [routine : DOMAIN Code, pc : Nat, at : Nat]

(* Every frame is at an instruction of its routine, and the pc of a caller   *)
(* is past the call it is in, unless the frame above is the body of a module *)
(* that its instruction waits for.                                           *)
Calls ==
    /\ stack \in Seq(Frame) /\ stack # <<>>
    /\ \A i \in 1..Len(stack) : stack[i].pc \in DOMAIN Text(i)
    /\ stack[Top].pc = stack[Top].at
    /\ \A i \in 1..Len(stack) - 1 :
          stack[i].pc = IF Code[stack[i + 1].routine].body THEN stack[i].at
                                                           ELSE stack[i].at + 1
    /\ \A i \in 1..Len(stack) :
          Empty(stack[i].routine) => i = Len(stack) /\ stack[i].pc = 1

(* On top is a routine without instructions, and the hook has seen what made *)
(* the frame below enter it, and nothing since.                              *)
InEmpty ==
    /\ Top > 1 /\ Empty(stack[Top].routine)
    /\ last = [line |-> LineOf(Top - 1), depth |-> Top - 1, pc |-> stack[Top - 1].at]
    /\ last.line # 0
    /\ IF Code[stack[Top].routine].body THEN ~stood
       ELSE mode.kind = "run" /\ last.line \in points => stood

(* What the last call of the hook remembers, and what the run has stood at,  *)
(* say the same about whether control has come to this line anew.            *)
Passes ==
    /\ phase \in {"setup", "hook", "exec", "stopped", "over"}
    /\ last \in [line : Nat, depth : Nat, pc : Nat]
    /\ stood \in BOOLEAN
    /\ phase = "setup" => Top = 1 /\ last = NoPosition /\ ~stood
    /\ phase = "stopped" => HasLine /\ last = Position /\ stood
    /\ phase = "exec" /\ HasLine =>
          /\ last = Position
          /\ mode.kind = "run" /\ LineOf(Top) \in points => stood
    /\ phase = "hook" /\ HasLine =>
          /\ stood => ~ReEntered
          /\ mode.kind = "run" /\ LineOf(Top) \in points /\ ~ReEntered => stood
    /\ phase \in {"hook", "exec"} /\ ~HasLine =>
          InEmpty \/ (~stood /\ (Top = 1 \/ last.depth >= Top))

(* The breakpoints compared are those confirmed.                             *)
Lines ==
    /\ points \subseteq Executable
    /\ shown = {ToClient(l) : l \in points}
    /\ base \in {0, 1}

PInv == Calls /\ Passes

-----------------------------------------------------------------------------
(* The stack.                                                                *)

(* What the assumption says of an instruction.                               *)
LEMMA CodeIsWellFormed ==
    ASSUME NEW r \in DOMAIN Code, NEW i \in DOMAIN Code[r].text
    PROVE  /\ i \in Nat /\ 1 \in DOMAIN Code[r].text
           /\ Code[r].body \in BOOLEAN
           /\ WellFormed(Code[r].text, i)
BY DebugAssumption

(* The frame on top is at an instruction, and shows its line.                *)
LEMMA TopIsAtCode ==
    ASSUME Calls
    PROVE  /\ Top \in Nat \ {0} /\ stack[Top] \in Frame
           /\ stack[Top].pc \in DOMAIN Text(Top)
           /\ Code[stack[Top].routine].body \in BOOLEAN
           /\ 1 \in DOMAIN Text(Top)
           /\ WellFormed(Text(Top), stack[Top].pc)
           /\ LineOf(Top) = Here.line /\ LineOf(Top) \in Nat
           /\ HasLine => ~Empty(stack[Top].routine)
<1>1. Top \in Nat \ {0} /\ stack[Top] \in Frame
  BY EmptySeq DEF Calls, Top
<1>2. stack[Top].pc \in DOMAIN Text(Top) /\ stack[Top].routine \in DOMAIN Code
  BY <1>1 DEF Calls, Top, Frame
<1>3. /\ Code[stack[Top].routine].body \in BOOLEAN
      /\ 1 \in DOMAIN Text(Top)
      /\ WellFormed(Text(Top), stack[Top].pc)
  BY <1>2, CodeIsWellFormed DEF Text
<1>4. LineOf(Top) = Here.line /\ LineOf(Top) \in Nat
  BY <1>3 DEF LineOf, Here, WellFormed
<1>5. HasLine => ~Empty(stack[Top].routine)
  BY <1>1, <1>4 DEF Calls, Top, HasLine, Empty, Here, Text
<1> QED
  BY <1>1, <1>2, <1>3, <1>4, <1>5

(* The line of a caller is that of the instruction it is at.                 *)
LEMMA CallerShowsItsCall ==
    ASSUME Calls, NEW i \in 1..Len(stack)
    PROVE  LineOf(i) = Text(i)[stack[i].at].line
<1>1. stack[i] \in Frame /\ Top \in Nat \ {0}
  BY TopIsAtCode DEF Calls, Top
<1>2. CASE i = Top
  BY <1>2 DEF LineOf, Calls
<1>3. CASE i # Top
  <2>1. i \in 1..Len(stack) - 1 /\ i < Top
    BY <1>1, <1>3 DEF Top
  <2>2. stack[i].pc = IF Initializing(i) THEN stack[i].at ELSE stack[i].at + 1
    BY <2>1 DEF Calls, Initializing
  <2>3. stack[i].at \in Nat /\ stack[i].at + 1 - 1 = stack[i].at
    BY <1>1 DEF Frame
  <2> QED
    BY <1>3, <2>2, <2>3 DEF LineOf
<1> QED
  BY <1>2, <1>3

-----------------------------------------------------------------------------
(* The run.                                                                  *)

(* An instruction within its frame: going forward on the line keeps what the *)
(* run has stood at.                                                         *)
LEMMA AdvanceKeeps ==
    ASSUME PInv, phase = "exec", Advance, UNCHANGED hookVars
    PROVE  PInv'
<1> USE DEF hookVars
<1>1. PICK pc \in {stack[Top].pc + 1} \cup (IF Here.op = "jump" THEN {Here.to} ELSE {}) :
         /\ stack' = [stack EXCEPT ![Top] = [@ EXCEPT !.pc = pc, !.at = pc]]
         /\ stood' = (stood /\ pc > stack[Top].pc /\ Text(Top)[pc].line = Here.line)
  BY DEF Advance
<1>2. Top \in Nat \ {0} /\ stack[Top] \in Frame /\ stack \in Seq(Frame)
  BY TopIsAtCode DEF PInv, Calls
<1>3. pc \in DOMAIN Text(Top) /\ pc \in Nat /\ Here.op # "return" /\ Here.line # 0
  <2>1. WellFormed(Text(Top), stack[Top].pc) /\ Here.op # "return"
    BY TopIsAtCode DEF PInv, Advance
  <2>2. pc \in DOMAIN Text(Top) /\ Here.line # 0
    BY <2>1 DEF WellFormed, Here
  <2>3. stack[Top].routine \in DOMAIN Code
    BY <1>2 DEF Frame
  <2> QED
    BY <2>1, <2>2, <2>3, CodeIsWellFormed DEF Text
<1>4. /\ stack' \in Seq(Frame) /\ Len(stack') = Len(stack)
      /\ stack'[Top] = [stack[Top] EXCEPT !.pc = pc, !.at = pc]
      /\ stack'[Top].pc = pc /\ stack'[Top].at = pc
      /\ stack'[Top].routine = stack[Top].routine
      /\ \A i \in 1..Len(stack) : i # Top => stack'[i] = stack[i]
  <2> DEFINE moved == [stack[Top] EXCEPT !.pc = pc, !.at = pc]
  <2>1. /\ moved \in Frame /\ moved.pc = pc /\ moved.at = pc
        /\ moved.routine = stack[Top].routine
    BY <1>2, <1>3 DEF Frame
  <2>2. stack' = [stack EXCEPT ![Top] = moved]
    BY <1>1
  <2> HIDE DEF moved
  <2>3. /\ stack' \in Seq(Frame) /\ Len(stack') = Len(stack) /\ stack'[Top] = moved
        /\ \A i \in 1..Len(stack) : i # Top => stack'[i] = stack[i]
    BY <1>2, <2>1, <2>2 DEF Top
  <2> QED
    BY <2>1, <2>3 DEF moved
<1>5. Top' = Top /\ stack' # <<>>
  BY <1>2, <1>4, EmptySeq DEF Top
<1>6. \A i \in 1..Len(stack) : stack'[i].routine = stack[i].routine
  BY <1>4
<1>7. Calls'
  <2>1. \A i \in 1..Len(stack') : stack'[i].pc \in DOMAIN Text(i)'
    BY <1>3, <1>4, <1>6, ZenonT(30) DEF PInv, Calls, Text
  <2>2. \A i \in 1..Len(stack') - 1 :
           stack'[i].pc = IF Code[stack'[i + 1].routine].body THEN stack'[i].at
                                                              ELSE stack'[i].at + 1
    <3> SUFFICES ASSUME NEW i \in 1..Len(stack) - 1
                 PROVE  stack'[i].pc = IF Code[stack'[i + 1].routine].body
                                       THEN stack'[i].at ELSE stack'[i].at + 1
      BY <1>4
    <3>1. i \in 1..Len(stack) /\ i + 1 \in 1..Len(stack) /\ i # Top
      BY <1>2 DEF Top
    <3>2. stack'[i] = stack[i] /\ stack'[i + 1].routine = stack[i + 1].routine
      BY <1>4, <1>6, <3>1
    <3> QED
      BY <3>2 DEF PInv, Calls
  <2>3. ~Empty(stack[Top].routine)
    BY <1>3, TopIsAtCode DEF PInv, HasLine
  <2>4. \A i \in 1..Len(stack') :
           Empty(stack'[i].routine) => i = Len(stack') /\ stack'[i].pc = 1
    BY <1>4, <1>6, <2>3 DEF PInv, Calls
  <2> QED
    BY <1>4, <1>5, <2>1, <2>2, <2>4 DEF Calls, Empty
<1>8. /\ LineOf(Top) = Here.line /\ LineOf(Top)' = Text(Top)[pc].line
      /\ Position'.pc = pc /\ LineOf(Top) \in Nat
  <2>1. LineOf(Top) = Here.line /\ LineOf(Top) \in Nat
    BY TopIsAtCode DEF PInv
  <2>2. LineOf(Top)' = Text(Top)[pc].line
    BY <1>4, <1>5 DEF LineOf, Text
  <2> QED
    BY <1>4, <1>5, <2>1, <2>2 DEF Position
<1>9. last = Position /\ (mode.kind = "run" /\ LineOf(Top) \in points => stood)
  BY <1>3, <1>8 DEF PInv, Passes, HasLine
<1>10. /\ last' = last /\ mode' = mode /\ points' = points
       /\ last.line = LineOf(Top) /\ last.depth = Top /\ last.pc = stack[Top].pc
       /\ last # NoPosition
  BY <1>2, <1>9 DEF Position, NoPosition
<1>11. ReEntered' <=> LineOf(Top)' # LineOf(Top) \/ pc <= stack[Top].pc
  BY <1>2, <1>4, <1>5, <1>10 DEF ReEntered, Changed
<1>12. stack[Top].pc \in Nat /\ stood \in BOOLEAN
  BY <1>2 DEF Frame, PInv, Passes
<1>13. stood' <=> stood /\ ~ReEntered'
  <2>1. pc > stack[Top].pc <=> ~(pc <= stack[Top].pc)
    BY <1>3, <1>12
  <2> QED
    BY <1>1, <1>8, <1>11, <1>12, <2>1, Zenon
<1>14. stood' => ~ReEntered'
  BY <1>13
<1>15. mode'.kind = "run" /\ LineOf(Top)' \in points' /\ ~ReEntered' => stood'
  BY <1>9, <1>10, <1>11, <1>13
<1>16. ~HasLine' => ~stood' /\ last.depth >= Top
  <2>1. ~HasLine' => LineOf(Top)' # Here.line
    BY <1>3 DEF HasLine
  <2>2. last.depth >= Top
    BY <1>2, <1>10
  <2> QED
    BY <1>1, <1>8, <1>12, <2>1, <2>2, Zenon
<1>17. phase' = "hook" /\ stood' \in BOOLEAN /\ last' \in [line : Nat, depth : Nat, pc : Nat]
  BY <1>1, <1>10 DEF Advance, PInv, Passes
<1>18. Passes'
  BY <1>5, <1>10, <1>14, <1>15, <1>16, <1>17 DEF Passes
<1> QED
  BY <1>7, <1>18 DEF PInv

(* A call, or the body of a module that the instruction needs: control comes *)
(* to another frame, unless it is one without instructions.                  *)
LEMMA EnterKeeps ==
    ASSUME PInv, phase = "exec", Enter, UNCHANGED hookVars
    PROVE  PInv'
<1> USE DEF hookVars
<1>1. Top \in Nat \ {0} /\ stack[Top] \in Frame /\ stack \in Seq(Frame) /\ Len(stack) = Top
  BY TopIsAtCode DEF PInv, Calls, Top
<1>2. /\ WellFormed(Text(Top), stack[Top].pc) /\ Here.op \in {"call", "touch"}
      /\ LineOf(Top) = Here.line /\ LineOf(Top) \in Nat
  BY TopIsAtCode DEF PInv, Enter
<1>3. /\ Here.line # 0
      /\ Here.op = "call" => stack[Top].pc + 1 \in DOMAIN Text(Top)
      /\ Here.to \in DOMAIN Code
      /\ Code[Here.to].body <=> Here.op = "touch"
  <2>1. WellFormed(Text(Top), stack[Top].pc) /\ Here.op \in {"call", "touch"}
    BY <1>2
  <2>2. Here.line # 0 /\ stack[Top].pc + 1 \in DOMAIN Text(Top)
    BY <2>1 DEF WellFormed, Here
  <2>3. Here.to \in DOMAIN Code
    BY <2>1, SMT DEF WellFormed, Here
  <2>4. Code[Here.to].body <=> Here.op = "touch"
    BY <2>1, SMT DEF WellFormed, Here
  <2> QED
    BY <2>2, <2>3, <2>4
<1>4. 1 \in DOMAIN Code[Here.to].text /\ Code[Here.to].body \in BOOLEAN
  BY <1>3, DebugAssumption
<1>5. /\ last = Position /\ (mode.kind = "run" /\ LineOf(Top) \in points => stood)
      /\ last.line = LineOf(Top) /\ last.depth = Top /\ last.pc = stack[Top].pc
      /\ last \in [line : Nat, depth : Nat, pc : Nat] /\ stood \in BOOLEAN
  BY <1>2, <1>3 DEF PInv, Passes, HasLine, Position
<1>6. last' = last /\ mode' = mode /\ points' = points
  OBVIOUS
<1>7. stood' = (stood /\ Here.op = "call" /\ Empty(Here.to)) /\ stood' \in BOOLEAN
  BY <1>5 DEF Enter
<1>8. CASE Top = MaxDepth
  <2>1. phase' = "over" /\ stack' = stack
    BY <1>8 DEF Enter
  <2>2. Calls'
    BY <2>1 DEF PInv, Calls, Text, Top, Empty
  <2>3. Passes'
    BY <1>5, <1>6, <1>7, <2>1 DEF Passes
  <2> QED
    BY <2>2, <2>3 DEF PInv
<1>9. CASE Top # MaxDepth
  <2> DEFINE pc == IF Here.op = "call" THEN stack[Top].pc + 1 ELSE stack[Top].pc
             left == [stack[Top] EXCEPT !.pc = pc]
             new == [routine |-> Here.to, pc |-> 1, at |-> 1]
  <2>1. phase' = "hook" /\ stack' = Append([stack EXCEPT ![Top] = left], new)
    BY <1>9 DEF Enter
  <2>2. /\ left \in Frame /\ left.pc = pc /\ left.at = stack[Top].at
        /\ left.routine = stack[Top].routine
        /\ new \in Frame /\ new.pc = 1 /\ new.at = 1 /\ new.routine = Here.to
    BY <1>1, <1>3 DEF Frame
  <2>3. pc \in DOMAIN Text(Top)
    BY <1>3, TopIsAtCode DEF PInv
  <2> HIDE DEF left, new, pc
  <2>4. /\ stack' \in Seq(Frame) /\ Len(stack') = Top + 1
        /\ stack'[Top + 1] = new /\ stack'[Top] = left
        /\ \A i \in 1..Top - 1 : stack'[i] = stack[i]
    BY <1>1, <2>1, <2>2
  <2>5. Top' = Top + 1 /\ stack' # <<>>
    BY <1>1, <2>4, EmptySeq DEF Top
  <2>6. \A i \in 1..Top : stack'[i].routine = stack[i].routine /\ stack'[i].at = stack[i].at
    BY <1>1, <2>2, <2>4
  <2>7. Text(Top)' = Code[Here.to].text
    BY <2>2, <2>4, <2>5 DEF Text
  <2>8. Calls'
    <3>1. \A i \in 1..Len(stack') : stack'[i].pc \in DOMAIN Code[stack'[i].routine].text
      <4> SUFFICES ASSUME NEW i \in 1..Top + 1
                   PROVE  stack'[i].pc \in DOMAIN Code[stack'[i].routine].text
        BY <2>4
      <4>1. CASE i = Top + 1
        BY <1>4, <2>2, <2>4, <4>1
      <4>2. CASE i = Top
        BY <2>2, <2>3, <2>4, <4>2 DEF Text
      <4>3. CASE i \in 1..Top - 1
        BY <1>1, <2>4, <4>3 DEF PInv, Calls, Text
      <4> QED
        BY <1>1, <4>1, <4>2, <4>3
    <3>2. \A i \in 1..Len(stack') - 1 :
             stack'[i].pc = IF Code[stack'[i + 1].routine].body THEN stack'[i].at
                                                                ELSE stack'[i].at + 1
      <4> SUFFICES ASSUME NEW i \in 1..Top
                   PROVE  stack'[i].pc = IF Code[stack'[i + 1].routine].body
                                         THEN stack'[i].at ELSE stack'[i].at + 1
        BY <1>1, <2>4
      <4>1. CASE i = Top
        <5>1. stack[Top].pc = stack[Top].at
          BY DEF PInv, Calls
        <5>2. stack'[i + 1].routine = Here.to /\ stack'[i].pc = pc /\ stack'[i].at = stack[Top].at
          BY <2>2, <2>4, <4>1
        <5> QED
          BY <1>2, <1>3, <5>1, <5>2 DEF pc
      <4>2. CASE i \in 1..Top - 1
        <5>1. i + 1 \in 1..Top /\ i \in 1..Len(stack) - 1
          BY <1>1, <4>2
        <5>2. stack'[i] = stack[i] /\ stack'[i + 1].routine = stack[i + 1].routine
          BY <2>4, <2>6, <4>2, <5>1
        <5> QED
          BY <5>1, <5>2 DEF PInv, Calls
      <4> QED
        BY <1>1, <4>1, <4>2
    <3>3. stack'[Top'].pc = stack'[Top'].at
      BY <2>2, <2>4, <2>5
    <3>4. \A i \in 1..Len(stack') :
             Empty(stack'[i].routine) => i = Len(stack') /\ stack'[i].pc = 1
      <4>1. ~Empty(stack[Top].routine)
        BY <1>2, <1>3, TopIsAtCode DEF PInv, HasLine
      <4>2. \A i \in 1..Top : ~Empty(stack[i].routine)
        BY <1>1, <4>1 DEF PInv, Calls
      <4> QED
        BY <1>1, <2>2, <2>4, <2>6, <4>2
    <3> QED
      BY <2>4, <2>5, <3>1, <3>2, <3>3, <3>4 DEF Calls, Text, Empty
  <2>9. LineOf(Top)' = Code[Here.to].text[1].line
    BY <2>2, <2>4, <2>5, <2>7 DEF LineOf
  <2>10. ReEntered'
    BY <1>1, <1>5, <1>6, <2>5 DEF ReEntered
  <2>11. stood' => ~HasLine'
    BY <1>7, <2>9 DEF HasLine, Empty
  <2>12. ~HasLine' => InEmpty'
    <3> SUFFICES ASSUME ~HasLine'
                 PROVE  InEmpty'
      OBVIOUS
    <3>1. Empty(Here.to) /\ Top' > 1 /\ stack'[Top'].routine = Here.to
      BY <1>1, <2>2, <2>4, <2>5, <2>9 DEF HasLine, Empty
    <3> PICK k \in Nat : k = Top
      BY <1>1
    <3>2. Top' - 1 = k /\ k # Top' /\ stack'[k].at = stack[k].pc /\ stack[k].pc \in Nat
      BY <1>1, <2>2, <2>4, <2>5 DEF PInv, Calls, Frame
    <3>3. Initializing(k)' <=> Code[Here.to].body
      BY <1>1, <2>2, <2>4, <2>5 DEF Initializing
    <3>4. (IF Initializing(k)' THEN stack'[k].pc ELSE stack'[k].pc - 1) = stack[k].pc
      <4>1. stack'[k].pc = pc
        BY <2>2, <2>4
      <4>2. CASE Here.op = "call"
        BY <1>3, <3>2, <3>3, <4>1, <4>2 DEF pc
      <4>3. CASE Here.op = "touch"
        BY <1>3, <3>3, <4>1, <4>3 DEF pc
      <4> QED
        BY <1>2, <4>2, <4>3
    <3>5. Text(k)' = Text(k)
      BY <2>2, <2>4 DEF Text
    <3>6. LineOf(k)' = Text(k)[stack[k].pc].line
      BY <3>2, <3>4, <3>5 DEF LineOf
    <3>7. LineOf(Top - 1)' = LineOf(Top)
      BY <3>2, <3>6 DEF LineOf
    <3>8. last' = [line |-> LineOf(Top - 1)', depth |-> Top' - 1, pc |-> stack'[Top' - 1].at]
      BY <1>5, <1>6, <3>2, <3>7 DEF Position
    <3>9. last'.line # 0
      BY <1>2, <1>3, <1>5, <1>6
    <3>10. IF Code[Here.to].body THEN ~stood'
           ELSE mode'.kind = "run" /\ last'.line \in points' => stood'
      BY <1>2, <1>3, <1>4, <1>5, <1>6, <1>7, <3>1
    <3> QED
      BY <3>1, <3>8, <3>10, <3>9 DEF InEmpty, Empty
  <2>13. Passes'
    BY <1>5, <1>6, <1>7, <2>1, <2>10, <2>11, <2>12 DEF Passes
  <2> QED
    BY <2>8, <2>13 DEF PInv
<1> QED
  BY <1>8, <1>9

(* A return: the caller is at the instruction after its call, or again at    *)
(* the one that needed the module.                                           *)
LEMMA ReturnKeeps ==
    ASSUME PInv, phase = "exec", Return, UNCHANGED hookVars
    PROVE  PInv'
<1> USE DEF hookVars
<1>1. Top \in Nat \ {0} /\ stack[Top] \in Frame /\ stack \in Seq(Frame) /\ Len(stack) = Top
  BY TopIsAtCode DEF PInv, Calls, Top
<1>2. last' = last /\ mode' = mode /\ points' = points
  OBVIOUS
<1>3. last \in [line : Nat, depth : Nat, pc : Nat] /\ stood \in BOOLEAN
  BY DEF PInv, Passes
<1>4. CASE Top = 1
  <2>1. phase' = "over" /\ stack' = stack /\ stood' = stood
    BY <1>4 DEF Return
  <2>2. Calls'
    BY <2>1 DEF PInv, Calls, Text, Top, Empty
  <2>3. Passes'
    BY <1>2, <1>3, <2>1 DEF Passes
  <2> QED
    BY <2>2, <2>3 DEF PInv
<1>5. CASE Top # 1
  <2> PICK k \in Nat \ {0} : k = Top - 1
    BY <1>1, <1>5
  <2> DEFINE caller == [stack[k] EXCEPT !.at = stack[k].pc]
  <2>1. /\ phase' = "hook"
        /\ stack' = [i \in 1..k |-> IF i = k THEN caller ELSE stack[i]]
        /\ stood' = (/\ stood /\ Empty(stack[Top].routine)
                     /\ LineOf(k) = Text(k)[stack[k].pc].line)
    BY <1>1, <1>5 DEF Return
  <2>2. k \in 1..Len(stack) - 1 /\ k + 1 = Top /\ stack[k] \in Frame
    BY <1>1
  <2>3. /\ caller \in Frame /\ caller.pc = stack[k].pc /\ caller.at = stack[k].pc
        /\ caller.routine = stack[k].routine
    BY <2>2 DEF Frame
  <2> HIDE DEF caller
  <2>4. /\ stack' \in Seq(Frame) /\ Len(stack') = k /\ stack'[k] = caller
        /\ \A i \in 1..k - 1 : stack'[i] = stack[i]
    BY <1>1, <2>1, <2>2, <2>3
  <2>5. Top' = k /\ stack' # <<>>
    BY <2>4, EmptySeq DEF Top
  <2>6. \A i \in 1..k : stack'[i].routine = stack[i].routine /\ stack'[i].pc = stack[i].pc
    BY <2>3, <2>4
  <2>7. Calls'
    <3>1. \A i \in 1..Len(stack') : stack'[i].pc \in DOMAIN Code[stack'[i].routine].text
      <4> SUFFICES ASSUME NEW i \in 1..k
                   PROVE  stack'[i].pc \in DOMAIN Code[stack'[i].routine].text
        BY <2>4
      <4>1. i \in 1..Len(stack)
        BY <2>2
      <4>2. stack[i].pc \in DOMAIN Text(i)
        BY <4>1 DEF PInv, Calls
      <4> QED
        BY <2>6, <4>2 DEF Text
    <3>2. \A i \in 1..Len(stack') - 1 :
             stack'[i].pc = IF Code[stack'[i + 1].routine].body THEN stack'[i].at
                                                                ELSE stack'[i].at + 1
      <4> SUFFICES ASSUME NEW i \in 1..k - 1
                   PROVE  stack'[i].pc = IF Code[stack'[i + 1].routine].body
                                         THEN stack'[i].at ELSE stack'[i].at + 1
        BY <2>4
      <4>1. i + 1 \in 1..k /\ i \in 1..Len(stack) - 1
        BY <2>2
      <4>2. stack'[i] = stack[i] /\ stack'[i + 1].routine = stack[i + 1].routine
        BY <2>4, <2>6, <4>1
      <4> QED
        BY <4>1, <4>2 DEF PInv, Calls
    <3>3. stack'[Top'].pc = stack'[Top'].at
      BY <2>3, <2>4, <2>5
    <3>4. \A i \in 1..Len(stack') : ~Empty(stack'[i].routine)
      BY <2>2, <2>4, <2>6 DEF PInv, Calls
    <3> QED
      BY <2>4, <2>5, <3>1, <3>2, <3>3, <3>4 DEF Calls, Text, Empty
  <2>8. LineOf(Top)' = Text(k)[stack[k].pc].line /\ stack'[Top'].pc = stack[k].pc
    BY <2>4, <2>5, <2>6 DEF LineOf, Text
  <2>9. stack[k].pc = IF Code[stack[Top].routine].body THEN stack[k].at
                                                       ELSE stack[k].at + 1
    BY <2>2 DEF PInv, Calls
  <2>10. stack[k].pc \in Nat /\ stack[k].at \in Nat
    BY <2>2 DEF Frame
  <2>11. CASE HasLine \/ ~InEmpty
    <3>1. ~stood' /\ last.depth >= Top
      <4>1. CASE HasLine
        BY <1>1, <2>1, <4>1, TopIsAtCode DEF PInv, Passes, Position
      <4>2. CASE ~HasLine
        BY <1>1, <1>5, <2>1, <2>11, <4>2 DEF PInv, Passes
      <4> QED
        BY <4>1, <4>2
    <3>2. ReEntered' /\ last'.depth >= Top'
      BY <1>1, <1>2, <1>3, <2>2, <2>5, <3>1 DEF ReEntered
    <3> QED
      BY <1>2, <1>3, <2>1, <2>7, <3>1, <3>2 DEF PInv, Passes
  <2>12. CASE InEmpty
    <3>1. /\ last = [line |-> LineOf(k), depth |-> k, pc |-> stack[k].at]
          /\ last.line # 0 /\ Empty(stack[Top].routine)
      BY <1>1, <2>12 DEF InEmpty
    <3>2. last.line = LineOf(k) /\ last.depth = k /\ last.pc = stack[k].at /\ last # NoPosition
      BY <3>1 DEF NoPosition
    <3>3. ReEntered' <=> LineOf(Top)' # LineOf(k) \/ stack[k].pc <= stack[k].at
      BY <1>2, <2>5, <2>8, <3>2 DEF ReEntered, Changed
    <3>4. stood' <=> stood /\ LineOf(Top)' = LineOf(k)
      BY <1>3, <2>1, <2>8, <3>1, Zenon
    <3>5. CASE Code[stack[Top].routine].body
      <4>1. ~stood /\ stack[k].pc <= stack[k].at
        BY <2>9, <2>10, <2>12, <3>5 DEF InEmpty
      <4>2. ~stood' /\ ReEntered' /\ last'.depth >= Top'
        BY <1>2, <2>5, <3>2, <3>3, <3>4, <4>1
      <4> QED
        BY <1>2, <1>3, <2>1, <2>7, <4>2 DEF PInv, Passes
    <3>6. CASE ~Code[stack[Top].routine].body
      <4>1. ~(stack[k].pc <= stack[k].at) /\ (mode.kind = "run" /\ LineOf(k) \in points => stood)
        BY <2>9, <2>10, <2>12, <3>2, <3>6 DEF InEmpty
      <4>2. stood' => ~ReEntered'
        BY <3>3, <3>4, <4>1
      <4>3. mode'.kind = "run" /\ LineOf(Top)' \in points' /\ ~ReEntered' => stood'
        BY <1>2, <3>3, <3>4, <4>1
      <4>4. ~HasLine' => ~stood' /\ last'.depth >= Top'
        BY <1>2, <2>5, <3>1, <3>2, <3>4 DEF HasLine
      <4> QED
        BY <1>2, <1>3, <2>1, <2>7, <4>2, <4>3, <4>4 DEF PInv, Passes
    <3> QED
      BY <3>5, <3>6
  <2> QED
    BY <2>11, <2>12
<1> QED
  BY <1>4, <1>5

(* The hook stops where control comes to a line anew, and remembers.         *)
LEMMA HookKeeps ==
    ASSUME PInv, BeforeInstruction
    PROVE  PInv'
<1>1. /\ phase = "hook" /\ stack' = stack /\ mode' = mode /\ points' = points
      /\ last' = IF HasLine THEN Position ELSE last
  BY DEF BeforeInstruction, Remember
<1>2. Calls'
  BY <1>1 DEF PInv, Calls, Text, Top, Empty
<1>3. /\ Top' = Top /\ LineOf(Top)' = LineOf(Top) /\ Position' = Position
      /\ (HasLine)' <=> HasLine
  BY <1>1 DEF Top, LineOf, Text, Initializing, Position, HasLine
<1>4. Position \in [line : Nat, depth : Nat, pc : Nat] /\ stood \in BOOLEAN
  BY TopIsAtCode DEF PInv, Position, Passes, Frame
<1>5. last' \in [line : Nat, depth : Nat, pc : Nat]
  BY <1>1, <1>4 DEF PInv, Passes
<1>6. CASE Stand /\ HasLine
  BY <1>1, <1>2, <1>3, <1>5, <1>6 DEF Stand, PInv, Passes
<1>7. CASE GoOn /\ ~Stops /\ HasLine
  <2>1. mode.kind = "run" /\ LineOf(Top) \in points => stood
    BY <1>1, <1>7 DEF PInv, Passes, Stops
  <2> QED
    BY <1>1, <1>2, <1>3, <1>4, <1>5, <1>7, <2>1 DEF GoOn, PInv, Passes
<1>8. CASE GoOn /\ ~HasLine
  <2>1. phase' = "exec" /\ stood' = stood /\ last' = last
    BY <1>1, <1>8 DEF GoOn
  <2>2. InEmpty' <=> InEmpty
    BY <1>1, <2>1 DEF InEmpty, Top, Empty, LineOf, Text, Initializing
  <2> QED
    BY <1>1, <1>2, <1>3, <1>4, <1>5, <1>8, <2>1, <2>2 DEF PInv, Passes
<1>9. \/ Stand /\ HasLine
      \/ GoOn /\ ~Stops /\ HasLine
      \/ GoOn /\ ~HasLine
  BY DEF BeforeInstruction, Stops
<1> QED
  BY <1>6, <1>7, <1>8, <1>9

(* The requests before the run and at a stop: a stop has stood.              *)
LEMMA ServingKeeps ==
    ASSUME PInv, Setup \/ Serve
    PROVE  PInv'
<1>1. stack' = stack /\ last' = last /\ stood' = stood
  BY DEF Setup, Serve, runVars
<1>2. Calls'
  BY <1>1 DEF PInv, Calls, Text, Top, Empty
<1>3. /\ Top' = Top /\ LineOf(Top)' = LineOf(Top) /\ Position' = Position
      /\ (HasLine)' <=> HasLine
  BY <1>1 DEF Top, LineOf, Text, Initializing, Position, HasLine
<1>4. Top \in Nat \ {0}
  BY TopIsAtCode DEF PInv
<1>5. CASE Setup
  <2>1. phase = "setup" /\ phase' \in {"setup", "hook", "over"}
    BY <1>5 DEF Setup
  <2>2. Top = 1 /\ last = NoPosition /\ ~stood
    BY <2>1 DEF PInv, Passes
  <2>3. ReEntered'
    BY <1>1, <1>3, <2>2 DEF ReEntered, NoPosition
  <2> QED
    BY <1>1, <1>2, <1>3, <2>1, <2>2, <2>3 DEF PInv, Passes
<1>6. CASE Serve
  <2>1. phase = "stopped" /\ phase' \in {"exec", "stopped", "over"}
    BY <1>6 DEF Serve
  <2> QED
    BY <1>1, <1>2, <1>3, <2>1 DEF PInv, Passes
<1> QED
  BY <1>5, <1>6

(* The editor and the reader thread do not touch the run.                    *)
LEMMA OthersKeep ==
    ASSUME PInv, UNCHANGED <<stack, last, stood, mode, points, phase>>
    PROVE  PInv'
<1>1. Calls'
  BY DEF PInv, Calls, Text, Top, Empty
<1>2. /\ Top' = Top /\ LineOf(Top)' = LineOf(Top) /\ Position' = Position
      /\ (HasLine)' <=> HasLine
  BY DEF Top, LineOf, Text, Initializing, Position, HasLine
<1>3. (ReEntered)' <=> ReEntered
  BY <1>2 DEF ReEntered, Changed
<1>4. (InEmpty)' <=> InEmpty
  BY DEF InEmpty, Top, Empty, LineOf, Text, Initializing
<1>5. Passes'
  BY <1>2, <1>3, <1>4 DEF PInv, Passes
<1> QED
  BY <1>1, <1>5 DEF PInv

(* Every step keeps the invariant.                                           *)
LEMMA NextPInv == PInv /\ [Next]_vars => PInv'
<1> SUFFICES ASSUME PInv, [Next]_vars
             PROVE  PInv'
  OBVIOUS
<1>1. CASE Execute
  BY <1>1, AdvanceKeeps, EnterKeeps, ReturnKeeps DEF Execute
<1>2. CASE BeforeInstruction
  BY <1>2, HookKeeps
<1>3. CASE Setup \/ Serve
  BY <1>3, ServingKeeps
<1>4. CASE Ask \/ Leave
  BY <1>4, OthersKeep DEF Ask, Leave, hookVars, runVars
<1>5. CASE Pump \/ PumpEnd \/ NextFrame
  BY <1>5, OthersKeep DEF Pump, PumpEnd, NextFrame, hookVars, runVars
<1>6. CASE UNCHANGED vars
  BY <1>6, OthersKeep DEF vars, hookVars, runVars
<1> QED
  BY <1>1, <1>2, <1>3, <1>4, <1>5, <1>6 DEF Next

(* The run begins with the script, and no line has been seen.                *)
LEMMA InitPInv == Init => PInv
<1> SUFFICES ASSUME Init
             PROVE  PInv
  OBVIOUS
<1> DEFINE first == [routine |-> Main, pc |-> 1, at |-> 1]
<1>1. stack = <<first>> /\ first \in Frame /\ 1 \in DOMAIN Code[Main].text
  BY DebugAssumption DEF Init, Frame
<1>2. /\ stack \in Seq(Frame) /\ stack # <<>> /\ Len(stack) = 1 /\ Top = 1
      /\ stack[1].routine = Main /\ stack[1].pc = 1 /\ stack[1].at = 1
  BY <1>1 DEF Top
<1>3. Calls
  BY <1>1, <1>2 DEF Calls, Text
<1>4. Passes
  BY <1>2 DEF Init, Passes, NoPosition
<1> QED
  BY <1>3, <1>4 DEF PInv

-----------------------------------------------------------------------------
(* The lines, and the numbers of the editor.                                 *)

(* The editor has introduced itself, and the run counts as it does.          *)
Introduced == sent # <<>> /\ sent[1].do = "initialize" /\ base = sent[1].base

(* The run has taken n requests; what it has not yet taken stands in channel *)
(* and in the buffer, in order.                                              *)
Taken(n) ==
    /\ \A k \in 1..Len(channel) : channel[k] = n + k
    /\ \A k \in 1..Len(buf) : buf[k] = HalfAt(2 * (n + Len(channel)) + k)
    /\ fed = 2 * (n + Len(channel)) + Len(buf)
    /\ n = 0 => phase \in {"setup", "over"} /\ points = {}
    /\ n # 0 /\ phase # "over" => Introduced

Half == [of : Int, part : {"head", "body"}]

(* Only the first request introduces the editor.                             *)
Wire ==
    /\ sent \in Seq(Asks) /\ channel \in Seq(Nat)
    /\ buf \in Seq(Half)
    /\ fed \in 0..2 * Len(sent)
    /\ \A i \in 1..Len(sent) :
          /\ sent[i].do = "initialize" => i = 1
          /\ i = 1 => sent[i].do \in {"initialize", "disconnect", "garbled"}
    /\ points # {} => Introduced
    /\ \E n \in Nat : Taken(n)

LInv == Lines /\ Wire

(* What the run takes is the next request the editor has written.            *)
LEMMA TakeIsNext ==
    ASSUME Wire, NEW n \in Nat, Taken(n), Take
    PROVE  /\ Request = sent[n + 1] /\ n + 1 \in 1..Len(sent) /\ Request \in Asks
           /\ channel' \in Seq(Nat) /\ Len(channel') = Len(channel) - 1
           /\ \A k \in 1..Len(channel') : channel'[k] = n + 1 + k
           /\ n + 1 + Len(channel') = n + Len(channel)
<1>1. channel # <<>> /\ channel' = Tail(channel) /\ channel \in Seq(Nat) /\ sent \in Seq(Asks)
  BY DEF Take, Wire
<1>2. Len(channel) \in Nat /\ Len(channel) > 0
  BY <1>1, EmptySeq
<1>3. /\ channel' \in Seq(Nat) /\ Len(channel') = Len(channel) - 1
      /\ \A k \in 1..Len(channel') : channel'[k] = channel[k + 1]
  BY <1>1, <1>2, HeadTailProperties
<1>4. \A k \in 1..Len(channel') : channel'[k] = n + 1 + k
  BY <1>2, <1>3 DEF Taken
<1>5. Head(channel) = n + 1
  BY <1>1, <1>2 DEF Taken
<1>6. fed <= 2 * Len(sent) /\ fed = 2 * (n + Len(channel)) + Len(buf) /\ Len(buf) \in Nat
      /\ Len(sent) \in Nat
  BY DEF Wire, Taken
<1>7. n + 1 <= Len(sent)
  BY <1>2, <1>6
<1> QED
  BY <1>1, <1>2, <1>3, <1>4, <1>5, <1>7 DEF Request

(* A step of the run that takes no request, and one that does: the editor    *)
(* introduces itself with the first request.                                 *)
LEMMA IdleKeepsWire ==
    ASSUME Wire, NEW n \in Nat, Taken(n), UNCHANGED <<sent, wireVars, channel>>,
           n = 0 => phase' \in {"setup", "over"} /\ points' = {},
           n # 0 /\ phase' # "over" => Introduced',
           points' # {} => Introduced'
    PROVE  Wire'
<1>1. sent' = sent /\ fed' = fed /\ buf' = buf /\ channel' = channel
  BY DEF wireVars
<1>2. /\ \A k \in 1..Len(channel') : channel'[k] = n + k
      /\ \A k \in 1..Len(buf') : buf'[k] = HalfAt(2 * (n + Len(channel')) + k)
      /\ fed' = 2 * (n + Len(channel')) + Len(buf')
  BY <1>1 DEF Taken
<1>3. Taken(n)'
  BY <1>2 DEF Taken
<1> QED
  BY <1>1, <1>3 DEF Wire

(* A request is taken, in order.                                              *)
LEMMA TakingKeepsWire ==
    ASSUME Wire, NEW n \in Nat, Taken(n), UNCHANGED <<sent, wireVars>>, Take,
           phase' = "over" \/ Introduced',
           points' # {} => Introduced'
    PROVE  Wire'
<1>1. sent' = sent /\ fed' = fed /\ buf' = buf
  BY DEF wireVars
<1>2. /\ \A k \in 1..Len(buf) : buf[k] = HalfAt(2 * (n + Len(channel)) + k)
      /\ fed = 2 * (n + Len(channel)) + Len(buf)
  BY DEF Taken
<1>3. /\ channel' \in Seq(Nat) /\ n + 1 + Len(channel') = n + Len(channel) /\ n + 1 # 0
      /\ \A k \in 1..Len(channel') : channel'[k] = n + 1 + k
  BY TakeIsNext
<1>4. /\ \A k \in 1..Len(buf') : buf'[k] = HalfAt(2 * (n + 1 + Len(channel')) + k)
      /\ fed' = 2 * (n + 1 + Len(channel')) + Len(buf')
  BY <1>1, <1>2, <1>3
<1>5. Taken(n + 1)'
  BY <1>3, <1>4 DEF Taken
<1>6. n + 1 \in Nat
  OBVIOUS
<1> QED
  BY <1>1, <1>3, <1>5, <1>6 DEF Wire

(* Asking adds a request behind those that are on their way.                 *)
LEMMA AskKeeps ==
    ASSUME LInv, Ask
    PROVE  LInv'
<1>1. PICK ask \in Asks : Proper(ask) /\ sent' = Append(sent, ask)
  BY DEF Ask
<1>2. UNCHANGED <<wireVars, channel, hookVars, phase>> /\ sent \in Seq(Asks)
  BY DEF Ask, LInv, Wire
<1>3. /\ sent' \in Seq(Asks) /\ Len(sent') = Len(sent) + 1 /\ Len(sent) \in Nat
      /\ \A i \in 1..Len(sent) : sent'[i] = sent[i]
      /\ sent'[Len(sent) + 1] = ask
  BY <1>1, <1>2
<1>4. Lines'
  BY <1>2 DEF LInv, Lines, ToClient, hookVars
<1>5. /\ ask.do = "initialize" => Len(sent) + 1 = 1
      /\ Len(sent) + 1 = 1 => ask.do \in {"initialize", "disconnect", "garbled"}
  <2>1. DOMAIN Greeting = 1..3 /\ Greeting[1] = "initialize"
        /\ Greeting[2] = "setBreakpoints" /\ Greeting[3] = "configurationDone"
    BY DEF Greeting
  <2> QED
    BY <1>1, <1>3, <2>1 DEF Proper
<1>6. \A i \in 1..Len(sent') :
         /\ sent'[i].do = "initialize" => i = 1
         /\ i = 1 => sent'[i].do \in {"initialize", "disconnect", "garbled"}
  <2> SUFFICES ASSUME NEW i \in 1..Len(sent) + 1
               PROVE  /\ sent'[i].do = "initialize" => i = 1
                      /\ i = 1 => sent'[i].do \in {"initialize", "disconnect", "garbled"}
    BY <1>3
  <2>1. CASE i \in 1..Len(sent)
    BY <1>3, <2>1 DEF LInv, Wire
  <2>2. CASE i = Len(sent) + 1
    BY <1>3, <1>5, <2>2
  <2> QED
    BY <1>3, <2>1, <2>2
<1>7. Introduced => Introduced'
  <2> SUFFICES ASSUME Introduced
               PROVE  Introduced'
    OBVIOUS
  <2>1. sent # <<>> /\ Len(sent) > 0 /\ base' = base
    BY <1>2, <1>3, EmptySeq DEF Introduced, hookVars
  <2>2. sent' # <<>> /\ sent'[1] = sent[1]
    BY <1>3, <2>1, EmptySeq
  <2> QED
    BY <2>1, <2>2 DEF Introduced
<1>8. PICK n \in Nat : Taken(n)
  BY DEF LInv, Wire
<1>9. Taken(n)'
  BY <1>2, <1>7, <1>8 DEF Taken, wireVars, hookVars, HalfAt
<1>10. fed' \in 0..2 * Len(sent')
  BY <1>2, <1>3 DEF LInv, Wire, wireVars
<1>11. Wire'
  BY <1>2, <1>3, <1>6, <1>7, <1>9, <1>10 DEF LInv, Wire, wireVars, hookVars
<1> QED
  BY <1>4, <1>11 DEF LInv

(* Reading brings the next halves, in order.                                 *)
LEMMA PumpKeeps ==
    ASSUME LInv, Pump
    PROVE  LInv'
<1>1. PICK m \in fed + 1..2 * Len(sent) :
         fed' = m /\ buf' = buf \o [k \in 1..m - fed |-> HalfAt(fed + k)]
  BY DEF Pump
<1>2. UNCHANGED <<sent, channel, hookVars, phase>>
  BY DEF Pump
<1>3. /\ fed \in Nat /\ m \in Nat /\ m > fed /\ m <= 2 * Len(sent) /\ Len(sent) \in Nat
      /\ buf \in Seq(Half) /\ Len(buf) \in Nat
  BY <1>1 DEF LInv, Wire
<1> DEFINE read == [k \in 1..m - fed |-> HalfAt(fed + k)]
<1>4. \A k \in Nat : HalfAt(k) \in Half
  BY DEF HalfAt, Half
<1>5. /\ read \in Seq(Half) /\ Len(read) = m - fed
      /\ \A k \in 1..m - fed : read[k] = HalfAt(fed + k)
  <2>1. m - fed \in Nat
    BY <1>3
  <2>2. \A k \in 1..m - fed : fed + k \in Nat
    BY <1>3
  <2>3. read \in [1..m - fed -> Half]
    BY <1>4, <2>2
  <2>4. \A k \in 1..m - fed : read[k] = HalfAt(fed + k)
    OBVIOUS
  <2> HIDE DEF read
  <2> QED
    <3> DEFINE m1 == m - fed
    <3>1. m1 \in Nat /\ read \in [1..m1 -> Half]
      BY <2>1, <2>3
    <3> HIDE DEF m1
    <3>2. read \in Seq(Half) /\ Len(read) = m1
      BY <3>1
    <3> QED
      BY <2>4, <3>2 DEF m1
<1> HIDE DEF read
<1>6. /\ buf' \in Seq(Half)
      /\ Len(buf') = Len(buf) + (m - fed)
      /\ \A k \in 1..Len(buf') : buf'[k] = IF k <= Len(buf) THEN buf[k] ELSE read[k - Len(buf)]
  BY <1>1, <1>3, <1>5, ConcatProperties DEF read
<1>7. PICK n \in Nat : Taken(n)
  BY DEF LInv, Wire
<1>8. Taken(n)'
  <2>1. fed = 2 * (n + Len(channel)) + Len(buf) /\ Len(channel) \in Nat
    BY <1>7 DEF Taken, LInv, Wire
  <2>2. fed' = 2 * (n + Len(channel)) + Len(buf')
    BY <1>1, <1>3, <1>6, <2>1
  <2>3. \A k \in 1..Len(buf') : buf'[k] = HalfAt(2 * (n + Len(channel)) + k)
    <3> SUFFICES ASSUME NEW k \in 1..Len(buf')
                 PROVE  buf'[k] = HalfAt(2 * (n + Len(channel)) + k)
      OBVIOUS
    <3>1. CASE k <= Len(buf)
      BY <1>3, <1>6, <1>7, <3>1 DEF Taken
    <3>2. CASE ~(k <= Len(buf))
      <4>1. k - Len(buf) \in 1..m - fed /\ fed + (k - Len(buf)) = 2 * (n + Len(channel)) + k
        BY <1>3, <1>6, <2>1, <3>2
      <4> QED
        BY <1>5, <1>6, <3>2, <4>1
    <3> QED
      BY <3>1, <3>2
  <2> QED
    <3>1. channel' = channel /\ points' = points /\ phase' = phase /\ (Introduced' <=> Introduced)
      BY <1>2 DEF Introduced, hookVars
    <3>2. /\ fed' = 2 * (n + Len(channel')) + Len(buf')
          /\ \A k \in 1..Len(buf') : buf'[k] = HalfAt(2 * (n + Len(channel')) + k)
      BY <2>2, <2>3, <3>1
    <3> QED
      BY <1>7, <3>1, <3>2 DEF Taken
<1>9. Wire'
  BY <1>1, <1>2, <1>3, <1>6, <1>8 DEF LInv, Wire, Introduced, hookVars
<1>10. Lines'
  BY <1>2 DEF LInv, Lines, ToClient, hookVars
<1> QED
  BY <1>9, <1>10 DEF LInv

(* Cutting a frame moves the next request from the buffer to the channel.    *)
LEMMA NextFrameKeeps ==
    ASSUME LInv, NextFrame
    PROVE  LInv'
<1>1. UNCHANGED <<sent, fed, hookVars, phase>>
  BY DEF NextFrame
<1>2. Lines'
  BY <1>1 DEF LInv, Lines, ToClient, hookVars
<1>3. PICK n \in Nat : Taken(n)
  BY DEF LInv, Wire
<1>4. CASE UNCHANGED <<buf, channel>>
  <2>1. Taken(n)'
    BY <1>1, <1>3, <1>4 DEF Taken, Introduced, hookVars, HalfAt
  <2> QED
    BY <1>1, <1>2, <1>4, <2>1 DEF LInv, Wire, Introduced, hookVars
<1>5. CASE /\ Len(buf) >= 2 /\ buf' = SubSeq(buf, 3, Len(buf))
           /\ channel' = Append(channel, buf[1].of)
  <2>1. /\ buf \in Seq(Half) /\ Len(buf) \in Nat
        /\ channel \in Seq(Nat) /\ Len(channel) \in Nat
    BY DEF LInv, Wire
  <2>2. /\ buf' \in Seq(Half) /\ Len(buf') = Len(buf) - 2
        /\ \A k \in 1..Len(buf') : buf'[k] = buf[k + 2]
    <3> PICK m \in Nat : m = Len(buf) /\ m >= 2
      BY <1>5, <2>1
    <3> DEFINE rest == SubSeq(buf, 3, m)
    <3>1. m \in Int /\ \A k \in 3..m : buf[k] \in Half
      <4>1. \A k \in 3..m : k \in 1..m
        BY <2>1
      <4> QED
        BY <2>1, <4>1
    <3>2. /\ rest \in Seq(Half)
          /\ Len(rest) = IF 3 <= m THEN m - 3 + 1 ELSE 0
          /\ \A k \in 1..m - 3 + 1 : rest[k] = buf[3 + k - 1]
      BY <3>1, SubSeqProperties
    <3> HIDE DEF rest
    <3>3. Len(rest) = m - 2
      BY <3>2
    <3>4. \A k \in 1..m - 2 : rest[k] = buf[k + 2]
      <4> SUFFICES ASSUME NEW k \in 1..m - 2
                   PROVE  rest[k] = buf[k + 2]
        OBVIOUS
      <4>1. k \in 1..m - 3 + 1 /\ 3 + k - 1 = k + 2
        BY <2>1
      <4> QED
        BY <3>2, <4>1
    <3> QED
      BY <1>5, <3>2, <3>3, <3>4 DEF rest
  <2>3. buf[1].of = n + Len(channel) + 1
    <3>1. buf[1] = HalfAt(2 * (n + Len(channel)) + 1)
      BY <1>3, <1>5, <2>1 DEF Taken
    <3> DEFINE h == 2 * (n + Len(channel)) + 1
    <3>2. (h + 1) \div 2 = n + Len(channel) + 1
      BY <2>1
    <3> HIDE DEF h
    <3>3. HalfAt(h).of = (h + 1) \div 2
      BY DEF HalfAt
    <3> QED
      BY <3>1, <3>2, <3>3 DEF h
  <2>4. /\ channel' \in Seq(Nat) /\ Len(channel') = Len(channel) + 1
        /\ \A k \in 1..Len(channel') : channel'[k] = n + k
    <3>1. n + Len(channel) + 1 \in Nat
      BY <2>1
    <3>2. /\ channel' \in Seq(Nat) /\ Len(channel') = Len(channel) + 1
          /\ \A k \in 1..Len(channel) : channel'[k] = channel[k]
          /\ channel'[Len(channel) + 1] = n + Len(channel) + 1
      BY <1>5, <2>1, <2>3, <3>1
    <3>3. \A k \in 1..Len(channel) : channel[k] = n + k
      BY <1>3 DEF Taken
    <3>4. channel'[Len(channel) + 1] = n + (Len(channel) + 1)
      BY <2>1, <3>2
    <3>5. \A k \in 1..Len(channel) + 1 : k \in 1..Len(channel) \/ k = Len(channel) + 1
      BY <2>1
    <3> QED
      BY <3>2, <3>3, <3>4, <3>5
  <2>5. Taken(n)'
    <3>1. fed = 2 * (n + Len(channel)) + Len(buf)
      BY <1>3 DEF Taken
    <3>2. fed' = 2 * (n + Len(channel')) + Len(buf')
      BY <1>1, <2>1, <2>2, <2>4, <3>1
    <3>3. \A k \in 1..Len(buf') : buf'[k] = HalfAt(2 * (n + Len(channel')) + k)
      <4> SUFFICES ASSUME NEW k \in 1..Len(buf')
                   PROVE  buf'[k] = HalfAt(2 * (n + Len(channel')) + k)
        OBVIOUS
      <4>1. k + 2 \in 1..Len(buf)
        BY <2>1, <2>2
      <4>2. buf[k + 2] = HalfAt(2 * (n + Len(channel)) + (k + 2))
        BY <1>3, <4>1 DEF Taken
      <4>3. 2 * (n + Len(channel)) + (k + 2) = 2 * (n + Len(channel')) + k
        BY <2>1, <2>4
      <4> QED
        BY <2>2, <4>2, <4>3
    <3> QED
      BY <1>1, <1>3, <2>4, <3>2, <3>3 DEF Taken, Introduced, hookVars, HalfAt
  <2> QED
    BY <1>1, <1>2, <2>2, <2>4, <2>5 DEF LInv, Wire, Introduced, hookVars
<1>6. Len(buf) \in Nat
  BY DEF LInv, Wire
<1> QED
  BY <1>4, <1>5, <1>6 DEF NextFrame

(* The lines found have code, and are the ones confirmed.                    *)
LEMMA BreakpointsAreLines ==
    ASSUME Lines, NEW lines, base' = base,
           SetBreakpoints(lines) \/ UNCHANGED <<points, shown>>
    PROVE  Lines'
<1>1. Resolved(lines) \subseteq Executable
  BY DEF Resolved, Nearest
<1>2. \A l : ToClient(l)' = ToClient(l)
  BY DEF ToClient
<1>3. CASE SetBreakpoints(lines)
  BY <1>1, <1>2, <1>3 DEF SetBreakpoints, Lines
<1>4. CASE UNCHANGED <<points, shown>>
  BY <1>2, <1>4 DEF Lines
<1> QED
  BY <1>3, <1>4

(* The requests before the run.                                              *)
LEMMA SetupKeeps ==
    ASSUME LInv, Setup
    PROVE  LInv'
<1>1. phase = "setup" /\ UNCHANGED <<sent, wireVars>>
  BY DEF Setup
<1>2. PICK n \in Nat : Taken(n)
  BY DEF LInv, Wire
<1>3. Lines /\ Wire
  BY DEF LInv
<1>4. n # 0 => Introduced
  BY <1>1, <1>2 DEF Taken
<1>5. CASE LineLost /\ phase' = "over" /\ UNCHANGED <<channel, points, base, shown>>
  <2>1. Introduced' <=> Introduced
    BY <1>1, <1>5 DEF Introduced
  <2>2. Wire'
    BY <1>1, <1>2, <1>3, <1>5, <2>1, IdleKeepsWire DEF Taken, Wire
  <2>3. Lines'
    BY <1>3, <1>5, BreakpointsAreLines
  <2> QED
    BY <2>2, <2>3 DEF LInv
<1>6. CASE Take
  <2>1. Request = sent[n + 1] /\ n + 1 \in 1..Len(sent) /\ Request \in Asks
    BY <1>2, <1>3, <1>6, TakeIsNext
  <2>2. /\ Request.do = "initialize" => n = 0
        /\ n = 0 => Request.do \in {"initialize", "disconnect", "garbled"} /\ Request = sent[1]
    BY <2>1, <1>3 DEF Wire
  <2>3. CASE Request.do = "initialize"
    <3>1. n = 0 /\ Request = sent[1] /\ points = {}
      BY <1>2, <2>2, <2>3 DEF Taken
    <3>2. base' = sent[1].base /\ UNCHANGED <<points, shown>> /\ base' \in {0, 1}
      BY <2>1, <2>3, <3>1, <1>6, DebugAssumption DEF Setup, LineLost, Take
    <3>3. Introduced'
      BY <1>1, <2>1, <2>3, <3>1, <3>2, EmptySeq DEF Introduced
    <3>4. Lines'
      BY <1>3, <3>1, <3>2 DEF Lines
    <3>5. Wire'
      BY <1>1, <1>2, <1>3, <1>6, <3>3, TakingKeepsWire
    <3> QED
      BY <3>4, <3>5 DEF LInv
  <2>4. CASE Request.do # "initialize"
    <3>1. /\ base' = base
          /\ SetBreakpoints(Request.lines) \/ UNCHANGED <<points, shown>>
      BY <1>6, <2>4 DEF Setup, LineLost, Take
    <3>2. Lines'
      BY <1>3, <3>1, BreakpointsAreLines
    <3>3. Introduced' <=> Introduced
      BY <1>1, <3>1 DEF Introduced
    <3>4. phase' = "over" \/ Introduced
      <4>1. CASE n = 0
        BY <1>6, <2>2, <2>4, <4>1 DEF Setup, LineLost, Take
      <4> QED
        BY <1>4, <4>1
    <3>5. points' # {} => Introduced
      <4>1. CASE n = 0
        <5>1. Request.do \in {"disconnect", "garbled"}
          BY <2>2, <2>4, <4>1
        <5>2. points' = points
          BY <1>6, <5>1 DEF Setup, LineLost, Take
        <5> QED
          BY <1>3, <5>2 DEF Wire
      <4> QED
        BY <1>4, <4>1
    <3>6. Wire'
      BY <1>1, <1>2, <1>3, <1>6, <3>3, <3>4, <3>5, TakingKeepsWire
    <3> QED
      BY <3>2, <3>6 DEF LInv
  <2> QED
    BY <2>3, <2>4
<1> QED
  BY <1>5, <1>6 DEF Setup

(* The requests during the run: the editor has introduced itself.            *)
LEMMA RunServesKeeps ==
    ASSUME LInv, BeforeInstruction \/ Serve
    PROVE  LInv'
<1>1. /\ phase \in {"hook", "stopped"} /\ UNCHANGED <<sent, wireVars, base>>
      /\ Take \/ UNCHANGED channel
  BY DEF BeforeInstruction, Serve
<1>2. PICK n \in Nat : Taken(n)
  BY DEF LInv, Wire
<1>3. Lines /\ Wire
  BY DEF LInv
<1>4. n # 0 /\ Introduced
  BY <1>1, <1>2 DEF Taken
<1>5. Introduced'
  BY <1>1, <1>4 DEF Introduced
<1>6. SetBreakpoints(Request.lines) \/ UNCHANGED <<points, shown>>
  BY DEF BeforeInstruction, Serve
<1>7. Lines'
  BY <1>1, <1>3, <1>6, BreakpointsAreLines
<1>8. CASE Take
  BY <1>1, <1>2, <1>3, <1>5, <1>7, <1>8, TakingKeepsWire DEF LInv
<1>9. CASE UNCHANGED channel
  BY <1>1, <1>2, <1>3, <1>4, <1>5, <1>7, <1>9, IdleKeepsWire DEF LInv
<1> QED
  BY <1>1, <1>8, <1>9

(* The steps that concern neither requests nor lines.                        *)
LEMMA RestKeepsLines ==
    ASSUME LInv, UNCHANGED <<sent, fed, buf, channel, points, shown, base>>,
           phase' = phase \/ phase = "exec"
    PROVE  LInv'
<1>1. PICK n \in Nat : Taken(n)
  BY DEF LInv, Wire
<1>2. Introduced' <=> Introduced
  BY DEF Introduced
<1>3. Taken(n)'
  BY <1>1, <1>2 DEF Taken
<1>4. Wire'
  BY <1>2, <1>3 DEF LInv, Wire
<1> QED
  BY <1>4 DEF LInv, Lines, ToClient

(* Every step keeps the lines and the order of requests.                     *)
LEMMA NextLInv == LInv /\ [Next]_vars => LInv'
<1> SUFFICES ASSUME LInv, [Next]_vars
             PROVE  LInv'
  OBVIOUS
<1>1. CASE Ask
  BY <1>1, AskKeeps
<1>2. CASE Pump
  BY <1>2, PumpKeeps
<1>3. CASE NextFrame
  BY <1>3, NextFrameKeeps
<1>4. CASE Setup
  BY <1>4, SetupKeeps
<1>5. CASE BeforeInstruction \/ Serve
  BY <1>5, RunServesKeeps
<1>6. CASE Execute
  BY <1>6, RestKeepsLines DEF Execute, wireVars, hookVars
<1>7. CASE Leave \/ PumpEnd
  BY <1>7, RestKeepsLines DEF Leave, PumpEnd, wireVars, hookVars
<1>8. CASE UNCHANGED vars
  BY <1>8, RestKeepsLines DEF vars, wireVars, hookVars
<1> QED
  BY <1>1, <1>2, <1>3, <1>4, <1>5, <1>6, <1>7, <1>8 DEF Next

(* Nothing has been written, and no line is asked for.                       *)
LEMMA InitLInv == Init => LInv
<1> SUFFICES ASSUME Init
             PROVE  LInv
  OBVIOUS
<1>1. Lines
  BY DEF Init, Lines
<1>2. Len(sent) = 0 /\ Len(buf) = 0 /\ Len(channel) = 0
  BY EmptySeq DEF Init
<1>3. Taken(0)
  BY <1>2 DEF Init, Taken
<1>4. Wire
  BY <1>2, <1>3, EmptySeq DEF Init, Wire
<1> QED
  BY <1>1, <1>4 DEF LInv

-----------------------------------------------------------------------------
(* The answers, and the bounds.                                              *)

(* Of the m requests cut from the stream, those that are sound are answered  *)
(* or wait in the channel, in order.                                         *)
Rendered ==
    /\ answers \in Seq(Nat)
    /\ \A m \in Nat : fed = 2 * m + Len(buf) =>
          answers \o Sound(channel) = Sound(Numbered(m))

Bounds ==
    /\ Len(sent) <= MaxAsks /\ open \in BOOLEAN
    /\ reader \in {"pump", "frames", "gone"}
    /\ Top <= MaxDepth
    /\ \A i \in 1..Top : stack[i].at \in DOMAIN Text(i)
    /\ ready \subseteq DOMAIN Code

(* The numbers of the requests.                                              *)
LEMMA NumberedIs ==
    ASSUME NEW m \in Nat
    PROVE  /\ Numbered(m) \in Seq(Nat) /\ Len(Numbered(m)) = m
           /\ \A i \in 1..m : Numbered(m)[i] = i
           /\ Numbered(m + 1) = Append(Numbered(m), m + 1)
<1>1. /\ Numbered(m) \in Seq(Nat) /\ Len(Numbered(m)) = m
      /\ \A i \in 1..m : Numbered(m)[i] = i
  BY DEF Numbered
<1>2. Numbered(m + 1) = Append(Numbered(m), m + 1)
  BY DEF Numbered
<1> QED
  BY <1>1, <1>2

(* One more request among those that are answered.                           *)
LEMMA SoundOneMore ==
    ASSUME NEW q \in Seq(Nat), NEW i \in Nat
    PROVE  Sound(Append(q, i)) = IF i \in Garbled THEN Sound(q) ELSE Append(Sound(q), i)
BY WithoutAppended DEF Sound

(* What the editor writes later does not change what was asked before.       *)
LEMMA LaterAsks ==
    ASSUME NEW q \in Seq(Nat), \A k \in 1..Len(q) : q[k] \in DOMAIN sent,
           \A i \in DOMAIN sent : i \in DOMAIN sent' /\ sent'[i] = sent[i]
    PROVE  Without(q, Garbled') = Without(q, Garbled)
<1>1. \A k \in 1..Len(q) : q[k] \in Garbled' <=> q[k] \in Garbled
  BY DEF Garbled
<1> QED
  BY <1>1, WithoutAgrees

(* A step that neither cuts nor takes a request.                             *)
LEMMA StillRendered ==
    ASSUME LInv, Rendered, UNCHANGED <<answers, channel>>,
           \A m \in Nat : fed' = 2 * m + Len(buf') => fed = 2 * m + Len(buf),
           \A i \in DOMAIN sent : i \in DOMAIN sent' /\ sent'[i] = sent[i]
    PROVE  Rendered'
<1>1. PICK n \in Nat : Taken(n)
  BY DEF LInv, Wire
<1>2. /\ channel \in Seq(Nat) /\ Len(channel) \in Nat /\ Len(buf) \in Nat /\ Len(sent) \in Nat
      /\ fed = 2 * (n + Len(channel)) + Len(buf) /\ fed <= 2 * Len(sent)
      /\ DOMAIN sent = 1..Len(sent)
  BY <1>1 DEF LInv, Wire, Taken
<1>3. n + Len(channel) <= Len(sent)
  BY <1>2
<1>4. Without(channel, Garbled') = Without(channel, Garbled)
  <2>1. \A k \in 1..Len(channel) : channel[k] \in DOMAIN sent
    <3> SUFFICES ASSUME NEW k \in 1..Len(channel)
                 PROVE  channel[k] \in DOMAIN sent
      OBVIOUS
    <3>1. channel[k] = n + k
      BY <1>1 DEF Taken
    <3> QED
      BY <1>2, <1>3, <3>1
  <2> QED
    BY <1>2, <2>1, LaterAsks
<1>5. ASSUME NEW m \in Nat, fed' = 2 * m + Len(buf')
      PROVE  answers' \o Sound(channel)' = Sound(Numbered(m))'
  <2>1. fed = 2 * m + Len(buf)
    BY <1>5
  <2>2. m <= Len(sent)
    BY <1>2, <2>1
  <2>3. answers \o Sound(channel) = Sound(Numbered(m))
    BY <2>1 DEF Rendered
  <2>4. \A k \in 1..Len(Numbered(m)) : Numbered(m)[k] \in DOMAIN sent
    <3>1. Len(Numbered(m)) = m /\ \A k \in 1..m : Numbered(m)[k] = k
      BY NumberedIs
    <3>2. \A k \in 1..m : k \in DOMAIN sent
      BY <1>2, <2>2
    <3> QED
      BY <3>1, <3>2
  <2>5. Without(Numbered(m), Garbled') = Without(Numbered(m), Garbled)
    BY <2>4, NumberedIs, LaterAsks
  <2> QED
    BY <1>4, <2>3, <2>5 DEF Sound, Numbered
<1> QED
  BY <1>5 DEF Rendered

(* A frame is cut: its request comes last on both sides.                     *)
LEMMA CutRendered ==
    ASSUME LInv, Rendered, NextFrame
    PROVE  Rendered'
<1>1. UNCHANGED <<sent, fed, answers>>
  BY DEF NextFrame
<1>2. CASE UNCHANGED <<buf, channel>>
  BY <1>1, <1>2, StillRendered
<1>3. CASE /\ Len(buf) >= 2 /\ buf' = SubSeq(buf, 3, Len(buf))
           /\ channel' = Append(channel, buf[1].of)
  <2>1. PICK n \in Nat : Taken(n)
    BY DEF LInv, Wire
  <2>2. PICK c \in Nat : c = n + Len(channel)
    BY DEF LInv, Wire
  <2>3. PICK b \in Nat : b = Len(buf) /\ b >= 2
    BY <1>3 DEF LInv, Wire
  <2>4. channel \in Seq(Nat) /\ fed = 2 * c + b /\ buf[1] = HalfAt(2 * c + 1)
    BY <2>1, <2>2, <2>3 DEF LInv, Wire, Taken
  <2>5. buf[1].of = c + 1
    <3>1. (2 * c + 1 + 1) \div 2 = c + 1
      OBVIOUS
    <3> QED
      BY <2>4, <3>1 DEF HalfAt
  <2>6. Len(buf') = b - 2
    <3>1. \A k \in 3..b : buf[k] \in Half
      BY <2>3 DEF LInv, Wire
    <3>2. Len(SubSeq(buf, 3, b)) = IF 3 <= b THEN b - 3 + 1 ELSE 0
      BY <3>1, SubSeqProperties
    <3> QED
      BY <1>3, <2>3, <3>2
  <2>7. ASSUME NEW m \in Nat, fed' = 2 * m + Len(buf')
        PROVE  answers' \o Sound(channel)' = Sound(Numbered(m))'
    <3>1. m = c + 1
      BY <1>1, <2>4, <2>6, <2>7
    <3>2. answers \o Sound(channel) = Sound(Numbered(c))
      BY <2>3, <2>4 DEF Rendered
    <3>3. Garbled' = Garbled
      BY <1>1 DEF Garbled
    <3>4. Sound(Numbered(m)) = IF m \in Garbled THEN Sound(Numbered(c))
                                                ELSE Append(Sound(Numbered(c)), m)
      BY <3>1, NumberedIs, SoundOneMore
    <3>5. channel' = Append(channel, m)
      BY <1>3, <2>5, <3>1
    <3>6. Sound(channel') = IF m \in Garbled THEN Sound(channel)
                                             ELSE Append(Sound(channel), m)
      BY <2>4, <3>5, SoundOneMore
    <3>7. Append(answers \o Sound(channel), m) = answers \o Append(Sound(channel), m)
      <4>1. PICK a \in Seq(Nat) : a = answers
        BY DEF Rendered
      <4>2. PICK x \in Seq(Nat) : x = Sound(channel)
        BY <2>4, WithoutIs DEF Sound
      <4>3. a \o x \in Seq(Nat) /\ <<m>> \in Seq(Nat)
        BY ConcatProperties
      <4>4. Append(a \o x, m) = (a \o x) \o <<m>> /\ Append(x, m) = x \o <<m>>
        BY <4>3, AppendIsConcat
      <4> QED
        BY <4>1, <4>2, <4>3, <4>4, ConcatAssociative
    <3>8. answers \o Sound(channel') = Sound(Numbered(m))
      BY <3>2, <3>4, <3>6, <3>7
    <3> QED
      BY <1>1, <3>3, <3>8 DEF Sound, Numbered
  <2> QED
    BY <1>1, <2>7 DEF Rendered
<1>4. Len(buf) \in Nat
  BY DEF LInv, Wire
<1> QED
  BY <1>2, <1>3, <1>4 DEF NextFrame

(* A request is taken: it is answered, unless nobody can read it.            *)
LEMMA TakenRendered ==
    ASSUME LInv, Rendered, Take, UNCHANGED <<sent, wireVars>>,
           IF Request.do = "garbled" THEN UNCHANGED answers ELSE Respond
    PROVE  Rendered'
<1>1. UNCHANGED <<sent, fed, buf>>
  BY DEF wireVars
<1>2. PICK n \in Nat : Taken(n)
  BY DEF LInv, Wire
<1>3. channel \in Seq(Nat) /\ channel # <<>> /\ channel' = Tail(channel)
  BY DEF Take, LInv, Wire
<1>4. /\ Head(channel) \in Nat
      /\ Head(channel) \in Garbled <=> Request.do = "garbled"
  <2>1. Request = sent[n + 1] /\ n + 1 \in 1..Len(sent)
    BY <1>2, TakeIsNext DEF LInv
  <2>2. DOMAIN sent = 1..Len(sent)
    BY DEF LInv, Wire
  <2>3. Head(channel) = n + 1
    <3>1. Len(channel) \in Nat \ {0}
      BY <1>3, EmptySeq
    <3>2. channel[1] = n + 1
      BY <1>2, <3>1 DEF Taken
    <3> QED
      BY <1>3, <3>2, HeadTailProperties
  <2> QED
    BY <2>1, <2>2, <2>3 DEF Garbled
<1>5. PICK h \in Nat : h = Head(channel)
  BY <1>4
<1>6. PICK a \in Seq(Nat) : a = answers
  BY DEF Rendered
<1>7. PICK x \in Seq(Nat) : x = Sound(channel')
  BY <1>3, HeadTailProperties, WithoutIs DEF Sound
<1>8. Sound(channel) = (IF h \in Garbled THEN <<>> ELSE <<h>>) \o x
  BY <1>3, <1>5, <1>7, WithoutOfTail DEF Sound
<1>9. answers' = IF h \in Garbled THEN a ELSE Append(a, h)
  BY <1>4, <1>5, <1>6 DEF Respond
<1>10. answers' \in Seq(Nat)
  BY <1>9, AppendProperties
<1>11. answers' \o x = a \o Sound(channel)
  <2>1. CASE h \in Garbled
    BY <1>8, <1>9, <2>1, ConcatEmptySeq
  <2>2. CASE h \notin Garbled
    <3>1. <<h>> \in Seq(Nat) /\ Append(a, h) = a \o <<h>>
      BY AppendIsConcat
    <3>2. (a \o <<h>>) \o x = a \o (<<h>> \o x)
      BY <3>1, ConcatAssociative
    <3> QED
      BY <1>8, <1>9, <2>2, <3>1, <3>2
  <2> QED
    BY <2>1, <2>2
<1>12. Garbled' = Garbled
  BY <1>1 DEF Garbled
<1>13. ASSUME NEW m \in Nat, fed' = 2 * m + Len(buf')
       PROVE  answers' \o Sound(channel)' = Sound(Numbered(m))'
  <2>1. answers \o Sound(channel) = Sound(Numbered(m))
    BY <1>1, <1>13 DEF Rendered
  <2>2. answers' \o Sound(channel') = Sound(Numbered(m))
    BY <1>6, <1>7, <1>11, <2>1
  <2> QED
    BY <1>12, <2>2 DEF Sound, Numbered
<1> QED
  BY <1>10, <1>13 DEF Rendered

(* Every step keeps the answers in order.                                    *)
LEMMA NextRendered == LInv /\ Rendered /\ [Next]_vars => Rendered'
<1> SUFFICES ASSUME LInv, Rendered, [Next]_vars
             PROVE  Rendered'
  OBVIOUS
<1>1. CASE Ask
  <2>1. UNCHANGED <<answers, channel, fed, buf>>
    BY <1>1 DEF Ask, wireVars
  <2>2. PICK ask \in Asks : sent' = Append(sent, ask)
    BY <1>1 DEF Ask
  <2>3. \A i \in DOMAIN sent : i \in DOMAIN sent' /\ sent'[i] = sent[i]
    <3>1. sent \in Seq(Asks) /\ Len(sent) \in Nat
      BY DEF LInv, Wire
    <3> QED
      BY <2>2, <3>1, AppendProperties
  <2> QED
    BY <2>1, <2>3, StillRendered
<1>2. CASE Pump
  <2>1. UNCHANGED <<answers, channel, sent>>
    BY <1>2 DEF Pump
  <2>2. PICK n \in fed + 1..2 * Len(sent) :
           fed' = n /\ buf' = buf \o [k \in 1..n - fed |-> HalfAt(fed + k)]
    BY <1>2 DEF Pump
  <2>3. fed \in Nat /\ n \in Nat /\ n - fed \in Nat /\ buf \in Seq(Half) /\ Len(buf) \in Nat
    BY <2>2 DEF LInv, Wire
  <2>4. Len(buf') = Len(buf) + (n - fed)
    <3>1. PICK d \in Nat : d = n - fed
      BY <2>3
    <3>2. PICK s \in Seq(Half) : s = [k \in 1..d |-> HalfAt(fed + k)] /\ Len(s) = d
      <4>1. \A k \in 1..d : HalfAt(fed + k) \in Half
        BY <2>3 DEF HalfAt, Half
      <4>2. PICK s : s = [k \in 1..d |-> HalfAt(fed + k)]
        OBVIOUS
      <4>3. s \in [1..d -> Half]
        BY <4>1, <4>2
      <4>4. s \in Seq(Half) /\ Len(s) = d
        BY <4>3
      <4> QED
        BY <4>2, <4>4
    <3>3. buf' = buf \o s
      BY <2>2, <3>1, <3>2
    <3> QED
      BY <2>3, <3>1, <3>2, <3>3, ConcatProperties
  <2>5. \A m \in Nat : fed' = 2 * m + Len(buf') => fed = 2 * m + Len(buf)
    <3>1. PICK b \in Nat : b = Len(buf)
      BY <2>3
    <3>2. PICK c : c = Len(buf')
      OBVIOUS
    <3>3. c = b + (n - fed) /\ fed' = n
      BY <2>2, <2>4, <3>1, <3>2
    <3> QED
      BY <2>3, <3>1, <3>2, <3>3
  <2> QED
    BY <2>1, <2>5, StillRendered
<1>3. CASE NextFrame
  BY <1>3, CutRendered
<1>4. CASE UNCHANGED <<answers, channel, sent, fed, buf>>
  BY <1>4, StillRendered
<1>5. CASE Setup \/ BeforeInstruction \/ Serve
  <2>1. UNCHANGED <<sent, wireVars>>
    BY <1>5 DEF Setup, BeforeInstruction, Serve
  <2>2. \/ Take /\ (IF Request.do = "garbled" THEN UNCHANGED answers ELSE Respond)
        \/ UNCHANGED <<channel, answers>>
    BY <1>5 DEF Setup, BeforeInstruction, Serve
  <2> QED
    BY <1>4, <2>1, <2>2, TakenRendered DEF wireVars
<1>6. CASE Leave \/ PumpEnd \/ Execute \/ UNCHANGED vars
  BY <1>4, <1>6 DEF Leave, PumpEnd, Execute, vars, wireVars
<1> QED
  BY <1>1, <1>2, <1>3, <1>5, <1>6 DEF Next

(* Where an instruction within its frame goes.                               *)
LEMMA AdvanceMoves ==
    ASSUME Advance
    PROVE  \E pc \in {stack[Top].pc + 1} \cup (IF Here.op = "jump" THEN {Here.to} ELSE {}) :
              stack' = [stack EXCEPT ![Top] = [@ EXCEPT !.pc = pc, !.at = pc]]
<1>1. PICK pc \in {stack[Top].pc + 1} \cup (IF Here.op = "jump" THEN {Here.to} ELSE {}) :
         /\ stack' = [stack EXCEPT ![Top] = [@ EXCEPT !.pc = pc, !.at = pc]]
         /\ stood' = (stood /\ pc > stack[Top].pc /\ Text(Top)[pc].line = Here.line)
  BY DEF Advance
<1> QED
  BY <1>1

(* The bounds, at each step.                                                 *)
LEMMA NextBounds == PInv /\ LInv /\ Bounds /\ [Next]_vars => Bounds'
<1> SUFFICES ASSUME PInv, LInv, Bounds, [Next]_vars
             PROVE  Bounds'
  OBVIOUS
<1>1. sent \in Seq(Asks) /\ Len(sent) \in Nat /\ MaxAsks \in Nat
  BY DebugAssumption DEF LInv, Wire
<1>2. Calls
  BY DEF PInv
<1>3. /\ Top \in Nat \ {0} /\ stack[Top] \in Frame /\ stack[Top].pc \in DOMAIN Text(Top)
      /\ WellFormed(Text(Top), stack[Top].pc)
      /\ MaxDepth \in Nat
  BY <1>2, TopIsAtCode, DebugAssumption
<1>4. CASE Execute
  <2>1. UNCHANGED <<sent, open, reader>>
    BY <1>4 DEF Execute, wireVars
  <2> PICK n \in Nat \ {0} : n = Top
    BY <1>3
  <2>2. /\ stack \in Seq(Frame) /\ Len(stack) = n /\ n <= MaxDepth
        /\ \A i \in 1..n : stack[i] \in Frame /\ stack[i].pc \in DOMAIN Text(i)
        /\ \A i \in 1..n : stack[i].at \in DOMAIN Text(i)
    BY <1>2, ElementOfSeq DEF Calls, Bounds, Top
  <2>3. CASE Advance
    <3>1. PICK pc \in {stack[Top].pc + 1} \cup (IF Here.op = "jump" THEN {Here.to} ELSE {}) :
             stack' = [stack EXCEPT ![Top] = [@ EXCEPT !.pc = pc, !.at = pc]]
      BY <2>3, AdvanceMoves
    <3>2. pc \in DOMAIN Text(Top)
      BY <1>3, <2>3, <3>1 DEF Advance, WellFormed, Here
    <3> DEFINE moved == [stack[Top] EXCEPT !.pc = pc, !.at = pc]
    <3>3. moved.at = pc /\ moved.routine = stack[Top].routine
      BY <1>3 DEF Frame
    <3>4. stack' = [stack EXCEPT ![Top] = moved]
      BY <3>1
    <3> HIDE DEF moved
    <3>5. /\ Len(stack') = n /\ stack'[n] = moved
          /\ \A i \in 1..n : i # n => stack'[i] = stack[i]
      BY <2>2, <3>4
    <3>6. \A i \in 1..Top' : stack'[i].at \in DOMAIN Text(i)'
      BY <2>2, <3>2, <3>3, <3>5 DEF Text, Top
    <3> QED
      BY <2>1, <2>2, <2>3, <3>5, <3>6 DEF Bounds, Top, Advance
  <2>4. CASE Enter
    <3>1. CASE n = MaxDepth
      BY <2>1, <2>4, <3>1 DEF Bounds, Enter, Top, Text
    <3>2. CASE n # MaxDepth
      <4> DEFINE called == [stack EXCEPT ![n].pc = IF Here.op = "call" THEN @ + 1 ELSE @]
      <4>1. /\ called \in Seq(Frame) /\ Len(called) = n
            /\ \A i \in 1..n : called[i].at = stack[i].at /\ called[i].routine = stack[i].routine
        BY <2>2 DEF Frame
      <4>2. stack' = Append(called, [routine |-> Here.to, pc |-> 1, at |-> 1])
        BY <2>4, <3>2 DEF Enter
      <4> HIDE DEF called
      <4>3. Here.to \in DOMAIN Code /\ 1 \in DOMAIN Code[Here.to].text
        BY <1>3, <2>4, DebugAssumption, SMT DEF Enter, WellFormed, Here
      <4>4. /\ Len(stack') = n + 1
            /\ stack'[n + 1] = [routine |-> Here.to, pc |-> 1, at |-> 1]
            /\ \A i \in 1..n : stack'[i].at = stack[i].at /\ stack'[i].routine = stack[i].routine
        BY <4>1, <4>2
      <4>5. \A i \in 1..n + 1 : stack'[i].at \in DOMAIN Text(i)'
        BY <2>2, <4>3, <4>4 DEF Text
      <4> QED
        BY <1>3, <2>1, <2>2, <2>4, <3>2, <4>4, <4>5 DEF Bounds, Enter, Top
    <3> QED
      BY <3>1, <3>2
  <2>5. CASE Return
    <3>1. stack[n].routine \in DOMAIN Code
      BY <2>2 DEF Frame
    <3>2. ready' \subseteq DOMAIN Code
      BY <2>5, <3>1 DEF Return, Bounds
    <3>3. CASE n = 1
      BY <2>1, <2>5, <3>2, <3>3 DEF Bounds, Return, Top, Text
    <3>4. CASE n # 1
      <4>1. stack' = [i \in 1..n - 1 |-> IF i = n - 1 THEN [stack[i] EXCEPT !.at = stack[i].pc]
                                                      ELSE stack[i]]
        BY <2>5, <3>4 DEF Return
      <4>2. Len(stack') = n - 1
        <5> PICK k \in Nat : k = n - 1
          BY <3>4
        <5>1. stack' = [i \in 1..k |-> stack'[i]]
          BY <4>1
        <5> QED
          BY <5>1
      <4>3. \A i \in 1..n - 1 :
               /\ stack'[i].routine = stack[i].routine
               /\ stack'[i].at = IF i = n - 1 THEN stack[i].pc ELSE stack[i].at
        BY <2>2, <4>1 DEF Frame
      <4>4. \A i \in 1..n - 1 : stack'[i].at \in DOMAIN Text(i)'
        BY <2>2, <4>3 DEF Text
      <4>5. n - 1 <= MaxDepth
        BY <1>3, <2>2
      <4>6. Top' = n - 1
        BY <4>2 DEF Top
      <4> QED
        BY <2>1, <3>2, <4>4, <4>5, <4>6 DEF Bounds
    <3> QED
      BY <3>3, <3>4
  <2> QED
    BY <1>4, <2>3, <2>4, <2>5 DEF Execute
<1>5. CASE Ask
  <2>1. Len(sent') = Len(sent) + 1 /\ Len(sent) < MaxAsks
    BY <1>1, <1>5, AppendProperties DEF Ask
  <2> QED
    BY <1>1, <1>5, <2>1 DEF Bounds, Ask, wireVars, runVars, Top, Text
<1>6. CASE Leave \/ Pump \/ PumpEnd \/ NextFrame
  BY <1>6 DEF Bounds, Leave, Pump, PumpEnd, NextFrame, wireVars, runVars, Top, Text
<1>7. CASE Setup \/ BeforeInstruction \/ Serve
  BY <1>7 DEF Bounds, Setup, BeforeInstruction, Serve, wireVars, runVars, Top, Text
<1>8. CASE UNCHANGED vars
  BY <1>8 DEF Bounds, vars, wireVars, runVars, Top, Text
<1> QED
  BY <1>4, <1>5, <1>6, <1>7, <1>8 DEF Next

(* At the beginning nothing is asked, and the run is at its first            *)
(* instruction.                                                              *)
LEMMA InitAnswers == Init => Rendered /\ Bounds
<1> SUFFICES ASSUME Init
             PROVE  Rendered /\ Bounds
  OBVIOUS
<1>1. answers = <<>> /\ channel = <<>> /\ Len(buf) = 0 /\ fed = 0 /\ Len(sent) = 0
  BY EmptySeq DEF Init
<1>2. ASSUME NEW m \in Nat, fed = 2 * m + Len(buf)
      PROVE  answers \o Sound(channel) = Sound(Numbered(m))
  <2>1. m = 0
    BY <1>1, <1>2
  <2>2. Numbered(m) = <<>>
    BY <2>1 DEF Numbered
  <2>3. Sound(<<>>) = <<>>
    BY WithoutOfNone DEF Sound
  <2> QED
    BY <1>1, <2>2, <2>3
<1>3. Rendered
  BY <1>1, <1>2, EmptySeq DEF Rendered
<1>4. Len(stack) = 1 /\ stack[1].at = 1 /\ stack[1].routine = Main
  BY DEF Init
<1>5. Bounds
  BY <1>1, <1>4, DebugAssumption DEF Init, Bounds, Top, Text
<1> QED
  BY <1>3, <1>5

-----------------------------------------------------------------------------
(* What the invariants say of requests.                                      *)

(* The types of the state.                                                   *)
LEMMA TypesHold == PInv /\ LInv /\ Bounds => TypeOK
<1> SUFFICES ASSUME PInv, LInv, Bounds
             PROVE  TypeOK
  OBVIOUS
<1>1. points \subseteq Nat /\ shown \subseteq Nat
  <2>1. \A l \in points : l \in Nat /\ l # 0
    BY DebugAssumption DEF LInv, Lines, Executable, WellFormed
  <2>2. \A l \in points : ToClient(l) \in Nat
    BY <2>1 DEF ToClient
  <2> QED
    BY <2>1, <2>2 DEF LInv, Lines
<1>2. \A i \in 1..Top : stack[i].routine \in DOMAIN Code
  <2>1. \A i \in 1..Len(stack) : stack[i] \in Frame
    BY DEF PInv, Calls
  <2> QED
    BY <2>1 DEF Top, Frame
<1>3. Top \in 1..MaxDepth
  BY TopIsAtCode, DebugAssumption DEF PInv, Bounds
<1> QED
  BY <1>1, <1>2, <1>3 DEF TypeOK, Bounds, PInv, Passes, LInv, Lines, Wire

(* wire.rs: however reads tear and glue the frames, each sound request is    *)
(* answered at most once, in the order of the requests, and those not yet    *)
(* answered are all on their way, in order.                                  *)
THEOREM RequestsAreKept == Spec => []NothingIsLost
<1>1. ASSUME PInv, LInv, Rendered, Bounds
      PROVE  NothingIsLost
  <2>1. PICK n \in Nat : Taken(n)
    BY <1>1 DEF LInv, Wire
  <2>2. PICK c \in Nat : c = n + Len(channel)
    BY <1>1 DEF LInv, Wire
  <2>3. PICK b \in Nat : b = Len(buf)
    BY <1>1 DEF LInv, Wire
  <2>4. fed = 2 * c + b /\ \A k \in 1..b : buf[k] = HalfAt(2 * c + k)
    BY <2>1, <2>2, <2>3 DEF Taken
  <2>5. (fed - Len(buf)) \div 2 = c /\ fed - 2 * c = b
    BY <2>3, <2>4
  <2>6. buf = [k \in 1..b |-> HalfAt(2 * c + k)]
    <3>1. DOMAIN buf = 1..b /\ buf = [k \in DOMAIN buf |-> buf[k]]
      BY <1>1, <2>3 DEF LInv, Wire
    <3> QED
      BY <2>4, <3>1
  <2>7. answers \o Sound(channel) = Sound(Numbered(c))
    BY <1>1, <2>3, <2>4 DEF Rendered
  <2> QED
    BY <1>1, <2>5, <2>6, <2>7, TypesHold DEF NothingIsLost
<1> QED
  BY <1>1, InitPInv, NextPInv, InitLInv, NextLInv, InitAnswers, NextRendered, NextBounds,
     PTL DEF Spec

-----------------------------------------------------------------------------
(* What the invariant says of frames and stops.                              *)

(* FrameValues::line_of: while the run stands, each frame shows the line of  *)
(* the instruction it is in, calls and waits for a module body included.     *)
THEOREM FramesShowTheirLines == Spec => []FramesShowTheirCalls
<1>1. PInv => FramesShowTheirCalls
  BY CallerShowsItsCall DEF PInv, FramesShowTheirCalls, Top
<1> QED
  BY <1>1, InitPInv, NextPInv, PTL DEF Spec

(* Hook::before_instruction: a run that does not step stops once each time   *)
(* control comes to a line with a breakpoint.                                *)
THEOREM StopsAreExact == Spec => StopsOncePerPass
<1> DEFINE Stopping ==
      (phase = "hook" /\ phase' # "hook" /\ mode.kind = "run" /\ LineOf(Top) \in points) =>
          IF stood THEN phase' = "exec" \/ channel' # channel
                   ELSE phase' = "stopped" /\ channel' = channel
<1>1. ASSUME PInv, Lines, [Next]_vars
      PROVE  [Stopping]_vars
  <2> SUFFICES ASSUME phase = "hook", phase' # "hook", mode.kind = "run", LineOf(Top) \in points
               PROVE  IF stood THEN phase' = "exec" \/ channel' # channel
                               ELSE phase' = "stopped" /\ channel' = channel
    OBVIOUS
  <2>1. BeforeInstruction
    BY <1>1 DEF Next, vars, Ask, Leave, Pump, PumpEnd, NextFrame, Setup, Serve, Execute
  <2>2. HasLine
    BY <1>1 DEF Lines, Executable, HasLine
  <2>3. stood <=> ~ReEntered
    BY <1>1, <2>2 DEF PInv, Passes
  <2>4. Stops <=> ReEntered
    BY <2>2 DEF Stops
  <2>5. CASE Stops
    BY <2>1, <2>3, <2>4, <2>5 DEF BeforeInstruction, Stand
  <2>6. CASE ~Stops
    BY <2>1, <2>2, <2>3, <2>4, <2>6 DEF BeforeInstruction, GoOn, Stand, Take
  <2> QED
    BY <2>5, <2>6
<1>2. PInv /\ LInv => Lines
  BY DEF LInv
<1> QED
  BY <1>1, <1>2, InitPInv, NextPInv, InitLInv, NextLInv, PTL DEF Spec, StopsOncePerPass, Stopping

(* hook.rs resolve: the lines confirmed to the editor, read in the editor's  *)
(* numbers, are the lines the hook compares with, and have code.             *)
THEOREM ConfirmedLinesAreCompared == Spec => []ConfirmedIsCompared
<1>1. ASSUME LInv
      PROVE  ConfirmedIsCompared
  <2> DEFINE own == IF Wrote("initialize") THEN sent[1].base ELSE 1
  <2>1. CASE points = {}
    BY <1>1, <2>1 DEF LInv, Lines, ConfirmedIsCompared
  <2>2. CASE points # {}
    <3>1. Introduced
      BY <1>1, <2>2 DEF LInv, Wire
    <3>2. own = base /\ base \in {0, 1}
      <4>1. 1 \in DOMAIN sent
        BY <1>1, <3>1, EmptySeq DEF LInv, Wire, Introduced
      <4> QED
        BY <1>1, <3>1, <4>1 DEF LInv, Lines, Introduced, Wrote
    <3>3. \A l \in points : l \in Nat
      BY <1>1, DebugAssumption DEF LInv, Lines, Executable, WellFormed
    <3>4. \A l \in points : ToClient(l) + 1 - base = l
      BY <3>2, <3>3 DEF ToClient
    <3> HIDE DEF own
    <3>5. points = {l + 1 - own : l \in shown}
      BY <1>1, <3>2, <3>4 DEF LInv, Lines
    <3> QED
      BY <1>1, <3>5 DEF own, LInv, Lines, ConfirmedIsCompared
  <2> QED
    BY <2>1, <2>2
<1> QED
  BY <1>1, InitLInv, NextLInv, PTL DEF Spec
=============================================================================
