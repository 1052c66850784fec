---------------------------- MODULE DebugAdapter ----------------------------
(* The debug adapter of the command line (bsl-cli/src/dap, main.rs): an      *)
(* editor that writes requests to a socket, the thread that cuts the stream  *)
(* into frames (wire.rs, session.rs), and the run, whose hook (hook.rs) is   *)
(* called before each instruction, decides whether to stop and, while the    *)
(* run stands, serves the requests.  A frame is a header and a body, which   *)
(* reads may tear and glue.  The run is one stack of routines: the fragments *)
(* of dynamic code, which the hook does not enter, and other async tasks are *)
(* left out.                                                                 *)
EXTENDS Integers, Sequences, Collections

CONSTANTS
    Code,      \* routine -> [own, body, text]: in the script's file, a module's body, instructions
    Main,      \* the routine of the script
    Asks,      \* what the editor may write: records with do, and lines or base
    MaxAsks,   \* frames the editor writes (bound)
    MaxDepth   \* frames of the run (bound)

(* An instruction has a line, an op ("plain", "jump", "call", "touch",       *)
(* "return") and, in to, the target of the jump or the routine it enters.    *)
(* The end of a routine, where it returns implicitly, stands as its last     *)
(* instruction, a return without a line (0).  Calls enter routines of a      *)
(* script, and the first touch of a module enters its body.                  *)
WellFormed(text, i) ==
    LET op == text[i].op
        to == text[i].to
    IN /\ text[i].line \in Nat /\ (text[i].line = 0 => op = "return")
       /\ op \in {"plain", "jump", "call", "touch", "return"}
       /\ op # "return" => i + 1 \in DOMAIN text
       /\ op = "jump" => to \in DOMAIN text
       /\ op \in {"call", "touch"} => /\ to \in DOMAIN Code
                                      /\ Code[to].body <=> op = "touch"

ASSUME DebugAssumption ==
    /\ Main \in DOMAIN Code /\ Code[Main].own /\ ~Code[Main].body
    /\ \A r \in DOMAIN Code :
          /\ Code[r].body \in BOOLEAN
          /\ DOMAIN Code[r].text \subseteq Nat /\ 1 \in DOMAIN Code[r].text
          /\ \A i \in DOMAIN Code[r].text : WellFormed(Code[r].text, i)
    /\ \A ask \in Asks : ask.do = "initialize" => ask.base \in {0, 1}
    /\ MaxAsks \in Nat /\ MaxDepth \in Nat \ {0}

VARIABLES
    sent,      \* requests the editor has written, in order
    open,      \* the editor holds its end of the socket
    fed,       \* halves of frames the reader has taken from the socket
    buf,       \* FrameReader: halves not yet made into frames
    reader,    \* the thread: "pump", "frames", "gone"
    channel,   \* frames on their way to the run, as positions in sent
    answers,   \* positions of the requests answered, in the order of the answers
    base,      \* number of the editor's first line: 1 or 0
    points,    \* breakpoints, as the hook compares them
    shown,     \* lines the editor takes for confirmed, in its own numbers
    phase,     \* "setup", "hook", "exec", "stopped", "over"
    mode,      \* Mode of the hook
    last,      \* position at the last call of the hook
    once,      \* stopped_once
    stack,     \* frames of the run: routine, pc, and the instruction they are at
    ready,     \* modules whose body has run
    stood,     \* for the properties: the run has stood since control came to this line
    origin     \* for the properties: where the run stood last

wireVars == <<fed, buf, reader>>
hookVars == <<points, base, shown, mode, last, once, origin>>
runVars == <<stack, ready, stood>>
vars == <<sent, open, wireVars, channel, answers, hookVars, phase, runVars>>

Running == phase \in {"hook", "exec"}

-----------------------------------------------------------------------------
(* The run.                                                                  *)

Top == Len(stack)
Text(i) == Code[stack[i].routine].text
Here == Text(Top)[stack[Top].pc]

(* Mutant: each caller shows the instruction before its pc.                  *)
LineOfPrevious(i) == Text(i)[IF i = Top THEN stack[i].pc ELSE stack[i].pc - 1].line

(* FrameValues::line_of: the caller's pc is past its call, unless the frame  *)
(* above is the body of a module that its instruction waits for.             *)
Initializing(i) == i < Top /\ Code[stack[i + 1].routine].body
LineOf(i) == Text(i)[IF i = Top \/ Initializing(i) THEN stack[i].pc ELSE stack[i].pc - 1].line

(* A routine without instructions; a call of one does not leave the line.    *)
Empty(r) == Code[r].text[1].line = 0

(* One instruction.  The run ends with its last frame, or with an error when *)
(* the stack is full (bound).                                                *)
Advance ==
    /\ Here.op \in {"plain", "jump"} \/ (Here.op = "touch" /\ Here.to \in ready)
    /\ \E pc \in {stack[Top].pc + 1} \cup (IF Here.op = "jump" THEN {Here.to} ELSE {}) :
          /\ stack' = [stack EXCEPT ![Top] = [@ EXCEPT !.pc = pc, !.at = pc]]
          /\ stood' = (stood /\ pc > stack[Top].pc /\ Text(Top)[pc].line = Here.line)
    /\ phase' = "hook" /\ UNCHANGED ready
Enter ==
    /\ Here.op = "call" \/ (Here.op = "touch" /\ Here.to \notin ready)
    /\ stood' = (stood /\ Here.op = "call" /\ Empty(Here.to)) /\ UNCHANGED ready
    /\ IF Top = MaxDepth
       THEN phase' = "over" /\ UNCHANGED stack
       ELSE /\ phase' = "hook"
            /\ stack' = Append([stack EXCEPT ![Top].pc = IF Here.op = "call" THEN @ + 1 ELSE @],
                               [routine |-> Here.to, pc |-> 1, at |-> 1])
Return ==
    /\ Here.op = "return"
    /\ ready' = ready \cup {r \in {stack[Top].routine} : Code[r].body}
    /\ IF Top = 1
       THEN phase' = "over" /\ UNCHANGED <<stack, stood>>
       ELSE /\ phase' = "hook"
            /\ stood' = (/\ stood /\ Empty(stack[Top].routine)
                         /\ LineOf(Top - 1) = Text(Top - 1)[stack[Top - 1].pc].line)
            /\ stack' = [i \in 1..Top - 1 |-> IF i = Top - 1 THEN [stack[i] EXCEPT !.at = stack[i].pc]
                                                             ELSE stack[i]]
Execute ==
    /\ phase = "exec"
    /\ Advance \/ Enter \/ Return
    /\ UNCHANGED <<sent, open, wireVars, channel, answers, hookVars>>

-----------------------------------------------------------------------------
(* The editor introduces itself, sets breakpoints and lets the script go,    *)
(* then asks as it likes, without waiting for the answers.                   *)

Greeting == <<"initialize", "setBreakpoints", "configurationDone">>
Wrote(do) == \E i \in DOMAIN sent : sent[i].do = do
Proper(ask) ==
    LET n == Len(sent) + 1 IN
    /\ n \in DOMAIN Greeting => ask.do \in {Greeting[n], "disconnect", "garbled"}
    /\ n \notin DOMAIN Greeting => ask.do \notin {"initialize", "configurationDone"}

Ask ==
    /\ open /\ Len(sent) < MaxAsks
    /\ \E ask \in Asks : Proper(ask) /\ sent' = Append(sent, ask)
    /\ UNCHANGED <<open, wireVars, channel, answers, hookVars, phase, runVars>>

Leave ==
    /\ open /\ open' = FALSE
    /\ UNCHANGED <<sent, wireVars, channel, answers, hookVars, phase, runVars>>

-----------------------------------------------------------------------------
(* The reader thread.                                                        *)

HalfAt(k) == [of |-> (k + 1) \div 2, part |-> IF k % 2 = 1 THEN "head" ELSE "body"]

(* pump: a read brings some of what was written, and nothing when the editor *)
(* has left.                                                                 *)
Pump ==
    /\ reader = "pump" /\ fed < 2 * Len(sent)
    /\ \E n \in fed + 1..2 * Len(sent) :
          /\ fed' = n
          /\ buf' = buf \o [k \in 1..n - fed |-> HalfAt(fed + k)]
    /\ reader' = "frames"
    /\ UNCHANGED <<sent, open, channel, answers, hookVars, phase, runVars>>
PumpEnd ==
    /\ reader = "pump" /\ fed = 2 * Len(sent) /\ ~open
    /\ reader' = "gone"
    /\ UNCHANGED <<sent, open, fed, buf, channel, answers, hookVars, phase, runVars>>

(* Mutant: what came behind a frame is thrown away with it.                  *)
NextFrameForgets ==
    /\ reader = "frames"
    /\ IF buf # <<>> /\ sent[buf[1].of].do = "broken"
       THEN reader' = "gone" /\ UNCHANGED <<buf, channel>>
       ELSE IF Len(buf) < 2
       THEN reader' = "pump" /\ UNCHANGED <<buf, channel>>
       ELSE buf' = <<>> /\ channel' = Append(channel, buf[1].of) /\ UNCHANGED reader
    /\ UNCHANGED <<sent, open, fed, answers, hookVars, phase, runVars>>

(* FrameReader::next_frame: a header without a length ends the thread.       *)
NextFrame ==
    /\ reader = "frames"
    /\ IF buf # <<>> /\ sent[buf[1].of].do = "broken"
       THEN reader' = "gone" /\ UNCHANGED <<buf, channel>>
       ELSE IF Len(buf) < 2
       THEN reader' = "pump" /\ UNCHANGED <<buf, channel>>
       ELSE /\ buf' = SubSeq(buf, 3, Len(buf))
            /\ channel' = Append(channel, buf[1].of)
            /\ UNCHANGED reader
    /\ UNCHANGED <<sent, open, fed, answers, hookVars, phase, runVars>>

-----------------------------------------------------------------------------
(* Breakpoints.                                                              *)

Executable == {l \in UNION {{Code[r].text[i].line : i \in DOMAIN Code[r].text} :
                               r \in {r \in DOMAIN Code : Code[r].own}} : l # 0}
ToInternal(line) == IF base = 1 THEN line ELSE line + 1
ToClient(line) == IF base = 1 THEN line ELSE line - 1
Nearest(line) == {e \in Executable : e >= line /\ \A f \in Executable : f >= line => e <= f}
Resolved(lines) == UNION {Nearest(ToInternal(l)) : l \in lines}

(* Mutant: the lines asked are stored, those found are confirmed.            *)
SetBreakpointsAsAsked(lines) ==
    /\ points' = {ToInternal(l) : l \in lines}
    /\ shown' = {ToClient(l) : l \in Resolved(lines)}
SetBreakpoints(lines) ==
    /\ points' = Resolved(lines)
    /\ shown' = {ToClient(l) : l \in Resolved(lines)}

-----------------------------------------------------------------------------
(* Requests served by the run.                                               *)

Request == sent[Head(channel)]
Take == channel # <<>> /\ channel' = Tail(channel)
Respond == answers' = Append(answers, Head(channel))
LineLost == channel = <<>> /\ reader = "gone"   \* recv fails: the thread dropped its end

(* The loop of main.rs before the run; handle_setup.                         *)
Setup ==
    /\ phase = "setup"
    /\ UNCHANGED <<sent, open, wireVars, mode, last, once, origin, runVars>>
    /\ \/ /\ LineLost
          /\ phase' = "over" /\ UNCHANGED <<channel, answers, points, base, shown>>
       \/ /\ Take
          /\ IF Request.do = "garbled"
             THEN phase' = "over" /\ UNCHANGED <<answers, points, base, shown>>
             ELSE /\ Respond
                  /\ IF Request.do = "initialize"
                     THEN base' = Request.base ELSE UNCHANGED base
                  /\ IF Request.do = "setBreakpoints"
                     THEN SetBreakpoints(Request.lines) ELSE UNCHANGED <<points, shown>>
                  /\ phase' = CASE Request.do = "configurationDone" -> "hook"
                                [] Request.do = "disconnect" -> "over"
                                [] OTHER -> "setup"

(* Hook::before_instruction                                                  *)
Position == [line |-> LineOf(Top), depth |-> Top, pc |-> stack[Top].pc]
NoPosition == [line |-> 0, depth |-> 0, pc |-> 0]
Changed == last.line # LineOf(Top)
(* Mutant: a jump forward counts too.                                        *)
ReEnteredByAnyJump ==
    last = NoPosition \/ Changed \/ last.depth # Top \/ stack[Top].pc # last.pc + 1
ReEntered == last = NoPosition \/ Changed \/ last.depth # Top \/ stack[Top].pc <= last.pc
HasLine == LineOf(Top) # 0
Stops ==
    /\ HasLine
    /\ CASE mode.kind = "run"  -> ReEntered /\ LineOf(Top) \in points
         [] mode.kind = "in"   -> Changed \/ ~once
         [] mode.kind = "over" -> Changed /\ Top <= mode.depth
         [] mode.kind = "out"  -> Top < mode.depth

Stand == phase' = "stopped" /\ stood' = TRUE /\ origin' = Position
GoOn == phase' = "exec" /\ UNCHANGED <<stood, origin>>
Remember == last' = IF HasLine THEN Position ELSE last

(* Mutant: what is not a pause is dropped without an answer.                 *)
BeforeInstructionDropsOthers ==
    /\ phase = "hook"
    /\ Remember
    /\ UNCHANGED <<sent, open, wireVars, points, base, shown, mode, stack, ready>>
    /\ \/ /\ Stops
          /\ Stand /\ once' = TRUE
          /\ UNCHANGED <<channel, answers>>
       \/ /\ ~Stops /\ (channel = <<>> \/ ~HasLine)
          /\ GoOn /\ UNCHANGED <<channel, answers, once>>
       \/ /\ ~Stops /\ HasLine /\ Take
          /\ UNCHANGED once
          /\ IF Request.do = "pause" THEN Respond /\ Stand ELSE GoOn /\ UNCHANGED answers

BeforeInstruction ==
    /\ phase = "hook"
    /\ Remember
    /\ UNCHANGED <<sent, open, wireVars, points, base, shown, mode, stack, ready>>
    /\ \/ /\ Stops
          /\ Stand /\ once' = TRUE
          /\ UNCHANGED <<channel, answers>>
       \/ /\ ~Stops /\ (channel = <<>> \/ ~HasLine)
          /\ GoOn /\ UNCHANGED <<channel, answers, once>>
       \/ /\ ~Stops /\ HasLine /\ Take                     \* paused_by_request
          /\ UNCHANGED once
          /\ IF Request.do = "garbled" THEN UNCHANGED answers ELSE Respond
          /\ IF Request.do = "pause" THEN Stand ELSE GoOn

(* Hook::stop_and_wait; what is not named here is refused or only looks.     *)
ModeAfter ==
    CASE Request.do = "stepIn"  -> [kind |-> "in", depth |-> 0]
      [] Request.do = "next"    -> [kind |-> "over", depth |-> Top]
      [] Request.do = "stepOut" -> [kind |-> "out", depth |-> Top]
      [] OTHER                  -> [kind |-> "run", depth |-> 0]
Serve ==
    /\ phase = "stopped"
    /\ UNCHANGED <<sent, open, wireVars, base, last, once, origin, runVars>>
    /\ \/ /\ LineLost
          /\ phase' = "over" /\ UNCHANGED <<channel, answers, points, shown, mode>>
       \/ /\ Take
          /\ IF Request.do = "garbled" THEN UNCHANGED answers ELSE Respond
          /\ IF Request.do = "setBreakpoints"
             THEN SetBreakpoints(Request.lines) ELSE UNCHANGED <<points, shown>>
          /\ LET resumes == Request.do \in {"continue", "next", "stepIn", "stepOut"} IN
             /\ mode' = IF resumes THEN ModeAfter ELSE mode
             /\ phase' = IF resumes THEN "exec"
                         ELSE IF Request.do \in {"garbled", "disconnect"} THEN "over" ELSE "stopped"

-----------------------------------------------------------------------------

Init ==
    /\ sent = <<>> /\ open = TRUE
    /\ fed = 0 /\ buf = <<>> /\ reader = "pump"
    /\ channel = <<>> /\ answers = <<>>
    /\ base = 1 /\ points = {} /\ shown = {}
    /\ phase = "setup"
    /\ mode = [kind |-> "run", depth |-> 0] /\ last = NoPosition /\ once = FALSE
    /\ stack = <<[routine |-> Main, pc |-> 1, at |-> 1]>>
    /\ ready = {} /\ stood = FALSE /\ origin = NoPosition

Next ==
    \/ Ask \/ Leave
    \/ Pump \/ PumpEnd \/ NextFrame
    \/ Setup \/ BeforeInstruction \/ Serve \/ Execute

Spec == Init /\ [][Next]_vars

(* The thread and the run go on while they can; the editor owes nothing.     *)
FairSpec ==
    /\ Spec
    /\ WF_vars(Pump \/ PumpEnd \/ NextFrame)
    /\ WF_vars(Setup \/ BeforeInstruction \/ Serve \/ Execute)

-----------------------------------------------------------------------------
(* Properties.                                                               *)

Numbered(k) == [i \in 1..k |-> i]
Garbled == {i \in DOMAIN sent : sent[i].do = "garbled"}
Sound(asks) == Without(asks, Garbled)
Answered(i) == \E k \in DOMAIN answers : answers[k] = i
Is(i, do) == i \in DOMAIN sent /\ sent[i].do = do

TypeOK ==
    /\ Len(sent) <= MaxAsks /\ fed \in 0..2 * Len(sent) /\ open \in BOOLEAN
    /\ reader \in {"pump", "frames", "gone"}
    /\ base \in {0, 1} /\ points \subseteq Nat /\ shown \subseteq Nat
    /\ phase \in {"setup", "hook", "exec", "stopped", "over"}
    /\ Top \in 1..MaxDepth
    /\ \A i \in 1..Top : stack[i].routine \in DOMAIN Code /\ stack[i].at \in DOMAIN Text(i)
    /\ ready \subseteq DOMAIN Code

(* wire.rs: however reads tear and glue the frames, each sound request is    *)
(* answered at most once, in the order of the requests, and those not yet    *)
(* answered are all on their way, in order.                                  *)
NothingIsLost ==
    /\ TypeOK
    /\ LET cut == (fed - Len(buf)) \div 2 IN
       /\ buf = [k \in 1..fed - 2 * cut |-> HalfAt(2 * cut + k)]
       /\ answers \o Sound(channel) = Sound(Numbered(cut))

(* hook.rs resolve: the lines confirmed to the editor, read in the editor's  *)
(* numbers, are the lines the hook compares with, and have code.             *)
ConfirmedIsCompared ==
    /\ points = {l + 1 - (IF Wrote("initialize") THEN sent[1].base ELSE 1) : l \in shown}
    /\ points \subseteq Executable

(* FrameValues::line_of: while the run stands, each frame shows the line of  *)
(* the instruction it is in, calls and waits for a module body included.     *)
FramesShowTheirCalls ==
    phase = "stopped" => \A i \in 1..Top : LineOf(i) = Text(i)[stack[i].at].line

(* Hook::before_instruction: a run that does not step stops once each time   *)
(* control comes to a line with a breakpoint, by a jump back, a call or a    *)
(* return too, and not again while it goes forward on that line.  (A call of *)
(* a routine without instructions counts as going forward.)                  *)
StopsOncePerPass ==
    [][(phase = "hook" /\ phase' # "hook" /\ mode.kind = "run" /\ LineOf(Top) \in points) =>
          IF stood THEN phase' = "exec" \/ channel' # channel
                   ELSE phase' = "stopped" /\ channel' = channel]_vars

(* Each sound request is answered, or the run is over or its line broken;    *)
(* and a pause that finds the run going stops it, whatever loop it is in.    *)
RequestsAreServed ==
    /\ []<>(\/ \A i \in DOMAIN sent : Answered(i) \/ Is(i, "garbled")
           \/ phase = "over" \/ Wrote("broken"))
    /\ (Running /\ \E i \in DOMAIN sent : Is(i, "pause") /\ ~Answered(i)) ~>
          ~Running \/ Wrote("broken")

(* hook.rs:19-22: of stepIn and next, "the line must change, or a step would *)
(* stand at each instruction of its own line".  The code compares with the   *)
(* line of the last instruction, which may be one of the callee's.           *)
NextLeavesItsLine ==
    [][(phase = "hook" /\ phase' # "hook" /\ mode.kind = "over" /\ Stops) =>
          \/ LineOf(Top) # origin.line \/ Top # origin.depth
          \/ stack[Top].pc <= origin.pc]_vars
=============================================================================
