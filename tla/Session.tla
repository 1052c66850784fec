------------------------------ MODULE Session ------------------------------
(* The parameters of a session (bsl-session/src/parameters.rs), which are    *)
(* set lazily by a handler of the session module that reads and writes other *)
(* parameters, and the safe and privileged modes of the frames of a call     *)
(* (bsl-vm/src/lib.rs).  The stack holds the BSL frames of one thread.  A    *)
(* call stays in the task of its caller; the body of the session module, its *)
(* handler and an event of an object run in an execution of their own, which *)
(* inherits a snapshot of the modes.  An error unwinds frame by frame until  *)
(* one of them catches it.                                                   *)
EXTENDS Integers, Sequences

CONSTANTS
    Param,     \* names of the session parameters
    Requests,  \* sequences of names the handler may be asked for
    MaxDepth,  \* frames on the stack (bound)
    MaxCount   \* enables of a mode in one frame (bound)

ASSUME SessionAssumption ==
    /\ Requests \subseteq Seq(Param) \ {<<>>}
    /\ MaxDepth \in Nat /\ MaxCount \in Nat

VARIABLES
    phase,    \* "closed", "opening", "open", "refused"
    param,    \* [Param -> "unset", "busy", "set"]
    module,   \* initialisation of the session module: "new", "busy", "ready", "failed"
    stack,    \* frames, the running one last
    raising   \* an error is looking for a handler

vars == <<phase, param, module, stack, raising>>

Top == stack[Len(stack)]
Caller == SubSeq(stack, 1, Len(stack) - 1)
NoModes == [safe |-> FALSE, off |-> FALSE, priv |-> FALSE]

-----------------------------------------------------------------------------
(* TaskSecurityModes.                                                        *)

(* The frames of the running task: those above the start of its execution.   *)
Own == {i \in DOMAIN stack : \A k \in DOMAIN stack : k > i => stack[k].kind = "call"}
Root == CHOOSE i \in Own : \A k \in Own : i <= k

SnapshotOf(inh, frames) ==
    [safe |-> inh.safe \/ \E i \in frames : stack[i].safe > 0,
     off  |-> inh.off \/ \E i \in frames : stack[i].latch,
     priv |-> inh.priv \/ \E i \in frames : stack[i].priv > 0]
Snapshot == SnapshotOf(stack[Root].inh, Own)

Safe == stack # <<>> /\ Snapshot.safe /\ ~Snapshot.off
Privileged == stack # <<>> /\ ~Safe /\ Snapshot.priv
Modes == [safe |-> Safe, priv |-> Privileged]

(* synchronize_frames: a new frame has counters of its own.  was, must and   *)
(* lift are for the properties: the modes of the caller, whether the callee  *)
(* is to run in safe mode, and whether the entry itself takes it out of it.  *)
Frame(kind, names, inh) ==
    [kind |-> kind, names |-> names, inh |-> inh, safe |-> 0, off |-> 0, priv |-> 0,
     latch |-> FALSE, was |-> Modes, must |-> Safe, lift |-> FALSE]
Push(f) == stack' = Append(stack, f)

(* Runs: the top frame may execute an instruction.                           *)
Runs == stack # <<>> /\ ~raising
Room == Len(stack) < MaxDepth

(* VmSecurityModeControl::change                                             *)
SetMode(m, on) ==
    /\ Runs
    /\ UNCHANGED <<phase, param, module>>
    /\ LET n == Top[m] IN
       IF on \/ n > 0
       THEN /\ n < MaxCount \/ ~on
            /\ stack' = [stack EXCEPT ![Len(stack)][m] = IF on THEN n + 1 ELSE n - 1,
                                      ![Len(stack)].latch = @ \/ (m = "off" /\ on)]
            /\ UNCHANGED raising
       ELSE raising' = TRUE /\ UNCHANGED stack

-----------------------------------------------------------------------------
(* Frames.                                                                   *)

Call ==
    /\ Runs /\ Room
    /\ Push(Frame("call", <<>>, NoModes))
    /\ UNCHANGED <<phase, param, module, raising>>

(* object_instance::call: the modes an event of an object is entered with.   *)
Event(policy) ==
    /\ Runs /\ Room
    /\ LET f == Frame("event", <<>>, Snapshot) IN
       \/ policy = "inherit" /\ Push(f)
       \/ policy = "withoutSafe" /\ Push([f EXCEPT !.inh.off = TRUE, !.lift = TRUE])
       \/ policy = "extensionSafe"
            /\ Push([f EXCEPT !.inh.safe = TRUE, !.inh.off = FALSE, !.must = TRUE])
       \/ policy = "extensionUnsafe"
            /\ Push([f EXCEPT !.inh.off = TRUE, !.lift = TRUE, !.off = 1, !.latch = TRUE])
    /\ UNCHANGED <<phase, param, module, raising>>

Raise ==
    /\ Runs
    /\ raising' = TRUE
    /\ UNCHANGED <<phase, param, module, stack>>

Catch ==
    /\ raising
    /\ raising' = FALSE
    /\ UNCHANGED <<phase, param, module, stack>>

(* Mutant: the counter of a frame stays with its caller.                     *)
LeaveFrameLeaks ==
    /\ stack # <<>> /\ Top.kind \in {"entry", "call", "event"}
    /\ stack' = IF Caller = <<>> THEN Caller
                ELSE [Caller EXCEPT ![Len(Caller)].safe = Top.safe]
    /\ raising' = (raising /\ Caller # <<>>)
    /\ UNCHANGED <<phase, param, module>>

(* A frame without a request returns or is unwound; the last one ends the    *)
(* call of the session from outside.                                         *)
LeaveFrame ==
    /\ stack # <<>> /\ Top.kind \in {"entry", "call", "event"}
    /\ stack' = Caller
    /\ raising' = (raising /\ Caller # <<>>)
    /\ UNCHANGED <<phase, param, module>>

-----------------------------------------------------------------------------
(* SessionParameters.                                                        *)

Set(p) ==
    /\ Runs
    /\ param' = [param EXCEPT ![p] = "set"]
    /\ UNCHANGED <<phase, module, stack, raising>>

Clear ==
    /\ Runs
    /\ param' = [p \in Param |-> "unset"]
    /\ UNCHANGED <<phase, module, stack, raising>>

Named(names) == {names[i] : i \in DOMAIN names}
Busy(names) == {i \in DOMAIN names : param[names[i]] = "busy"}
FirstBusy(names) == CHOOSE i \in Busy(names) : \A k \in Busy(names) : i <= k
Mark(ps) == [p \in Param |-> IF p \in ps /\ param[p] = "unset" THEN "busy" ELSE param[p]]
Unmark(ps) == [p \in Param |-> IF p \in ps /\ param[p] = "busy" THEN "unset" ELSE param[p]]

(* call_configuration_module_in_execution: the body of the module runs       *)
(* before the first call of its handler, with the modes of the caller; the   *)
(* handler runs privileged.  (Mutant: and without safe mode.)                *)
HandlerModesUnsafe(inh) == [inh EXCEPT !.priv = TRUE, !.safe = FALSE]
HandlerModes(inh) == [inh EXCEPT !.priv = TRUE]
EnterModule(names, inh) ==
    \/ module = "new" /\ module' = "busy" /\ Push(Frame("body", names, inh))
    \/ /\ module = "ready" /\ UNCHANGED module
       /\ Push(Frame("handler", names, HandlerModes(inh)))

(* get, and initialize with several names: the handler is asked for names    *)
(* that are not set.  A name that is busy is an error, before the call.      *)
Request(names) ==
    /\ Runs
    /\ Len(names) = 1 => param[names[1]] # "set"
    /\ UNCHANGED phase
    /\ \/ /\ Busy(names) # {}
          /\ param' = Mark({names[i] : i \in 1..(FirstBusy(names) - 1)})
          /\ raising' = TRUE
          /\ UNCHANGED <<module, stack>>
       \/ /\ Busy(names) = {} /\ module \in {"new", "ready"} /\ Room
          /\ param' = Mark(Named(names))
          /\ EnterModule(names, Snapshot)
          /\ UNCHANGED raising
       \/ /\ Busy(names) = {} /\ module \in {"busy", "failed"}
          /\ raising' = TRUE
          /\ module' = "failed"
          /\ UNCHANGED <<param, stack>>

(* The body has run: the module is ready and its handler is called.          *)
BodyReturns ==
    /\ Runs /\ Top.kind = "body"
    /\ module' = "ready"
    /\ stack' = Append(Caller, [Frame("handler", Top.names, HandlerModes(Top.inh))
                                  EXCEPT !.was = Top.was, !.must = Top.must])
    /\ UNCHANGED <<phase, param, raising>>

(* initialize after a normal return: the first name that is still busy       *)
(* becomes unset and is an error; get wants a value as well.                 *)
HandlerReturns ==
    /\ Runs /\ Top.kind = "handler"
    /\ LET names == Top.names
           left == Busy(names)
       IN /\ param' = IF left = {} THEN param ELSE Unmark({names[FirstBusy(names)]})
          /\ raising' = (left # {} \/ (Len(names) = 1 /\ param[names[1]] # "set"))
    /\ stack' = Caller
    /\ phase' = IF Caller = <<>> THEN "open" ELSE phase
    /\ UNCHANGED module

(* Mutants: the marks stay; the values are rolled back.                      *)
RequestFailsQuietly ==
    /\ raising /\ Top.kind \in {"body", "handler"}
    /\ stack' = Caller
    /\ raising' = (Caller # <<>>)
    /\ UNCHANGED <<phase, param, module>>

RequestFailsRollsBack ==
    /\ raising /\ Top.kind \in {"body", "handler"}
    /\ param' = [p \in Param |-> IF p \in Named(Top.names) THEN "unset" ELSE param[p]]
    /\ stack' = Caller
    /\ raising' = (Caller # <<>>)
    /\ UNCHANGED <<phase, module>>

(* An error leaves the body or the handler.                                  *)
RequestFails ==
    /\ raising /\ Top.kind \in {"body", "handler"}
    /\ param' = Unmark(Named(Top.names))
    /\ module' = IF Top.kind = "body" /\ module = "busy" THEN "failed" ELSE module
    /\ stack' = Caller
    /\ phase' = IF Caller = <<>> THEN "refused" ELSE phase
    /\ raising' = (Caller # <<>>)

-----------------------------------------------------------------------------
(* SessionFactory::open calls the handler for nothing in particular.  Before *)
(* it the parameters of separators may have been set, or those of the parent *)
(* of a background session copied (copy_for_background).                     *)
Open ==
    /\ phase = "closed"
    /\ phase' = "opening"
    /\ EnterModule(<<>>, NoModes)
    /\ UNCHANGED <<param, raising>>

Enter ==
    /\ phase = "open" /\ stack = <<>>
    /\ Push(Frame("entry", <<>>, NoModes))
    /\ UNCHANGED <<phase, param, module, raising>>

Init ==
    /\ phase = "closed" /\ module = "new"
    /\ param \in [Param -> {"unset", "set"}]
    /\ stack = <<>> /\ raising = FALSE

Next ==
    \/ Open \/ Enter
    \/ Call \/ Raise \/ Catch \/ LeaveFrame
    \/ \E m \in {"safe", "off", "priv"}, on \in BOOLEAN : SetMode(m, on)
    \/ \E policy \in {"inherit", "withoutSafe", "extensionSafe", "extensionUnsafe"} : Event(policy)
    \/ \E p \in Param : Set(p)
    \/ Clear
    \/ \E names \in Requests : Request(names)
    \/ BodyReturns \/ HandlerReturns \/ RequestFails

Spec == Init /\ [][Next]_vars

-----------------------------------------------------------------------------
(* Properties.                                                               *)

FrameType ==
    [kind : {"entry", "call", "event", "body", "handler"}, names : Seq(Param),
     inh : [safe : BOOLEAN, off : BOOLEAN, priv : BOOLEAN],
     safe : Nat, off : Nat, priv : Nat, latch : BOOLEAN,
     was : [safe : BOOLEAN, priv : BOOLEAN], must : BOOLEAN, lift : BOOLEAN]

(* The shape of the state; every stack starts with an execution of its own.  *)
TypeOK ==
    /\ phase \in {"closed", "opening", "open", "refused"}
    /\ param \in [Param -> {"unset", "busy", "set"}]
    /\ module \in {"new", "busy", "ready", "failed"}
    /\ stack \in Seq(FrameType)
    /\ raising \in BOOLEAN
    /\ raising => stack # <<>>
    /\ stack # <<>> => stack[1].kind \in {"entry", "body", "handler"}

Asks(i, p) == stack[i].kind \in {"body", "handler"} /\ p \in Named(stack[i].names)

(* A parameter is marked as being initialised only while a call of the       *)
(* handler for it is on the stack: whatever fails in between, it becomes     *)
(* readable or retryable again.                                              *)
NothingStaysBusy ==
    \A p \in Param : param[p] = "busy" => \E i \in DOMAIN stack : Asks(i, p)

(* Writes completed before a later failure remain: a value goes away by      *)
(* Clear only.                                                               *)
WritesRemain ==
    [][~Clear => \A p \in Param : param[p] = "set" => param'[p] = "set"]_vars

(* The handler runs only in a module whose body has run to its end, and the  *)
(* body runs alone, although both may ask for parameters themselves.         *)
HandlerNeedsBody ==
    LET At(kind) == {i \in DOMAIN stack : stack[i].kind = kind} IN
    /\ At("handler") # {} => module = "ready" /\ At("body") = {}
    /\ module = "busy" => At("body") # {}
    /\ \A i, k \in At("body") : i = k

(* Leaving a frame, normally or by an error, gives its caller back the modes *)
(* it had.                                                                   *)
ModesAreRestored ==
    [][Len(stack') < Len(stack) /\ stack' # <<>> => Modes' = Top.was]_vars

(* With the shape of the state: what says that something is being prepared   *)
(* is true of the stack.                                                     *)
NothingIsLeftHalfDone == TypeOK /\ NothingStaysBusy /\ HandlerNeedsBody

(* Safe mode holds in everything that is called from it, over the borders of *)
(* nested executions and also in the handler that is entered privileged,     *)
(* unless a frame in between has suppressed it or is an event entered        *)
(* without it; then privileged mode has no effect.                           *)
SafeModeHolds ==
    \A i \in DOMAIN stack :
        stack[i].must /\ (\A k \in i..Len(stack) : ~stack[k].latch /\ ~stack[k].lift)
            => Safe /\ ~Privileged
=============================================================================
