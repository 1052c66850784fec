---------------------------- MODULE MCVmScheduler ----------------------------
(* Programs for VmScheduler: async calls with host operations, two functions *)
(* that wait for each other, calls that freeze, notifications, a handler in  *)
(* a nested execution, and the expressions of a debugger.                    *)
EXTENDS VmScheduler

work == [do |-> "work", try |-> FALSE]
raise == [do |-> "raise", try |-> FALSE]
enter(try) == [do |-> "enter", try |-> try]
fn(b, s) == [do |-> "function", body |-> b, slot |-> s, try |-> FALSE]
proc(b) == [do |-> "procedure", body |-> b, slot |-> "none", try |-> FALSE]
notify(b) == [do |-> "notify", body |-> b, slot |-> "none", try |-> FALSE]
await(s, try) == [do |-> "await", slot |-> s, try |-> try]
host(k, s, try) == [do |-> "host", kind |-> k, slot |-> s, try |-> try]
sync(k, try) == [do |-> "sync", kind |-> k, try |-> try]

MCSlot == {"p", "q", "none"}
MCBody == {"calls", "cross", "frozen", "events", "enters", "opens", "fails", "asks",
           "one", "two", "done", "evalCall", "evalSync", "evalAwait"}
MCCode ==
    [b \in MCBody |->
       CASE b = "calls"  -> <<fn("opens", "p"), proc("fails"), await("p", TRUE)>>
         [] b = "cross"  -> <<fn("one", "p"), fn("two", "q"), await("p", FALSE)>>
         [] b = "frozen" -> <<fn("asks", "p"), sync("app", TRUE), await("p", FALSE)>>
         [] b = "events" -> <<notify("done"), proc("fails"), host("http", "p", TRUE)>>
         [] b = "enters" -> <<host("app", "p", FALSE), proc("fails"), enter(TRUE), await("p", FALSE)>>
         [] b = "opens"  -> <<host("temp", "q", FALSE), await("q", FALSE)>>
         [] b = "fails"  -> <<work, raise>>
         [] b = "asks"   -> <<work, sync("http", FALSE)>>
         [] b = "one"    -> <<await("q", FALSE), await("q", FALSE)>>
         [] b = "two"    -> <<await("p", FALSE)>>
         [] b = "done"   -> <<work>>
         [] b = "evalCall"  -> <<fn("opens", "q"), await("q", FALSE)>>
         [] b = "evalSync"  -> <<proc("fails"), sync("http", FALSE)>>
         [] b = "evalAwait" -> <<await("p", FALSE)>>]
MCMain == {"calls", "cross", "frozen", "events", "enters"}
MCEval == {"evalCall", "evalSync", "evalAwait"}
=============================================================================
