--------------------------- MODULE MCDebugAdapter ---------------------------
(* A script with a loop on one line, whose body calls a function and an      *)
(* empty one and goes on after them, a function with a branch within its     *)
(* line, a line without code, and a module of another file that is           *)
(* initialised on first use.                                                 *)
EXTENDS DebugAdapter

plain(l) == [line |-> l, op |-> "plain", to |-> "none"]
jump(l, pc) == [line |-> l, op |-> "jump", to |-> pc]
call(l, r) == [line |-> l, op |-> "call", to |-> r]
touch(l, r) == [line |-> l, op |-> "touch", to |-> r]
return(l) == [line |-> l, op |-> "return", to |-> "none"]

end == return(0)

MCCode ==
    [main |-> [own |-> TRUE, body |-> FALSE,
               text |-> <<plain(1), touch(3, "used"), call(2, "work"), call(2, "blank"),
                          jump(2, 3), plain(5), end>>],
     work |-> [own |-> TRUE, body |-> FALSE, text |-> <<jump(7, 3), plain(7), return(7)>>],
     blank |-> [own |-> TRUE, body |-> FALSE, text |-> <<end>>],
     used |-> [own |-> FALSE, body |-> TRUE, text |-> <<plain(9), end>>]]

ask(do) == [do |-> do]
MCAsks ==
    [do : {"initialize"}, base : {0, 1}]
        \cup [do : {"setBreakpoints"}, lines : {{1, 3, 6}}]
        \cup {ask(d) : d \in {"configurationDone", "continue", "next", "stepIn", "stepOut",
                               "pause", "inspect", "disconnect", "garbled", "broken"}}
=============================================================================
