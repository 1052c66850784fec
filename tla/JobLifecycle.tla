---------------------------- MODULE JobLifecycle ----------------------------
(* What the background-job runtime promises about one job, whatever the      *)
(* number of threads, the budgets and the order of notifications: the phases *)
(* a job may go through, when its write-set may become visible, and what a   *)
(* stopped runtime may still do.  JobRegistry and JobPool implement it.      *)
(*                                                                           *)
(* One step may move several jobs: a shutdown cancels every queued job, a    *)
(* break fails every running one, a new history row evicts older ones.       *)
CONSTANT Job

VARIABLES
    phase,      \* [Job -> Phase]
    open,       \* FALSE once the runtime is Closed or Broken
    published   \* jobs whose write-set reached the caller's storage

vars == <<phase, open, published>>

Terminal == {"completed", "failed", "canceled"}
Phase == {"new", "queued", "running", "publishing", "forgotten"} \cup Terminal

(* The phases reached from p in one step; "forgotten" is a terminal job      *)
(* whose history row was evicted, possibly by the same step.                 *)
After(p) ==
    CASE p = "new"        -> {"queued"}
      [] p = "queued"     -> {"running", "failed", "canceled", "forgotten"}
      [] p = "running"    -> {"publishing", "failed", "canceled", "forgotten"}
      [] p = "publishing" -> {"completed", "failed", "forgotten"}
      [] p \in Terminal   -> {"forgotten"}
      [] p = "forgotten"  -> {}

TypeOK ==
    /\ phase \in [Job -> Phase]
    /\ open \in BOOLEAN
    /\ published \subseteq Job

Init ==
    /\ phase = [j \in Job |-> "new"]
    /\ open = TRUE
    /\ published = {}

(* Jobs advance.  Admission and the right to publish need an open runtime.   *)
Advance ==
    /\ phase' \in [Job -> Phase]
    /\ \A j \in Job : phase'[j] # phase[j] =>
          /\ phase'[j] \in After(phase[j])
          /\ phase'[j] \in {"queued", "publishing"} => open
          /\ phase'[j] = "completed" => j \in published
    /\ UNCHANGED published

(* The write-set of a job becomes visible while it holds the publication.    *)
Publish ==
    /\ \E j \in Job : /\ phase[j] = "publishing"
                      /\ published' = published \cup {j}
    /\ UNCHANGED <<phase, open>>

Next ==
    \/ Advance /\ UNCHANGED open
    \/ Advance /\ open' = FALSE
    \/ Publish

Spec == Init /\ [][Next]_vars
=============================================================================
