--------------------------- MODULE MCTempStorage ---------------------------
(* Small instances of TempStorage for TLC.                                   *)
EXTENDS TempStorage, TLC

CONSTANTS f, p, c, a1, a2

(* Two jobs of the foreground, at addresses of its session.                  *)
Siblings == [j \in {p, c} |-> f]
AllOfForeground == [a \in {a1, a2} |-> f]
=============================================================================
