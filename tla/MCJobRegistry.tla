--------------------------- MODULE MCJobRegistry ---------------------------
(* Small instance of JobRegistry: budgets so tight that each of them refuses *)
(* an admission or evicts a row in some behaviour.                           *)
EXTENDS JobRegistry, TLC

CONSTANTS j1, j2, j3, k1

Symmetry == Permutations({j1, j2, j3})

(* Bound: one job of a behaviour says messages, first a small one, then a    *)
(* large one.                                                                *)
OneSpeaks ==
    /\ \A j \in Job : said[j] \in {<<>>, <<1>>, <<1, 2>>}
    /\ \A i, j \in Job : said[i] # <<>> /\ said[j] # <<>> => i = j
=============================================================================
