----------------------------- MODULE MCSession -----------------------------
(* Requests for Session: what get asks for is a single name.                 *)
EXTENDS Session, TLC

OneByOne == {<<p>> : p \in Param}
Symmetry == Permutations(Param)
=============================================================================
