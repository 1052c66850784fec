----------------------------- MODULE Collections -----------------------------
(* An operation on queues that several components use.                       *)
EXTENDS Integers, Sequences

(* retain: what is left of q without the elements of S, in its order.  (A    *)
(* recursive function and not SelectSeq, which no proof can look into.)      *)
Without(q, S) ==
    LET left[i \in 0..Len(q)] ==
            IF i = 0 THEN <<>>
            ELSE IF q[i] \in S THEN left[i - 1]
            ELSE Append(left[i - 1], q[i])
    IN left[Len(q)]
=============================================================================
