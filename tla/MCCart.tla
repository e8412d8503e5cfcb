------------------------------- MODULE MCCart -------------------------------
(****************************************************************************)
(* Instance of ItemAdmin for TLC: a customer with three requests in flight, an  *)
(* item that is scarce and one whose row is gone.                           *)
(****************************************************************************)
EXTENDS ItemAdmin, TLC

CONSTANTS u1, apple, gone, r1, r2, r3

MCStock == [s \in {apple, gone} |-> IF s = apple THEN 3 ELSE Nil]
MCCart == [u \in {u1} |-> [s \in {apple, gone} |-> IF s = apple THEN 1 ELSE Nil]]
MCAddCounts == {-1, 2}
MCUpdateCounts == {1}

RequestSymmetry == Permutations({r1, r2, r3})
==============================================================================
