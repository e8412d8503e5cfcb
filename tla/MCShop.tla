------------------------------- MODULE MCShop -------------------------------
(****************************************************************************)
(* Instances of Shop for TLC: one customer with two tabs.                   *)
(****************************************************************************)
EXTENDS Shop, TLC

CONSTANTS u1, apple, r1, r2, c1, c2

MCSku == [s \in {apple} |-> [stock |-> 4, sales |-> 0, price |-> 3]]
MCCart == [u \in {u1} |-> [s \in {apple} |-> 1]]
MCLists == {<<apple>>}
MCAddCounts == {-1, 2}
MCUpdateCounts == {3}

TabSymmetry == Permutations({r1, r2}) \cup Permutations({c1, c2})
==============================================================================
