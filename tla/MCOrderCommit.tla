---------------------------- MODULE MCOrderCommit ----------------------------
(****************************************************************************)
(* Instances of OrderCommit for TLC.                                        *)
(****************************************************************************)
EXTENDS OrderCommit, TLC

CONSTANTS u1, u2, u3, apple, pear, gone, r1, r2, r3

Row(stock, price) == [stock |-> stock, sales |-> 0, price |-> price]

\* Three customers after one item, all of them with it in the cart; the
\* stock satisfies any two of them but not all three.
RaceSku == [s \in {apple} |-> Row(5, 3)]
RaceCart == [u \in {u1, u2, u3} |->
               [s \in {apple} |-> IF u = u1 THEN 2 ELSE IF u = u2 THEN 1 ELSE 3]]
RaceLists == {<<apple>>}

\* Two customers, two items in both orders, and an item whose row is gone.
PairSku == [s \in {apple, pear, gone} |->
              IF s = apple THEN Row(3, 3) ELSE IF s = pear THEN Row(1, 2) ELSE Row(0, 1)]
PairCart == [u \in {u1, u2} |->
               IF u = u1 THEN [s \in {apple, pear, gone} |-> 1]
                         ELSE [s \in {apple, pear, gone} |->
                                 IF s = apple THEN 2 ELSE IF s = pear THEN 1 ELSE Nil]]
PairLists == {<<apple, pear>>, <<pear, apple>>, <<apple, gone>>}

\* The same customers, and orders of one item as well.
MixedLists == PairLists \cup RaceLists

RequestSymmetry == Permutations({r1, r2, r3})
==============================================================================
