------------------------------ MODULE Inventory ------------------------------
(****************************************************************************)
(* What the order service promises about stock: an order takes effect in    *)
(* one step or not at all.  The step moves every quantity on the order from *)
(* stock to sales and records the order; nothing else changes the stock.    *)
(* OrderCommit, with its statements, row locks, retries, rollbacks and      *)
(* crashes, is shown to implement this specification.                       *)
(****************************************************************************)
EXTENDS Redis

CONSTANTS Skus, Requests, InitStock, InitSales

VARIABLES stock, sales, placed

ivars == <<stock, sales, placed>>

Init ==
    /\ stock = InitStock
    /\ sales = InitSales
    /\ placed = [r \in Requests |-> Nil]

(* Order r takes quantity q[s] of every item s it has a line for.           *)
Purchase(r, q) ==
    /\ placed[r] = Nil
    /\ q # Nil
    /\ \A s \in Fields(q) : q[s] =< stock[s]
    /\ stock' = [s \in Skus |-> IF q[s] = Nil THEN stock[s] ELSE stock[s] - q[s]]
    /\ sales' = [s \in Skus |-> IF q[s] = Nil THEN sales[s] ELSE sales[s] + q[s]]
    /\ placed' = [placed EXCEPT ![r] = q]

(* The quantities are read off placed', so that no set of all possible      *)
(* orders has to be enumerated.                                             *)
Next == \E r \in Requests : \E q \in {placed'[r]} : Purchase(r, q)

Spec == Init /\ [][Next]_ivars
==============================================================================
