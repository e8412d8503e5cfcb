------------------------------ MODULE ItemAdmin ------------------------------
(****************************************************************************)
(* The carts of the customers while the items behind them change: orders of *)
(* other customers take units, and the administrator edits and deletes rows *)
(* of df_goods_sku.  The admin form shows every column when it is opened    *)
(* and writes every column when it is saved, the stock included.            *)
(****************************************************************************)
EXTENDS Cart

CONSTANT MaxSold    \* units that other customers buy of an item

ASSUME MaxSoldAssumption == MaxSold \in Nat

VARIABLES
    form,           \* the stock in the form the administrator has open, or Nil
    sold,           \* units of each item sold to other customers
    overwritten,    \* items with a sale that a saved form has undone
    late            \* the requests that began after the row of an item was gone

adminVars == <<vars, form, sold, overwritten, late>>

NoForm == [s \in Skus |-> Nil]

AdminInit ==
    /\ Init
    /\ form = NoForm
    /\ sold = [s \in Skus |-> 0]
    /\ overwritten = {}
    /\ late = [s \in Skus |-> IF stock[s] = Nil THEN Requests ELSE {}]

CartStep ==
    /\ \E r \in Requests : Step(r)
    /\ UNCHANGED <<form, sold, overwritten, late>>

\* An order of another customer takes a unit.
Sell(s) ==
    /\ stock[s] # Nil
    /\ stock[s] > 0 /\ sold[s] < MaxSold
    /\ stock' = [stock EXCEPT ![s] = @ - 1]
    /\ sold' = [sold EXCEPT ![s] = @ + 1]
    /\ UNCHANGED <<cart, req, form, overwritten, late>>

\* The change form of GoodsSKUAdmin is opened.
OpenForm(s) ==
    /\ form = NoForm
    /\ stock[s] # Nil
    /\ form' = [form EXCEPT ![s] = stock[s]]
    /\ UNCHANGED <<vars, sold, overwritten, late>>

\* Mutant: the form has no field for the stock, and the default is saved.
SaveFormDefault(s) ==
    /\ form[s] # Nil /\ stock[s] # Nil
    /\ stock' = [stock EXCEPT ![s] = 1]
    /\ overwritten' = IF stock[s] # form[s] THEN overwritten \cup {s} ELSE overwritten
    /\ form' = NoForm
    /\ UNCHANGED <<cart, req, sold, late>>

\* save_model writes all columns of the form over the row; for a row that is
\* gone the page answers that it does not exist.
SaveForm(s) ==
    /\ form[s] # Nil
    /\ stock' = IF stock[s] = Nil THEN stock ELSE [stock EXCEPT ![s] = form[s]]
    /\ overwritten' = IF stock[s] \notin {Nil, form[s]} THEN overwritten \cup {s}
                                                        ELSE overwritten
    /\ form' = NoForm
    /\ UNCHANGED <<cart, req, sold, late>>

\* "Delete selected" deletes the row and leaves the carts as they are.
DeleteRow(s) ==
    /\ stock[s] # Nil
    /\ stock' = [stock EXCEPT ![s] = Nil]
    /\ late' = [late EXCEPT ![s] = {r \in Requests : req[r].pc = "idle"}]
    /\ UNCHANGED <<cart, req, form, sold, overwritten>>

Finished ==
    /\ \A r \in Requests : req[r].pc = "done"
    /\ UNCHANGED adminVars

AdminNext ==
    \/ CartStep
    \/ \E s \in Skus : Sell(s) \/ OpenForm(s) \/ SaveForm(s) \/ DeleteRow(s)
    \/ Finished

AdminSpec == AdminInit /\ [][AdminNext]_adminVars

------------------------------------------------------------------------------
(* Properties.                                                              *)

\* A unit that was sold is in stock again only when a form that was opened
\* before the sale has been saved after it.
UnitsReturnOnlyByStaleForm ==
    /\ form \in [Skus -> Int \cup {Nil}] /\ sold \in [Skus -> Nat]
    /\ \A s \in Skus \ overwritten :
          stock[s] # Nil => stock[s] + sold[s] = InitStock[s]

\* A request that had found the row of s may still write an entry for it.
WriterLeft(s) ==
    \E q \in Requests \ late[s] : req[q].kind \in Writers /\ req[q].sku_id = s

\* A request that begins after the row of s was deleted does not get past
\* looking it up, and the cart page has nothing of s left to show only when
\* there was none.
Orphaned(s, r) ==
    /\ req[r].sku_id = s =>
          /\ req[r].pc \in {"get", "done"}
          /\ req[r].res # (IF req[r].kind = "delete" THEN 3 ELSE 5)
    /\ /\ req[r].kind = "show"
       /\ req[r].res = 200 \/ (req[r].pc = "rows" /\ s \notin req[r].left)
       => cart[req[r].user][s] = Nil \/ WriterLeft(s)

\* CartInfoView raises DoesNotExist for an item without a row, and
\* CartDeleteView looks the row up before it deletes the entry: no request
\* that begins after the row was deleted takes the item out of the cart, and
\* the cart page works again only if one that had found the row does.
OrphansStayInCart ==
    /\ late \in [Skus -> SUBSET Requests]
    /\ \A s \in Skus : /\ stock[s] # Nil => late[s] = {}
                      /\ \A r \in late[s] : Orphaned(s, r)
==============================================================================
