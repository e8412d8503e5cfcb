----------------------------- MODULE ShopProofs -----------------------------
(****************************************************************************)
(* Proofs about OrderCommit, for any number of users, items and requests;   *)
(* and about Shop: what holds of the order service alone also holds while   *)
(* the cart views change the carts, because the invariant of OrderCommit    *)
(* needs no more of a cart than that its entries are numbers.               *)
(****************************************************************************)
EXTENDS Shop, SumLemmas, TLAPS


\* A request that has not started satisfies the invariant of the locals.
LEMMA IdleOK == Idle \in Request /\ LocalOK(Idle) /\ Idle.goods = NoGoods
<1>1. NoGoods \in Goods
  BY DEF NoGoods, Goods
<1>2. Idle \in Request
  BY <1>1 DEF Idle, Request, PCs, SkuRow
<1>3. LocalOK(Idle)
  BY DEF Idle, LocalOK, InTransaction, NoGoods
<1> QED BY <1>2, <1>3 DEF Idle

\* The initial state satisfies the inductive invariant.
LEMMA InitIndInv == Init => IndInv
<1> SUFFICES ASSUME Init PROVE IndInv
  OBVIOUS
<1> USE SkuAssumption, RequestAssumption, NilAssumption, IdleOK
<1>3. TypeOK
  BY DEF Init, TypeOK
<1>4. LocalsOK
  BY DEF Init, LocalsOK
<1>5. LocksMatchLines
  BY DEF Init, LocksMatchLines, NoGoods
<1>6. RowVersions
  BY DEF Init, RowVersions
<1>7. OrdersAnswered
  BY DEF Init, OrdersAnswered
<1>8. NoOversell /\ Conservation
  BY DEF Init, NoOversell, Conservation
<1> QED BY <1>3, <1>4, <1>5, <1>6, <1>7, <1>8 DEF IndInv

\* A statement that writes no table keeps the invariant if it keeps that of
\* the request's locals and adds no order line.
LEMMA LocalStep ==
  ASSUME IndInv, NEW r \in Requests, NEW l \in Request, LocalOK(l),
         orders[r] = Nil, l.goods = req[r].goods,
         req' = [req EXCEPT ![r] = l],
         UNCHANGED db,
         cart' \in [Users -> [Skus -> Int \cup {Nil}]],
         now' \in Nat
  PROVE  IndInv'
<1> USE DEF IndInv, db
<1>1. TypeOK'
  BY DEF TypeOK
<1>2. LocalsOK'
  BY DEF LocalsOK, TypeOK
<1>3. \A q \in Requests : req'[q].goods = req[q].goods
  BY DEF TypeOK
<1>4. LocksMatchLines'
  BY <1>3 DEF LocksMatchLines
<1>5. RowVersions'
  BY <1>3 DEF RowVersions
<1>6. OrdersAnswered'
  BY DEF OrdersAnswered, TypeOK
<1>7. NoOversell' /\ Conservation'
  BY DEF NoOversell, Conservation
<1> QED BY <1>1, <1>2, <1>4, <1>5, <1>6, <1>7

\* What is left of a request when its view returns or raises.
Ended(r, res) == [Idle EXCEPT !.pc = "done", !.user = req[r].user,
                              !.sku_ids = req[r].sku_ids,
                              !.order_id = req[r].order_id, !.res = res]

\* The local variables of a request that has been answered satisfy the
\* invariant.
LEMMA EndedOK ==
  ASSUME NEW r \in Requests, req[r] \in Request,
         NEW res \in (0..7) \cup {ServerError}
  PROVE  LET l == Ended(r, res) IN
         /\ l \in Request /\ LocalOK(l)
         /\ l.goods = NoGoods /\ l.pc = "done" /\ l.res = res
         /\ l.user = req[r].user /\ l.sku_ids = req[r].sku_ids
<1> DEFINE l == Ended(r, res)
<1>1. /\ l \in Request
      /\ l.goods = NoGoods /\ l.pc = "done" /\ l.res = res
      /\ l.user = req[r].user /\ l.sku_ids = req[r].sku_ids
  BY IdleOK DEF Request, PCs, Ended
<1> HIDE DEF l
<1>2. LocalOK(l)
  BY <1>1 DEF LocalOK, InTransaction, NoGoods
<1> QED BY <1>1, <1>2 DEF l

\* savepoint_rollback and ROLLBACK: the rows of the transaction are those of
\* the committed table again, and no lock is left behind.
LEMMA RollBackStep ==
  ASSUME IndInv, NEW r \in Requests, NEW res \in (0..7) \cup {ServerError},
         req[r].pc \in {"create"} \cup InTransaction,
         RollBack(r, res)
  PROVE  IndInv'
<1> DEFINE l == Ended(r, res)
<1> USE DEF IndInv
<1>1. /\ req' = [req EXCEPT ![r] = l]
      /\ dirty' = [s \in Skus |-> IF lock[s] = r THEN sku[s] ELSE dirty[s]]
      /\ lock' = [s \in Skus |-> IF lock[s] = r THEN Nil ELSE lock[s]]
      /\ UNCHANGED <<sku, orders, cart, now>>
  BY DEF RollBack, Finish, Ended
<1>2. l \in Request /\ LocalOK(l) /\ l.goods = NoGoods /\ l.pc = "done"
  BY EndedOK DEF TypeOK
<1> HIDE DEF l
<1>4. TypeOK'
  BY <1>1, <1>2 DEF TypeOK
<1>5. LocalsOK'
  BY <1>1, <1>2 DEF LocalsOK, TypeOK
<1>6. LocksMatchLines'
  BY <1>1, <1>2, NilAssumption DEF LocksMatchLines, NoGoods, TypeOK
<1>7. RowVersions'
  BY <1>1, <1>2, NilAssumption DEF RowVersions, TypeOK
<1>8. OrdersAnswered'
  BY <1>1 DEF OrdersAnswered, TypeOK, InTransaction
<1>9. NoOversell' /\ Conservation'
  BY <1>1 DEF NoOversell, Conservation
<1> QED BY <1>4, <1>5, <1>6, <1>7, <1>8, <1>9

------------------------------------------------------------------------------
(* One lemma per action of the view.                                        *)

\* A request that is not over has no committed order.
LEMMA NotDoneNoOrder ==
  ASSUME IndInv, NEW r \in Requests, req[r].pc # "done"
  PROVE  orders[r] = Nil /\ req[r] \in Request /\ LocalOK(req[r])
BY DEF IndInv, OrdersAnswered, TypeOK, LocalsOK

\* A POST that fails one of the checks keeps the invariant.
LEMMA RefuseStep ==
  ASSUME IndInv, NEW r \in Requests, Refuse(r)
  PROVE  IndInv'
<1>1. PICK form \in CommitForms :
         /\ Validate(form) # Nil
         /\ req' = [req EXCEPT ![r].pc = "done", ![r].res = Validate(form)]
  BY DEF Refuse
<1> DEFINE l == [req[r] EXCEPT !.pc = "done", !.res = Validate(form)]
<1>2. req[r].pc = "idle" /\ UNCHANGED <<db, cart, now>>
  BY DEF Refuse
<1>3. orders[r] = Nil /\ req[r] \in Request /\ req[r] = Idle
  BY <1>2, NotDoneNoOrder DEF LocalOK
<1>4. Validate(form) \in 0..7
  BY <1>1 DEF Validate
<1>5. /\ l \in Request
      /\ l.pc = "done" /\ l.goods = req[r].goods
  BY <1>3, <1>4 DEF Request, PCs
<1>6. LocalOK(l)
  <2>1. \A s \in Skus : l.goods[s] = Nil
    BY <1>3, <1>5, IdleOK DEF NoGoods
  <2> QED BY <1>5, <2>1 DEF LocalOK, InTransaction
<1>7. req' = [req EXCEPT ![r] = l]
  BY <1>1
<1>8. cart' \in [Users -> [Skus -> Int \cup {Nil}]] /\ now' \in Nat
  BY <1>2 DEF IndInv, TypeOK
<1> HIDE DEF l
<1> QED BY <1>2, <1>3, <1>5, <1>6, <1>7, <1>8, LocalStep

\* A POST that passes the checks and gets its order_id keeps the invariant.
LEMMA AcceptStep ==
  ASSUME IndInv, NEW r \in Requests, Accept(r)
  PROVE  IndInv'
<1>1. PICK u \in Users, ids \in SkuLists :
         req' = [req EXCEPT ![r] = [@ EXCEPT !.pc = "create", !.user = u,
                                             !.sku_ids = ids,
                                             !.order_id = <<now, u>>]]
  BY DEF Accept
<1> DEFINE l == [req[r] EXCEPT !.pc = "create", !.user = u, !.sku_ids = ids,
                               !.order_id = <<now, u>>]
<1>2. req[r].pc = "idle" /\ UNCHANGED <<db, cart, now>>
  BY DEF Accept
<1>3. orders[r] = Nil /\ req[r] \in Request /\ req[r] = Idle
  BY <1>2, NotDoneNoOrder DEF LocalOK
<1>4. <<now, u>> \in Nat \X Users
  BY DEF IndInv, TypeOK
<1>5. /\ l \in Request
      /\ l.pc = "create" /\ l.goods = req[r].goods /\ l.user = u
      /\ l.sku_ids = ids /\ l.order_id = <<now, u>>
      /\ l.at = req[r].at /\ l.res = req[r].res
  BY <1>3, <1>4 DEF Request, PCs
<1>6. LocalOK(l)
  <2>1. \A s \in Skus : l.goods[s] = Nil
    BY <1>3, <1>5, IdleOK DEF NoGoods
  <2>2. l.at = 1 /\ l.res = Nil
    BY <1>3, <1>5 DEF Idle
  <2>3. 1 \in 1..Len(ids)
    BY RequestAssumption
  <2> QED BY <1>4, <1>5, <2>1, <2>2, <2>3 DEF LocalOK, InTransaction
<1>7. req' = [req EXCEPT ![r] = l]
  BY <1>1
<1>8. cart' \in [Users -> [Skus -> Int \cup {Nil}]] /\ now' \in Nat
  BY <1>2 DEF IndInv, TypeOK
<1> HIDE DEF l
<1> QED BY <1>2, <1>3, <1>5, <1>6, <1>7, <1>8, LocalStep

\* Inserting the order row, or colliding with another one, keeps it.
LEMMA CreateStep ==
  ASSUME IndInv, NEW r \in Requests, Create(r)
  PROVE  IndInv'
<1> DEFINE l == [req[r] EXCEPT !.pc = "get"]
<1>1. req[r].pc = "create"
  BY DEF Create
<1>2. CASE RollBack(r, ServerError)
  BY <1>1, <1>2, RollBackStep
<1>3. CASE req' = [req EXCEPT ![r].pc = "get"] /\ UNCHANGED <<db, cart, now>>
  <2>1. orders[r] = Nil /\ req[r] \in Request /\ LocalOK(req[r])
    BY <1>1, NotDoneNoOrder
  <2>2. l \in Request /\ LocalOK(l) /\ l.goods = req[r].goods
    BY <1>1, <2>1 DEF Request, PCs, InTransaction, LocalOK
  <2>3. req' = [req EXCEPT ![r] = l]
    BY <1>3
  <2>4. cart' \in [Users -> [Skus -> Int \cup {Nil}]] /\ now' \in Nat
    BY <1>3 DEF IndInv, TypeOK
  <2> HIDE DEF l
  <2> QED BY <1>3, <2>1, <2>2, <2>3, <2>4, LocalStep
<1> QED BY <1>2, <1>3 DEF Create

\* The current item of a request in the loop is an item without an order
\* line: the list names it once, and lines belong to earlier positions.
LEMMA CurrentItem ==
  ASSUME IndInv, NEW r \in Requests, req[r].pc \in {"get", "hget", "update"}
  PROVE  /\ CurrentSku(r) \in Skus
         /\ req[r].user \in Users
         /\ req[r].goods[CurrentSku(r)] = Nil
         /\ lock[CurrentSku(r)] # r
<1>1. req[r] \in Request /\ LocalOK(req[r])
  BY NotDoneNoOrder
<1>2. /\ req[r].user \in Users
      /\ req[r].sku_ids \in SkuLists
      /\ req[r].at \in 1..Len(req[r].sku_ids)
  BY <1>1 DEF LocalOK, InTransaction
<1>3. req[r].sku_ids \in Seq(Skus) /\ DistinctItems(req[r].sku_ids)
  BY <1>2, RequestAssumption
<1>4. CurrentSku(r) \in Skus
  BY <1>2, <1>3 DEF CurrentSku
<1>5. ASSUME req[r].goods[CurrentSku(r)] # Nil PROVE FALSE
  <2>1. PICK k \in 1..(req[r].at - 1) : req[r].sku_ids[k] = CurrentSku(r)
    BY <1>1, <1>4, <1>5 DEF LocalOK
  <2>2. req[r].at \in Nat /\ Len(req[r].sku_ids) \in Nat
    BY <1>2, <1>3
  <2>3. k \in 1..Len(req[r].sku_ids) /\ k # req[r].at
    BY <1>2, <2>1, <2>2
  <2> QED BY <1>2, <1>3, <2>1, <2>3 DEF DistinctItems, CurrentSku
<1> QED BY <1>2, <1>4, <1>5 DEF IndInv, LocksMatchLines

\* Going on with the next item, or leaving the loop, keeps the invariant of
\* the locals when every line belongs to a position up to the current one.
LEMMA NextItemOK ==
  ASSUME NEW l \in Request,
         l.user \in Users, l.sku_ids \in SkuLists, l.res = Nil,
         l.at \in 1..Len(l.sku_ids), l.order_id \in Nat \X Users,
         \A s \in Skus : l.goods[s] # Nil =>
            \E k \in 1..l.at : l.sku_ids[k] = s
  PROVE  /\ NextItem(l) \in Request
         /\ LocalOK(NextItem(l))
         /\ NextItem(l).goods = l.goods
         /\ NextItem(l).pc \in {"get", "save"}
<1>1. l.at \in Nat /\ Len(l.sku_ids) \in Nat
  BY RequestAssumption DEF Request
<1>2. CASE l.at < Len(l.sku_ids)
  <2> DEFINE n == [l EXCEPT !.pc = "get", !.at = l.at + 1, !.i = 0]
  <2>1. NextItem(l) = n
    BY <1>2 DEF NextItem
  <2>2. n \in Request
    <3>1. l.at + 1 \in Nat
      BY <1>1
    <3> QED BY <3>1 DEF Request, PCs, InTransaction
  <2>3. /\ n.pc = "get" /\ n.at = l.at + 1 /\ n.goods = l.goods
        /\ n.sku_ids = l.sku_ids /\ n.user = l.user /\ n.res = l.res
        /\ n.order_id = l.order_id
    BY DEF Request
  <2> HIDE DEF n
  <2>4. n.at \in 1..Len(n.sku_ids) /\ n.at - 1 = l.at
    BY <1>1, <1>2, <2>3
  <2>5. LocalOK(n)
    BY <2>3, <2>4 DEF LocalOK, InTransaction
  <2> QED BY <2>1, <2>2, <2>3, <2>5
<1>3. CASE ~(l.at < Len(l.sku_ids))
  <2> DEFINE n == [l EXCEPT !.pc = "save"]
  <2>1. NextItem(l) = n
    BY <1>3 DEF NextItem
  <2>2. n \in Request
    BY DEF Request, PCs, InTransaction
  <2>3. /\ n.pc = "save" /\ n.at = l.at /\ n.goods = l.goods
        /\ n.sku_ids = l.sku_ids /\ n.user = l.user /\ n.res = l.res
        /\ n.order_id = l.order_id
    BY DEF Request
  <2> HIDE DEF n
  <2>4. LocalOK(n)
    BY <2>3 DEF LocalOK, InTransaction
  <2> QED BY <2>1, <2>2, <2>3, <2>4
<1> QED BY <1>2, <1>3

\* Reading the item's row keeps it: the row read has consistent columns,
\* whether it is the committed one or the transaction's own version.
LEMMA GetSkuStep ==
  ASSUME IndInv, NEW r \in Requests, GetSku(r)
  PROVE  IndInv'
<1> DEFINE s == CurrentSku(r)
<1> DEFINE l == [req[r] EXCEPT !.pc = "hget",
                               !.sku = IF lock[s] = r THEN dirty[s] ELSE sku[s]]
<1>1. req[r].pc = "get"
  BY DEF GetSku
<1>2. CASE RollBack(r, 4)
  BY <1>1, <1>2, RollBackStep DEF InTransaction
<1>3. CASE req' = [req EXCEPT ![r] = l] /\ UNCHANGED <<db, cart, now>>
  <2>1. orders[r] = Nil /\ req[r] \in Request /\ LocalOK(req[r])
    BY <1>1, NotDoneNoOrder
  <2>2. s \in Skus /\ lock[s] # r
    BY <1>1, CurrentItem
  <2>3. sku[s] \in SkuRow /\ sku[s].stock + sku[s].sales = Total(s)
    BY <2>2 DEF IndInv, TypeOK, Conservation, Total
  <2>4. /\ l \in Request
        /\ l.pc = "hget" /\ l.sku = sku[s] /\ l.goods = req[r].goods
        /\ l.sku_ids = req[r].sku_ids /\ l.at = req[r].at
        /\ l.user = req[r].user /\ l.res = req[r].res
        /\ l.order_id = req[r].order_id
    BY <2>1, <2>2, <2>3 DEF Request, PCs, InTransaction
  <2> HIDE DEF l
  <2>5. LocalOK(l)
    BY <1>1, <2>1, <2>3, <2>4 DEF LocalOK, InTransaction, CurrentSku
  <2>6. cart' \in [Users -> [Skus -> Int \cup {Nil}]] /\ now' \in Nat
    BY <1>3 DEF IndInv, TypeOK
  <2> QED BY <1>3, <2>1, <2>4, <2>5, <2>6, LocalStep
<1> QED BY <1>2, <1>3 DEF GetSku

\* Reading the cart entry keeps it: the count that goes on to the update is
\* an integer and covered by the stock read before.
LEMMA HgetCountStep ==
  ASSUME IndInv, NEW r \in Requests, HgetCount(r)
  PROVE  IndInv'
<1> DEFINE n == cart[req[r].user][CurrentSku(r)]
<1> DEFINE l == [req[r] EXCEPT !.pc = "update", !.count = n]
<1>1. req[r].pc = "hget"
  BY DEF HgetCount
<1>2. CASE RollBack(r, 7) \/ RollBack(r, 6)
  BY <1>1, <1>2, RollBackStep DEF InTransaction
<1>3. CASE /\ n # Nil /\ ~(n > req[r].sku.stock)
           /\ req' = [req EXCEPT ![r] = l] /\ UNCHANGED <<db, cart, now>>
  <2>1. orders[r] = Nil /\ req[r] \in Request /\ LocalOK(req[r])
    BY <1>1, NotDoneNoOrder
  <2>2. n \in Int
    BY <1>1, <1>3, CurrentItem DEF IndInv, TypeOK
  <2>3. n =< req[r].sku.stock
    BY <1>3, <2>1, <2>2 DEF Request, SkuRow
  <2>4. /\ l \in Request
        /\ l.pc = "update" /\ l.count = n /\ l.goods = req[r].goods
        /\ l.sku_ids = req[r].sku_ids /\ l.at = req[r].at
        /\ l.user = req[r].user /\ l.res = req[r].res /\ l.sku = req[r].sku
        /\ l.order_id = req[r].order_id
    BY <2>1, <2>2 DEF Request, PCs, InTransaction
  <2> HIDE DEF l
  <2>5. LocalOK(l)
    BY <1>1, <2>1, <2>3, <2>4 DEF LocalOK, InTransaction
  <2>6. cart' \in [Users -> [Skus -> Int \cup {Nil}]] /\ now' \in Nat
    BY <1>3 DEF IndInv, TypeOK
  <2> QED BY <1>3, <2>1, <2>4, <2>5, <2>6, LocalStep
<1> QED BY <1>2, <1>3 DEF HgetCount

\* A lost optimistic update, with a retry or without, keeps it.
LEMMA UpdateMissedStep ==
  ASSUME IndInv, NEW r \in Requests, UpdateMissed(r)
  PROVE  IndInv'
<1> DEFINE again == [req[r] EXCEPT !.pc = "get", !.i = req[r].i + 1]
<1>1. req[r].pc = "update"
  BY DEF UpdateMissed
<1>2. orders[r] = Nil /\ req[r] \in Request /\ LocalOK(req[r])
  BY <1>1, NotDoneNoOrder
<1>3. CASE RollBack(r, 7)
  BY <1>1, <1>3, RollBackStep DEF InTransaction
<1>4. CASE req' = [req EXCEPT ![r] = again] /\ UNCHANGED <<db, cart, now>>
  <2>1. req[r].i + 1 \in Nat
    BY <1>2 DEF Request
  <2>2. /\ again \in Request
        /\ again.pc = "get" /\ again.goods = req[r].goods
        /\ again.sku_ids = req[r].sku_ids /\ again.at = req[r].at
        /\ again.user = req[r].user /\ again.res = req[r].res
        /\ again.order_id = req[r].order_id
    BY <1>2, <2>1 DEF Request, PCs, InTransaction
  <2> HIDE DEF again
  <2>3. LocalOK(again)
    BY <1>1, <1>2, <2>2 DEF LocalOK, InTransaction
  <2>4. cart' \in [Users -> [Skus -> Int \cup {Nil}]] /\ now' \in Nat
    BY <1>4 DEF IndInv, TypeOK
  <2> QED BY <1>2, <1>4, <2>2, <2>3, <2>4, LocalStep
<1>5. CASE req' = [req EXCEPT ![r] = NextItem(req[r])] /\ UNCHANGED <<db, cart, now>>
  <2>1. /\ req[r].user \in Users /\ req[r].sku_ids \in SkuLists
        /\ req[r].res = Nil
        /\ req[r].at \in 1..Len(req[r].sku_ids)
        /\ req[r].order_id \in Nat \X Users
        /\ \A s \in Skus : req[r].goods[s] # Nil =>
             \E k \in 1..(req[r].at - 1) : req[r].sku_ids[k] = s
    BY <1>1, <1>2 DEF LocalOK, InTransaction
  <2>2. \A k \in 1..(req[r].at - 1) : k \in 1..req[r].at
    BY <1>2 DEF Request
  <2>3. \A s \in Skus : req[r].goods[s] # Nil =>
             \E k \in 1..req[r].at : req[r].sku_ids[k] = s
    BY <2>1, <2>2
  <2>4. /\ NextItem(req[r]) \in Request /\ LocalOK(NextItem(req[r]))
        /\ NextItem(req[r]).goods = req[r].goods
    BY <1>2, <2>1, <2>3, NextItemOK
  <2>5. cart' \in [Users -> [Skus -> Int \cup {Nil}]] /\ now' \in Nat
    BY <1>5 DEF IndInv, TypeOK
  <2> QED BY <1>2, <1>5, <2>4, <2>5, LocalStep
<1>6. req[r].i # 2 =>
         /\ req' = [req EXCEPT ![r] = IF req[r].i + 1 < Tries THEN again
                                      ELSE NextItem(req[r])]
         /\ UNCHANGED <<db, cart, now>>
  BY DEF UpdateMissed, NextTry
<1>7. req[r].i = 2 => RollBack(r, 7)
  BY DEF UpdateMissed
<1> HIDE DEF again
<1> QED BY <1>3, <1>4, <1>5, <1>6, <1>7

\* Saving the totals keeps it.
LEMMA SaveOrderStep ==
  ASSUME IndInv, NEW r \in Requests, SaveOrder(r)
  PROVE  IndInv'
<1> DEFINE l == [req[r] EXCEPT !.pc = "hdel",
                               !.order = [total_count |-> req[r].total_count,
                                          total_price |-> req[r].total_price]]
<1>1. /\ req[r].pc = "save" /\ UNCHANGED <<db, cart, now>>
      /\ req' = [req EXCEPT ![r] = l]
  BY DEF SaveOrder
<1>2. orders[r] = Nil /\ req[r] \in Request /\ LocalOK(req[r])
  BY <1>1, NotDoneNoOrder
<1>3. l \in Request /\ l.goods = req[r].goods /\ LocalOK(l)
  BY <1>1, <1>2 DEF Request, PCs, InTransaction, LocalOK
<1>4. cart' \in [Users -> [Skus -> Int \cup {Nil}]] /\ now' \in Nat
  BY <1>1 DEF IndInv, TypeOK
<1> HIDE DEF l
<1> QED BY <1>1, <1>2, <1>3, <1>4, LocalStep

\* Deleting the cart entries keeps it.
LEMMA DeleteFromCartStep ==
  ASSUME IndInv, NEW r \in Requests, DeleteFromCart(r)
  PROVE  IndInv'
<1> DEFINE l == [req[r] EXCEPT !.pc = "commit"]
<1>1. /\ req[r].pc = "hdel" /\ UNCHANGED <<db, now>>
      /\ req' = [req EXCEPT ![r] = l]
      /\ cart' = [cart EXCEPT ![req[r].user] = HDel(@, Items(r))]
  BY DEF DeleteFromCart
<1>2. orders[r] = Nil /\ req[r] \in Request /\ LocalOK(req[r])
  BY <1>1, NotDoneNoOrder
<1>3. l \in Request /\ l.goods = req[r].goods /\ LocalOK(l)
  BY <1>1, <1>2 DEF Request, PCs, InTransaction, LocalOK
<1>4. ASSUME NEW h \in [Skus -> Int \cup {Nil}]
      PROVE  HDel(h, Items(r)) \in [Skus -> Int \cup {Nil}]
  BY DEF HDel
<1>5. cart' \in [Users -> [Skus -> Int \cup {Nil}]] /\ now' \in Nat
  BY <1>1, <1>4 DEF IndInv, TypeOK
<1> HIDE DEF l
<1> QED BY <1>1, <1>2, <1>3, <1>5, LocalStep

\* The optimistic update.  No one else holds the row, so its newest version
\* is the committed one; its stock is the one read earlier, hence by
\* Conservation its sales are too, and the new version moves exactly the new
\* line from stock to sales.
LEMMA UpdateSkuStep ==
  ASSUME IndInv, NEW r \in Requests, UpdateSku(r)
  PROVE  IndInv'
<1> DEFINE s == CurrentSku(r)
<1> DEFINE row == req[r].sku
<1> DEFINE n == req[r].count
<1> DEFINE line == [count |-> n, price |-> row.price]
<1> DEFINE l == [req[r] EXCEPT !.goods[s] = line,
                               !.total_count = @ + n,
                               !.total_price = @ + row.price * n]
<1> DEFINE version == [dirty[s] EXCEPT !.stock = row.stock - n,
                                       !.sales = row.sales + n]
<1>1. /\ req[r].pc = "update"
      /\ lock[s] \in {Nil, r}
      /\ dirty[s].stock = row.stock
      /\ dirty' = [dirty EXCEPT ![s] = version]
      /\ req' = [req EXCEPT ![r] = NextItem(l)]
      /\ lock' = [lock EXCEPT ![s] = r]
      /\ UNCHANGED <<sku, orders, cart, now>>
  BY DEF UpdateSku, TakeItem, RowBusy
<1>2. orders[r] = Nil /\ req[r] \in Request /\ LocalOK(req[r])
  BY <1>1, NotDoneNoOrder
<1>3. s \in Skus /\ req[r].goods[s] = Nil /\ lock[s] = Nil
  BY <1>1, CurrentItem
<1>4. TypeOK
  BY DEF IndInv
<1>5. row \in SkuRow /\ n \in Int /\ line \in Line /\ n =< row.stock
  BY <1>1, <1>2 DEF Request, SkuRow, Line, LocalOK
<1>6. dirty[s] = sku[s] /\ sku[s] \in SkuRow
  BY <1>3, <1>4 DEF IndInv, RowVersions, TypeOK
<1>7. row.stock + row.sales = Total(s) /\ sku[s].stock + sku[s].sales = Total(s)
  BY <1>1, <1>2, <1>3 DEF LocalOK, CurrentSku, IndInv, Conservation, Total
<1>8. sku[s].stock = row.stock /\ sku[s].sales = row.sales
  <2>1. /\ row.stock \in Int /\ row.sales \in Int
        /\ sku[s].stock \in Int /\ sku[s].sales \in Int
    BY <1>5, <1>6 DEF SkuRow
  <2>2. sku[s].stock = row.stock
    BY <1>1, <1>6
  <2>3. row.stock + row.sales = sku[s].stock + sku[s].sales
    BY <1>7
  <2>4. \A a, b, c, d \in Int : a = c /\ c + d = a + b => b = d
    OBVIOUS
  <2> HIDE DEF row, s
  <2>5. sku[s].sales = row.sales
    BY <2>1, <2>2, <2>3, <2>4
  <2> QED BY <2>2, <2>5
<1>9. /\ version \in SkuRow
      /\ version.stock = sku[s].stock - n
      /\ version.sales = sku[s].sales + n
      /\ n =< sku[s].stock
  <2>1. row.stock - n \in Int /\ row.sales + n \in Int
    BY <1>5 DEF SkuRow
  <2>2. /\ version \in SkuRow
        /\ version.stock = row.stock - n
        /\ version.sales = row.sales + n
    BY <1>6, <2>1 DEF SkuRow
  <2> QED BY <1>5, <1>8, <2>2
<1>10. /\ l \in Request
       /\ l.goods = [req[r].goods EXCEPT ![s] = line]
       /\ l.pc = "update"
       /\ l.sku_ids = req[r].sku_ids /\ l.at = req[r].at
       /\ l.user = req[r].user /\ l.res = req[r].res
       /\ l.order_id = req[r].order_id
  <2>1. [req[r].goods EXCEPT ![s] = line] \in Goods
    BY <1>2, <1>3, <1>5 DEF Request, Goods
  <2>2. req[r].total_count + n \in Int
    BY <1>2, <1>5 DEF Request
  <2>3. req[r].total_price + row.price * n \in Int
    BY <1>2, <1>5 DEF Request, SkuRow
  <2> HIDE DEF line, n, row
  <2> QED BY <1>1, <1>2, <2>1, <2>2, <2>3 DEF Request
<1> HIDE DEF l, version
<1>11. /\ NextItem(l) \in Request /\ LocalOK(NextItem(l))
       /\ NextItem(l).goods = [req[r].goods EXCEPT ![s] = line]
       /\ NextItem(l).pc # "done"
  <2>1. /\ l.user \in Users /\ l.sku_ids \in SkuLists /\ l.res = Nil
        /\ l.at \in 1..Len(l.sku_ids) /\ l.order_id \in Nat \X Users
        /\ \A t \in Skus : req[r].goods[t] # Nil =>
             \E k \in 1..(l.at - 1) : l.sku_ids[k] = t
    BY <1>1, <1>2, <1>10 DEF LocalOK, InTransaction
  <2>2. l.at \in 1..l.at /\ l.sku_ids[l.at] = s
    BY <1>10, <2>1 DEF CurrentSku, Request
  <2>3. \A k \in 1..(l.at - 1) : k \in 1..l.at
    BY <1>10 DEF Request
  <2>4. \A t \in Skus : l.goods[t] # Nil =>
             \E k \in 1..l.at : l.sku_ids[k] = t
    <3>1. ASSUME NEW t \in Skus, l.goods[t] # Nil
          PROVE  t = s \/ req[r].goods[t] # Nil
      BY <3>1, <1>2, <1>10 DEF Request, Goods
    <3> QED BY <2>1, <2>2, <2>3, <3>1
  <2> QED BY <1>10, <2>1, <2>4, NextItemOK
<1>12. TypeOK'
  BY <1>1, <1>3, <1>4, <1>9, <1>11 DEF TypeOK
<1>13. LocalsOK'
  BY <1>1, <1>4, <1>11 DEF IndInv, LocalsOK, TypeOK
<1>14. /\ \A q \in Requests, t \in Skus :
             req'[q].goods[t] = IF q = r /\ t = s THEN line ELSE req[q].goods[t]
       /\ \A t \in Skus : lock'[t] = IF t = s THEN r ELSE lock[t]
       /\ \A t \in Skus : dirty'[t] = IF t = s THEN version ELSE dirty[t]
  <2>1. \A t \in Skus : req'[r].goods[t] = IF t = s THEN line ELSE req[r].goods[t]
    BY <1>1, <1>2, <1>4, <1>11 DEF TypeOK, Request, Goods
  <2>2. \A q \in Requests : q # r => req'[q] = req[q]
    BY <1>1, <1>4 DEF TypeOK
  <2>3. \A t \in Skus : /\ lock'[t] = IF t = s THEN r ELSE lock[t]
                        /\ dirty'[t] = IF t = s THEN version ELSE dirty[t]
    BY <1>1, <1>4 DEF TypeOK
  <2> QED BY <2>1, <2>2, <2>3
<1>15. line # Nil
  BY <1>5, NilAssumption
<1>16. LocksMatchLines'
  <2> SUFFICES ASSUME NEW q \in Requests, NEW t \in Skus
               PROVE  lock'[t] = q <=> req'[q].goods[t] # Nil
    BY DEF LocksMatchLines
  <2>1. CASE t = s /\ q = r
    BY <1>14, <1>15, <2>1
  <2>2. CASE t = s /\ q # r
    BY <1>3, <1>14, <2>2, NilAssumption DEF IndInv, LocksMatchLines
  <2>3. CASE t # s
    BY <1>14, <2>3 DEF IndInv, LocksMatchLines
  <2> QED BY <2>1, <2>2, <2>3
<1>17. RowVersions'
  <2> SUFFICES ASSUME NEW t \in Skus
               PROVE  /\ lock'[t] = Nil => dirty'[t] = sku'[t]
                      /\ \A q \in Requests : lock'[t] = q =>
                            LET m == req'[q].goods[t].count IN
                            /\ dirty'[t].stock = sku'[t].stock - m
                            /\ dirty'[t].sales = sku'[t].sales + m
                            /\ m =< sku'[t].stock
    BY DEF RowVersions
  <2>1. CASE t = s
    <3>1. lock'[t] = r /\ r # Nil /\ dirty'[t] = version /\ sku'[t] = sku[s]
      BY <1>1, <1>14, <2>1, NilAssumption
    <3>2. req'[r].goods[t].count = n
      BY <1>14, <2>1
    <3> QED BY <1>9, <3>1, <3>2
  <2>2. CASE t # s
    BY <1>1, <1>14, <2>2 DEF IndInv, RowVersions
  <2> QED BY <2>1, <2>2
<1>18. OrdersAnswered'
  BY <1>1, <1>2, <1>4 DEF IndInv, OrdersAnswered, TypeOK
<1>19. NoOversell' /\ Conservation'
  BY <1>1 DEF IndInv, NoOversell, Conservation
<1> QED BY <1>12, <1>13, <1>16, <1>17, <1>18, <1>19 DEF IndInv

\* The rows that Commit publishes are the versions its own lines account for.
LEMMA CommitStep ==
  ASSUME IndInv, NEW r \in Requests, Commit(r)
  PROVE  IndInv'
<1> DEFINE l == Ended(r, 5)
<1> DEFINE o == [order_id |-> req[r].order_id, user |-> req[r].user,
                 goods |-> req[r].goods,
                 total_count |-> req[r].order.total_count,
                 total_price |-> req[r].order.total_price]
<1>1. /\ req[r].pc = "commit"
      /\ sku' = [s \in Skus |-> IF lock[s] = r THEN dirty[s] ELSE sku[s]]
      /\ lock' = [s \in Skus |-> IF lock[s] = r THEN Nil ELSE lock[s]]
      /\ orders' = [orders EXCEPT ![r] = o]
      /\ req' = [req EXCEPT ![r] = l]
      /\ UNCHANGED <<dirty, cart, now>>
  BY DEF Commit, Finish, Ended
<1>2. orders[r] = Nil /\ req[r] \in Request /\ LocalOK(req[r]) /\ TypeOK
  BY <1>1, NotDoneNoOrder DEF IndInv
<1>3. o \in Order
  BY <1>1, <1>2 DEF Order, Request, LocalOK, InTransaction
<1>4. 5 \in (0..7) \cup {ServerError}
  OBVIOUS
<1>5. /\ l \in Request /\ LocalOK(l)
      /\ l.goods = NoGoods /\ l.pc = "done" /\ l.res = 5
  BY <1>2, <1>4, EndedOK
<1> HIDE DEF l, o
<1>6. TypeOK'
  BY <1>1, <1>2, <1>3, <1>5 DEF TypeOK
<1>7. LocalsOK'
  BY <1>1, <1>2, <1>5 DEF IndInv, LocalsOK, TypeOK
<1>8. LocksMatchLines'
  BY <1>1, <1>2, <1>5, NilAssumption DEF IndInv, LocksMatchLines, NoGoods, TypeOK
<1>9. RowVersions'
  BY <1>1, <1>2, <1>5, NilAssumption DEF IndInv, RowVersions, TypeOK
<1>10. OrdersAnswered'
  BY <1>1, <1>2, <1>5 DEF IndInv, OrdersAnswered, TypeOK
<1>11. NoOversell' /\ Conservation'
  <2> SUFFICES ASSUME NEW s \in Skus
               PROVE  /\ sku'[s].stock >= 0
                      /\ sku'[s].stock + sku'[s].sales
                           = InitSku[s].stock + InitSku[s].sales
    BY DEF NoOversell, Conservation
  <2>1. CASE lock[s] # r
    BY <1>1, <2>1 DEF IndInv, NoOversell, Conservation
  <2>2. CASE lock[s] = r
    <3>1. sku'[s] = dirty[s]
      BY <1>1, <2>2
    <3>2. PICK n \in Int : /\ dirty[s].stock = sku[s].stock - n
                           /\ dirty[s].sales = sku[s].sales + n
                           /\ n =< sku[s].stock
      <4>1. req[r].goods[s] \in Line
        BY <1>2, <2>2 DEF IndInv, LocksMatchLines, Request, Goods
      <4>2. req[r].goods[s].count \in Int
        BY <4>1 DEF Line
      <4> QED BY <2>2, <4>2 DEF IndInv, RowVersions
    <3>3. sku[s].stock \in Int /\ sku[s].sales \in Int
      BY <1>2 DEF TypeOK, SkuRow
    <3>4. sku[s].stock + sku[s].sales = InitSku[s].stock + InitSku[s].sales
      BY DEF IndInv, Conservation
    <3>5. \A a, b, m \in Int : /\ (a - m) + (b + m) = a + b
                               /\ m =< a => a - m >= 0
      OBVIOUS
    <3> QED BY <3>1, <3>2, <3>3, <3>4, <3>5
  <2> QED BY <2>1, <2>2
<1> QED BY <1>6, <1>7, <1>8, <1>9, <1>10, <1>11 DEF IndInv

------------------------------------------------------------------------------

\* Every step of the system keeps the inductive invariant.
LEMMA NextIndInv == IndInv /\ [Next]_vars => IndInv'
<1> SUFFICES ASSUME IndInv, [Next]_vars PROVE IndInv'
  OBVIOUS
<1>1. ASSUME NEW r \in Requests, Step(r) PROVE IndInv'
  <2>1. CASE Refuse(r)
    BY <2>1, RefuseStep
  <2>2. CASE Accept(r)
    BY <2>2, AcceptStep
  <2>3. CASE Create(r)
    BY <2>3, CreateStep
  <2>4. CASE GetSku(r)
    BY <2>4, GetSkuStep
  <2>5. CASE HgetCount(r)
    BY <2>5, HgetCountStep
  <2>6. CASE UpdateSku(r)
    BY <2>6, UpdateSkuStep
  <2>7. CASE UpdateMissed(r)
    BY <2>7, UpdateMissedStep
  <2>8. CASE SaveOrder(r)
    BY <2>8, SaveOrderStep
  <2>9. CASE DeleteFromCart(r)
    BY <2>9, DeleteFromCartStep
  <2>10. CASE Commit(r)
    BY <2>10, CommitStep
  <2>11. CASE LockError(r)
    BY <2>11, RollBackStep DEF LockError, InTransaction
  <2>12. CASE RedisError(r)
    BY <2>12, RollBackStep DEF RedisError, InTransaction
  <2>13. CASE Crash(r)
    BY <2>13, RollBackStep DEF Crash
  <2> QED BY <1>1, <2>1, <2>2, <2>3, <2>4, <2>5, <2>6, <2>7, <2>8, <2>9,
             <2>10, <2>11, <2>12, <2>13 DEF Step, View
<1>2. ASSUME \/ Tick
             \/ UNCHANGED vars
      PROVE  IndInv'
  <2>1. UNCHANGED <<db, cart, req>> /\ now' \in Nat
    BY <1>2 DEF Tick, vars, db, IndInv, TypeOK
  <2>2. TypeOK'
    BY <2>1 DEF IndInv, TypeOK, db
  <2> QED BY <2>1, <2>2 DEF IndInv, LocalsOK, LocksMatchLines, RowVersions,
                            OrdersAnswered, NoOversell, Conservation, db
<1> QED BY <1>1, <1>2 DEF Next, Finished

\* OrderCommitView keeps the inductive invariant: isolation of concurrent
\* orders holds for any number of requests, items and users.
THEOREM Isolation == Spec => []IndInv
BY InitIndInv, NextIndInv, PTL DEF Spec

\* The tables and the view's local variables hold values of their types.
THEOREM TypeCorrect == Spec => []TypeOK
<1>1. IndInv => TypeOK
  BY DEF IndInv
<1> QED BY <1>1, Isolation, PTL

\* The optimistic update of OrderCommitView never drives a stock negative.
THEOREM NeverOversold == Spec => []NoOversell
<1>1. IndInv => NoOversell
  BY DEF IndInv
<1> QED BY <1>1, Isolation, PTL

\* The optimistic update tests stock only, and sales are not lost either.
THEOREM StockAndSales == Spec => []Conservation
<1>1. IndInv => Conservation
  BY DEF IndInv
<1> QED BY <1>1, Isolation, PTL

\* An error reply leaves no order and no lock behind.
THEOREM FailuresAreClean == Spec => []FailureLeavesNoTrace
<1>1. IndInv => FailureLeavesNoTrace
  <2> SUFFICES ASSUME IndInv, NEW r \in Requests, req[r].pc = "done",
                      req[r].res # 5
               PROVE  r \notin Placed /\ \A s \in Skus : lock[s] # r
    BY DEF FailureLeavesNoTrace
  <2>1. r \notin Placed
    BY DEF Placed, IndInv, OrdersAnswered
  <2>2. \A s \in Skus : req[r].goods[s] = Nil
    BY DEF IndInv, LocalsOK, LocalOK, InTransaction
  <2> QED BY <2>1, <2>2 DEF IndInv, LocksMatchLines
<1> QED BY <1>1, Isolation, PTL

\* A request that took an item keeps counting as one: it can only commit or
\* break off from there.
LEMMA TookStays ==
  ASSUME IndInv, NEW p \in Requests, Step(p), NEW r \in Requests,
         NEW u, NEW s, TookFromCart(r, u, s)
  PROVE  TookFromCart(r, u, s)'
<1>1. req \in [Requests -> Request]
  BY DEF IndInv, TypeOK
<1>2. CASE p # r
  <2>1. req'[r] = req[r]
    BY <1>1, <1>2 DEF Step, View, Refuse, Accept, Create, GetSku, HgetCount,
       UpdateSku, TakeItem, UpdateMissed, SaveOrder, DeleteFromCart, Commit,
       LockError, RedisError, Crash, RollBack, Finish
  <2> QED BY <2>1 DEF TookFromCart, Items
<1>3. CASE p = r
  <2>1. req[r].pc \in {"commit", "done"}
    <3>1. LocalOK(req[r])
      BY DEF IndInv, LocalsOK
    <3> QED BY <3>1, NilAssumption DEF TookFromCart, LocalOK, ServerError
  <2>2. Commit(r) \/ (Crash(r) /\ req[r].pc = "commit")
    BY <1>3, <2>1 DEF Step, View, Refuse, Accept, Create, GetSku, HgetCount,
       UpdateSku, TakeItem, UpdateMissed, SaveOrder, DeleteFromCart, LockError,
       RedisError, Crash, InTransaction
  <2>3. PICK res \in {5, ServerError} : req' = [req EXCEPT ![r] = Ended(r, res)]
    BY <2>2 DEF Commit, Crash, RollBack, Finish, Ended
  <2>4. res \in (0..7) \cup {ServerError}
    BY <2>3
  <2>5. /\ req'[r].user = req[r].user /\ req'[r].sku_ids = req[r].sku_ids
        /\ req'[r].res = res
    BY <1>1, <2>3, <2>4, EndedOK
  <2> QED BY <2>3, <2>5 DEF TookFromCart, Items
<1> QED BY <1>2, <1>3

\* The cart of a refused order is untouched: only requests that committed or
\* broke off after hdel make an entry disappear.
THEOREM RefusalsKeepCart == Spec => []CartKeptOnRefusal
<1>1. Init => CartKeptOnRefusal
  BY DEF Init, CartKeptOnRefusal
<1>2. IndInv /\ CartKeptOnRefusal /\ [Next]_vars => CartKeptOnRefusal'
  <2> SUFFICES ASSUME IndInv, CartKeptOnRefusal, [Next]_vars,
                      NEW u \in Users,
                      NEW s \in Fields(InitCart[u]), s \notin Fields(cart'[u])
               PROVE  \E r \in Requests : TookFromCart(r, u, s)'
    BY DEF CartKeptOnRefusal
  <2>1. CASE s \notin Fields(cart[u])
    <3>1. PICK r \in Requests : TookFromCart(r, u, s)
      BY <2>1 DEF CartKeptOnRefusal
    <3>2. CASE \E p \in Requests : Step(p)
      BY <3>1, <3>2, TookStays
    <3>3. CASE UNCHANGED req
      BY <3>1, <3>3 DEF TookFromCart, Items
    <3> QED BY <3>2, <3>3 DEF Next, Tick, Finished, vars
  <2>2. CASE s \in Fields(cart[u])
    <3>1. PICK r \in Requests : DeleteFromCart(r)
      <4>1. cart' # cart
        BY <2>2
      <4> QED BY <4>1 DEF Next, Tick, Finished, vars, Step, View, Refuse, Accept,
            Create, GetSku, HgetCount, UpdateSku, TakeItem, UpdateMissed,
            SaveOrder, Commit, LockError, RedisError, Crash, RollBack
    <3>2. /\ req \in [Requests -> Request]
          /\ cart \in [Users -> [Skus -> Int \cup {Nil}]]
      BY DEF IndInv, TypeOK
    <3>3. /\ req'[r].pc = "commit" /\ req'[r].user = req[r].user
          /\ req'[r].sku_ids = req[r].sku_ids
      BY <3>1, <3>2 DEF DeleteFromCart, Request
    <3>4. cart' = [cart EXCEPT ![req[r].user] = HDel(@, Items(r))]
      BY <3>1 DEF DeleteFromCart
    <3>5. req[r].user = u
      BY <2>2, <3>2, <3>4
    <3>6. cart'[u] = HDel(cart[u], Items(r))
      BY <3>2, <3>4, <3>5
    <3>7. s \in Items(r)
      BY <2>2, <3>6 DEF HDel, Fields
    <3> QED BY <3>3, <3>5, <3>7 DEF TookFromCart, Items
  <2> QED BY <2>1, <2>2
<1> QED BY <1>1, <1>2, Isolation, PTL DEF Spec

------------------------------------------------------------------------------
(* The view implements module Inventory.                                    *)

\* Only the commit changes a committed row.
LEMMA OnlyCommitWrites ==
  ASSUME NEW r \in Requests, Step(r), ~Commit(r)
  PROVE  UNCHANGED <<sku, orders>>
BY DEF Step, View, Refuse, Accept, Create, GetSku, HgetCount, UpdateSku,
       TakeItem, UpdateMissed, SaveOrder, DeleteFromCart, LockError,
       RedisError, Crash, RollBack, db

\* A commit is one Purchase of everything on the order.
LEMMA CommitIsPurchase ==
  ASSUME IndInv, NEW r \in Requests, Commit(r)
  PROVE  Inv!Next
<1> DEFINE g == req[r].goods
<1> DEFINE o == [order_id |-> req[r].order_id, user |-> req[r].user,
                 goods |-> g,
                 total_count |-> req[r].order.total_count,
                 total_price |-> req[r].order.total_price]
<1> DEFINE placed == [p \in Requests |->
                        IF orders[p] = Nil THEN Nil ELSE Quantities(orders[p].goods)]
<1> DEFINE stock == [s \in Skus |-> sku[s].stock]
<1> DEFINE sales == [s \in Skus |-> sku[s].sales]
<1>0. PICK q : q = Quantities(g)
  OBVIOUS
<1>1. /\ req[r].pc = "commit"
      /\ sku' = [s \in Skus |-> IF lock[s] = r THEN dirty[s] ELSE sku[s]]
      /\ orders' = [orders EXCEPT ![r] = o]
  BY DEF Commit
<1>2. orders[r] = Nil /\ req[r] \in Request /\ LocalOK(req[r]) /\ TypeOK
  BY <1>1, NotDoneNoOrder DEF IndInv
<1>3. g \in Goods /\ o \in Order
  BY <1>1, <1>2 DEF Order, Request, LocalOK, InTransaction
<1>4. o # Nil
  BY <1>3, NilAssumption
<1>5. q \in [Skus -> Int \cup {Nil}] /\ q # Nil
  BY <1>0, <1>3, NilAssumption DEF Quantities, Goods, Line
<1>6. ASSUME NEW s \in Skus
      PROVE  /\ q[s] = Nil <=> lock[s] # r
             /\ lock[s] = r => /\ sku'[s].stock = sku[s].stock - q[s]
                               /\ sku'[s].sales = sku[s].sales + q[s]
                               /\ q[s] =< sku[s].stock
  <2>1. g[s] = Nil <=> lock[s] # r
    BY DEF IndInv, LocksMatchLines
  <2>2. CASE lock[s] # r
    BY <1>0, <2>1, <2>2 DEF Quantities
  <2>3. CASE lock[s] = r
    <3>1. q[s] = g[s].count
      BY <1>0, <2>1, <2>3 DEF Quantities
    <3>2. q[s] # Nil
      BY <1>3, <2>1, <2>3, <3>1, NilAssumption DEF Goods, Line
    <3> QED BY <1>1, <2>3, <3>1, <3>2 DEF IndInv, RowVersions
  <2> QED BY <2>2, <2>3
<1>7. placed[r] = Nil /\ placed' = [placed EXCEPT ![r] = q]
  <2>1. \A p \in Requests : orders'[p] = IF p = r THEN o ELSE orders[p]
    BY <1>1, <1>2 DEF TypeOK
  <2>2. o.goods = g
    OBVIOUS
  <2> HIDE DEF o, g
  <2> QED BY <1>0, <1>2, <1>4, <2>1, <2>2
<1>8. placed'[r] = q
  BY <1>7
<1>9. \A s \in Inv!Fields(q) : q[s] =< stock[s]
  BY <1>5, <1>6 DEF Inv!Fields
<1>10. stock' = [s \in Skus |-> IF q[s] = Nil THEN stock[s] ELSE stock[s] - q[s]]
  <2>1. \A s \in Skus : sku'[s].stock =
            IF q[s] = Nil THEN sku[s].stock ELSE sku[s].stock - q[s]
    BY <1>1, <1>6
  <2> QED BY <2>1
<1>11. sales' = [s \in Skus |-> IF q[s] = Nil THEN sales[s] ELSE sales[s] + q[s]]
  <2>1. \A s \in Skus : sku'[s].sales =
            IF q[s] = Nil THEN sku[s].sales ELSE sku[s].sales + q[s]
    BY <1>1, <1>6
  <2> QED BY <2>1
<1>12. Inv!Purchase(r, q)
  BY <1>5, <1>7, <1>9, <1>10, <1>11, Zenon DEF Inv!Purchase
<1>13. q \in {placed'[r]}
  BY <1>8, Zenon
<1> QED BY <1>12, <1>13, Zenon DEF Inv!Next

\* OrderCommitView implements the one-step order: whatever requests
\* interleave, retry, roll back or break off, what is committed changes one
\* whole order at a time.
THEOREM OrdersAreAtomic == Spec => AtomicOrders
<1>1. Init => Inv!Init
  BY DEF Init, Inv!Init
<1>2. IndInv /\ [Next]_vars => [Inv!Next]_(Inv!ivars)
  <2> SUFFICES ASSUME IndInv, [Next]_vars
               PROVE  Inv!Next \/ UNCHANGED Inv!ivars
    OBVIOUS
  <2>1. CASE \E r \in Requests : Commit(r)
    BY <2>1, CommitIsPurchase
  <2>2. CASE ~\E r \in Requests : Commit(r)
    <3>1. UNCHANGED <<sku, orders>>
      BY <2>2, OnlyCommitWrites DEF Next, Tick, Finished, vars, db
    <3> QED BY <3>1 DEF Inv!ivars
  <2> QED BY <2>1, <2>2
<1> QED BY <1>1, <1>2, Isolation, PTL DEF Spec, AtomicOrders, Inv!Spec

------------------------------------------------------------------------------
(* What a step of one request does, for the invariants that follow.         *)

\* A step of request r, by what it does to the local variables l of r, which
\* become m: the view begins, ends, or goes on as the code says.
SameOrder(l, m) ==
    m.user = l.user /\ m.sku_ids = l.sku_ids

SameLines(l, m) ==
    /\ SameOrder(l, m) /\ m.goods = l.goods
    /\ m.total_count = l.total_count /\ m.total_price = l.total_price

Ends(l, m) ==
    /\ SameOrder(l, m) /\ m.pc = "done" /\ m.goods = NoGoods
    /\ m.total_count = 0 /\ m.total_price = 0

Begins(l, m) ==
    /\ l.pc = "idle" /\ m.pc = "create" /\ m.goods = NoGoods
    /\ m.total_count = 0 /\ m.total_price = 0 /\ m.at = 1 /\ m.i = 0

Goes(l, m) ==
    \/ m.pc = "get" /\ l.at < Len(l.sku_ids) /\ m.at = l.at + 1 /\ m.i = 0
    \/ m.pc = "save" /\ l.at >= Len(l.sku_ids) /\ m.at = l.at

\* The step leaves the committed tables and the carts alone.
Quiet(r, l, m) ==
    /\ UNCHANGED <<sku, orders, cart>>
    /\ \/ Ends(l, m)
       \/ Begins(l, m)
       \/ /\ l.pc = "create" /\ m.pc = "get"
          /\ SameLines(l, m) /\ m.at = l.at /\ m.i = l.i
       \/ /\ l.pc = "get" /\ m.pc = "hget" /\ m.sku = sku[CurrentSku(r)]
          /\ SameLines(l, m) /\ m.at = l.at /\ m.i = l.i
       \/ /\ l.pc = "hget" /\ m.pc = "update" /\ m.sku = l.sku
          /\ m.count = cart[l.user][CurrentSku(r)] /\ m.count # Nil
          /\ SameLines(l, m) /\ m.at = l.at /\ m.i = l.i
       \/ /\ l.pc = "update" /\ l.sku.stock # sku[CurrentSku(r)].stock
          /\ SameLines(l, m)
          /\ \/ m.pc = "get" /\ m.at = l.at /\ m.i = l.i + 1
             \/ l.i >= 1 /\ Goes(l, m)
       \/ /\ l.pc = "save" /\ m.pc = "hdel" /\ SameLines(l, m)
          /\ m.order = [total_count |-> l.total_count, total_price |-> l.total_price]

Takes(r, l, m) ==
    LET s == CurrentSku(r) IN
    /\ l.pc = "update" /\ l.sku.stock = sku[s].stock
    /\ SameOrder(l, m) /\ Goes(l, m)
    /\ m.goods = [l.goods EXCEPT ![s] = [count |-> l.count, price |-> l.sku.price]]
    /\ m.total_count = l.total_count + l.count
    /\ m.total_price = l.total_price + l.sku.price * l.count
    /\ UNCHANGED <<sku, orders, cart>>

Deletes(r, l, m) ==
    /\ l.pc = "hdel" /\ m.pc = "commit" /\ SameLines(l, m) /\ m.order = l.order
    /\ cart' = [cart EXCEPT ![l.user] = HDel(@, Items(r))]
    /\ UNCHANGED <<sku, orders>>

Moves(r) ==
    /\ \A q \in Requests \ {r} : req'[q] = req[q]
    /\ \/ Quiet(r, req[r], req'[r])
       \/ Takes(r, req[r], req'[r])
       \/ Deletes(r, req[r], req'[r])
       \/ Commit(r) /\ Ends(req[r], req'[r])

\* A request that is answered ends.
LEMMA AnswerEnds ==
  ASSUME IndInv, NEW r \in Requests, NEW res, req' = [req EXCEPT ![r] = Ended(r, res)]
  PROVE  Ends(req[r], req'[r])
<1> DEFINE l == Ended(r, res)
<1>1. req'[r] = l
  BY DEF IndInv, TypeOK
<1>2. Idle.total_count = 0 /\ Idle.total_price = 0 /\ Idle.goods = NoGoods
  BY DEF Idle
<1>3. /\ l.pc = "done" /\ l.goods = NoGoods /\ l.total_count = 0 /\ l.total_price = 0
      /\ l.user = req[r].user /\ l.sku_ids = req[r].sku_ids
  BY <1>2, IdleOK DEF Ended, Request
<1> HIDE DEF l
<1> QED BY <1>1, <1>3 DEF Ends, SameOrder

\* Going on to the next item, or leaving the loop.
LEMMA NextItemGoes ==
  ASSUME NEW l \in Request, l.sku_ids \in SkuLists
  PROVE  Goes(l, NextItem(l)) /\ SameLines(l, NextItem(l))
<1>1. l.at \in Nat /\ Len(l.sku_ids) \in Nat
  BY RequestAssumption DEF Request
<1>2. CASE l.at < Len(l.sku_ids)
  <2>1. NextItem(l) = [l EXCEPT !.pc = "get", !.at = l.at + 1, !.i = 0]
    BY <1>2 DEF NextItem
  <2> QED BY <1>2, <2>1 DEF Goes, SameLines, SameOrder, Request
<1>3. CASE ~(l.at < Len(l.sku_ids))
  <2>1. NextItem(l) = [l EXCEPT !.pc = "save"]
    BY <1>3 DEF NextItem
  <2> QED BY <1>1, <1>3, <2>1 DEF Goes, SameLines, SameOrder, Request
<1> QED BY <1>2, <1>3

\* Every step of a request moves it as listed above, and no other request.
LEMMA StepMoves ==
  ASSUME IndInv, NEW r \in Requests, Step(r)
  PROVE  Moves(r)
<1>0. req \in [Requests -> Request] /\ req[r] \in Request /\ LocalOK(req[r])
  BY DEF IndInv, TypeOK, LocalsOK
<1>1. \A q \in Requests \ {r} : req'[q] = req[q]
  BY <1>0 DEF Step, View, Refuse, Accept, Create, GetSku, HgetCount,
       UpdateSku, TakeItem, UpdateMissed, SaveOrder, DeleteFromCart, Commit,
       LockError, RedisError, Crash, RollBack, Finish
<1>2. CASE \E res : RollBack(r, res)
  <2>1. PICK res : RollBack(r, res)
    BY <1>2
  <2>2. Ends(req[r], req'[r]) /\ UNCHANGED <<sku, orders, cart>>
    BY <2>1, AnswerEnds DEF RollBack, Finish, Ended
  <2> QED BY <1>1, <2>2 DEF Moves, Quiet
<1>3. CASE Refuse(r)
  <2>1. req[r] = Idle
    BY <1>0, <1>3 DEF Refuse, LocalOK
  <2>2. PICK res : req' = [req EXCEPT ![r].pc = "done", ![r].res = res]
    BY <1>3 DEF Refuse
  <2>3. req'[r] = [Idle EXCEPT !.pc = "done", !.res = res]
    BY <1>0, <2>1, <2>2 DEF Request
  <2>4. Ends(req[r], req'[r])
    BY <2>1, <2>3 DEF Ends, SameOrder, Idle
  <2> QED BY <1>1, <1>3, <2>4 DEF Moves, Quiet, Refuse, db
<1>4. CASE Accept(r)
  <2>1. req[r] = Idle
    BY <1>0, <1>4 DEF Accept, LocalOK
  <2>2. PICK u \in Users, ids \in SkuLists :
          req' = [req EXCEPT ![r] = [req[r] EXCEPT !.pc = "create", !.user = u,
                                         !.sku_ids = ids, !.order_id = <<now, u>>]]
    BY <1>4 DEF Accept
  <2>3. req'[r] = [req[r] EXCEPT !.pc = "create", !.user = u,
                                         !.sku_ids = ids, !.order_id = <<now, u>>]
    BY <1>0, <2>2
  <2>4. Begins(req[r], req'[r])
    BY <2>1, <2>3 DEF Begins, Idle
  <2> QED BY <1>1, <1>4, <2>4 DEF Moves, Quiet, Accept, db
<1>5. CASE req' = [req EXCEPT ![r].pc = "get"] /\ req[r].pc = "create"
           /\ UNCHANGED <<db, cart, now>>
  <2>1. req'[r] = [req[r] EXCEPT !.pc = "get"]
    BY <1>0, <1>5
  <2> QED BY <1>0, <1>1, <1>5, <2>1 DEF Moves, Quiet, SameLines, SameOrder, Request, db
<1>6. CASE GetSku(r) /\ ~\E res : RollBack(r, res)
  <2> DEFINE s == CurrentSku(r)
  <2>1. req[r].pc = "get" /\ UNCHANGED <<sku, orders, cart>>
        /\ req' = [req EXCEPT ![r] = [req[r] EXCEPT !.pc = "hget",
                           !.sku = IF lock[s] = r THEN dirty[s] ELSE sku[s]]]
    BY <1>6 DEF GetSku, db
  <2>2. lock[s] # r
    BY <2>1, CurrentItem
  <2>3. req'[r] = [req[r] EXCEPT !.pc = "hget", !.sku = sku[s]]
    BY <1>0, <2>1, <2>2
  <2> QED BY <1>0, <1>1, <2>1, <2>3 DEF Moves, Quiet, SameLines, SameOrder, Request
<1>7. CASE HgetCount(r) /\ ~\E res : RollBack(r, res)
  <2> DEFINE n == cart[req[r].user][CurrentSku(r)]
  <2>1. req[r].pc = "hget" /\ UNCHANGED <<sku, orders, cart>> /\ n # Nil
        /\ req' = [req EXCEPT ![r] = [req[r] EXCEPT !.pc = "update", !.count = n]]
    BY <1>7 DEF HgetCount, db
  <2>2. req'[r] = [req[r] EXCEPT !.pc = "update", !.count = n]
    BY <1>0, <2>1
  <2> QED BY <1>0, <1>1, <2>1, <2>2 DEF Moves, Quiet, SameLines, SameOrder, Request
<1>8. ASSUME req[r].pc = "update", ~RowBusy(r)
      PROVE  /\ dirty[CurrentSku(r)] = sku[CurrentSku(r)]
             /\ req[r].sku_ids \in SkuLists
             /\ CurrentSku(r) \in Skus
  <2>1. CurrentSku(r) \in Skus /\ lock[CurrentSku(r)] # r
    BY <1>8, CurrentItem
  <2>2. req[r].sku_ids \in SkuLists
    BY <1>0, <1>8 DEF LocalOK, InTransaction
  <2> QED BY <1>8, <2>1, <2>2 DEF RowBusy, IndInv, RowVersions
<1>9. CASE UpdateSku(r)
  <2> DEFINE s == CurrentSku(r)
             l == [req[r] EXCEPT
                     !.goods = [req[r].goods EXCEPT ![s] = [count |-> req[r].count,
                                                            price |-> req[r].sku.price]],
                     !.total_count = req[r].total_count + req[r].count,
                     !.total_price = req[r].total_price + req[r].sku.price * req[r].count]
  <2>1. /\ req[r].pc = "update" /\ ~RowBusy(r)
        /\ UNCHANGED <<sku, orders, cart>> /\ dirty[s].stock = req[r].sku.stock
        /\ req' = [req EXCEPT ![r] = NextItem(l)]
    BY <1>0, <1>9 DEF UpdateSku, TakeItem, Request
  <2>2. req[r].sku.stock = sku[s].stock /\ req[r].sku_ids \in SkuLists
    BY <1>8, <2>1
  <2>3. /\ l \in Request
        /\ l.goods = [req[r].goods EXCEPT ![s] = [count |-> req[r].count,
                                                  price |-> req[r].sku.price]]
        /\ l.total_count = req[r].total_count + req[r].count
        /\ l.total_price = req[r].total_price + req[r].sku.price * req[r].count
        /\ l.user = req[r].user /\ l.sku_ids = req[r].sku_ids /\ l.at = req[r].at
    <3>1. s \in Skus
      BY <1>8, <2>1
    <3>2. req[r].count \in Int /\ req[r].sku.price \in Int /\ req[r].total_count \in Int
          /\ req[r].total_price \in Int
      BY <1>0 DEF Request, SkuRow
    <3>3. [count |-> req[r].count, price |-> req[r].sku.price] \in Line
      BY <3>2 DEF Line
    <3>4. [req[r].goods EXCEPT ![s] = [count |-> req[r].count,
                                       price |-> req[r].sku.price]] \in Goods
      BY <1>0, <3>1, <3>3 DEF Request, Goods
    <3>5. /\ req[r].total_count + req[r].count \in Int
          /\ req[r].total_price + req[r].sku.price * req[r].count \in Int
      BY <3>2
    <3> QED BY <1>0, <3>4, <3>5 DEF Request
  <2> HIDE DEF l
  <2>4. Goes(l, NextItem(l)) /\ SameLines(l, NextItem(l))
    BY <2>2, <2>3, NextItemGoes
  <2>5. req'[r] = NextItem(l)
    BY <1>0, <2>1
  <2>6. Takes(r, req[r], req'[r])
    BY <2>1, <2>2, <2>3, <2>4, <2>5 DEF Takes, Goes, SameLines, SameOrder
  <2> QED BY <1>1, <2>6 DEF Moves
<1>10. CASE UpdateMissed(r) /\ ~\E res : RollBack(r, res)
  <2>1. /\ req[r].pc = "update" /\ ~RowBusy(r) /\ UNCHANGED <<sku, orders, cart>>
        /\ dirty[CurrentSku(r)].stock # req[r].sku.stock
        /\ req' = [req EXCEPT ![r] = NextTry(req[r])]
    BY <1>10 DEF UpdateMissed, db
  <2>2. req[r].sku.stock # sku[CurrentSku(r)].stock /\ req[r].sku_ids \in SkuLists
    BY <1>8, <2>1
  <2>3. req'[r] = NextTry(req[r])
    BY <1>0, <2>1
  <2>4. CASE req[r].i + 1 < Tries
    <3>1. req'[r] = [req[r] EXCEPT !.pc = "get", !.i = req[r].i + 1]
      BY <2>3, <2>4 DEF NextTry
    <3>2. SameLines(req[r], req'[r]) /\ req'[r].pc = "get" /\ req'[r].at = req[r].at
          /\ req'[r].i = req[r].i + 1
      BY <1>0, <3>1 DEF SameLines, SameOrder, Request
    <3> QED BY <1>1, <2>1, <2>2, <3>2 DEF Moves, Quiet
  <2>5. CASE ~(req[r].i + 1 < Tries)
    <3>1. req'[r] = NextItem(req[r])
      BY <2>3, <2>5 DEF NextTry
    <3>2. req[r].i >= 1
      BY <1>0, <2>5 DEF Tries, Request
    <3>3. Goes(req[r], req'[r]) /\ SameLines(req[r], req'[r])
      BY <1>0, <2>2, <3>1, NextItemGoes
    <3> QED BY <1>1, <2>1, <2>2, <3>2, <3>3 DEF Moves, Quiet
  <2> QED BY <2>4, <2>5
<1>11. CASE SaveOrder(r)
  <2>1. req'[r] = [req[r] EXCEPT !.pc = "hdel",
                   !.order = [total_count |-> req[r].total_count,
                              total_price |-> req[r].total_price]]
    BY <1>0, <1>11 DEF SaveOrder
  <2>2. req'[r].pc = "hdel" /\ SameLines(req[r], req'[r])
        /\ req'[r].order = [total_count |-> req[r].total_count,
                            total_price |-> req[r].total_price]
    BY <1>0, <2>1 DEF SameLines, SameOrder, Request
  <2> QED BY <1>1, <1>11, <2>2 DEF Moves, Quiet, SaveOrder, db
<1>12. CASE DeleteFromCart(r)
  <2>1. req'[r] = [req[r] EXCEPT !.pc = "commit"]
    BY <1>0, <1>12 DEF DeleteFromCart
  <2>2. req'[r].pc = "commit" /\ SameLines(req[r], req'[r]) /\ req'[r].order = req[r].order
    BY <1>0, <2>1 DEF SameLines, SameOrder, Request
  <2> QED BY <1>1, <1>12, <2>2 DEF Moves, Deletes, DeleteFromCart, db
<1>13. CASE Commit(r)
  <2>1. Ends(req[r], req'[r])
    BY <1>13, AnswerEnds DEF Commit, Finish, Ended
  <2> QED BY <1>1, <1>13, <2>1 DEF Moves
<1>14. CASE Create(r) /\ ~\E res : RollBack(r, res)
  BY <1>5, <1>14 DEF Create
<1> QED BY <1>2, <1>3, <1>4, <1>6, <1>7, <1>9, <1>10, <1>11, <1>12, <1>13, <1>14
        DEF Step, View, LockError, RedisError, Crash

------------------------------------------------------------------------------
(* The ledger and the totals.                                               *)

\* An order without lines has no units and costs nothing.
LEMMA NoLines == LineCount(NoGoods) = 0 /\ LinePrice(NoGoods) = 0
<1>1. Fields(NoGoods) = {}
  BY DEF Fields, NoGoods
<1>2. IsFiniteSet({})
  BY FS_EmptySet
<1> QED BY <1>1, <1>2, SumStep DEF LineCount, LinePrice

\* A new line adds its units and its price to the totals of an order.
LEMMA LineAdded ==
  ASSUME NEW g \in Goods, NEW s \in Skus, g[s] = Nil, NEW line \in Line
  PROVE  LET h == [g EXCEPT ![s] = line] IN
         /\ LineCount(h) = LineCount(g) + line.count
         /\ LinePrice(h) = LinePrice(g) + line.price * line.count
<1> DEFINE h == [g EXCEPT ![s] = line]
           F == Fields(g)
           gc == [i \in Fields(g) |-> g[i].count]
           hc == [i \in Fields(h) |-> h[i].count]
           gp == [i \in Fields(g) |-> g[i].price * g[i].count]
           hp == [i \in Fields(h) |-> h[i].price * h[i].count]
<1>1. Fields(h) = F \cup {s} /\ s \notin F /\ F \subseteq Skus
  BY NilAssumption DEF Goods, Fields
<1>2. IsFiniteSet(F)
  BY <1>1, FiniteAssumption, FS_Subset
<1>3. h[s] = line /\ \A i \in F : h[i] = g[i]
  BY <1>1 DEF Goods
<1>4. line.count \in Int /\ line.price \in Int /\ line.price * line.count \in Int
  BY DEF Line
<1>5. ASSUME NEW i \in F PROVE g[i].count \in Int /\ g[i].price * g[i].count \in Int
  <2>1. g[i] \in Line
    BY <1>1 DEF Goods, Fields
  <2>2. g[i].count \in Int /\ g[i].price \in Int
    BY <2>1 DEF Line
  <2> QED BY <2>2
<1> HIDE DEF h, F
<1>6. LineCount(h) = line.count + SumOf(hc, F)
  <2>1. hc[s] = line.count /\ \A i \in F \cup {s} : hc[i] \in Int
    BY <1>1, <1>3, <1>4, <1>5
  <2>2. LineCount(h) = SumOf(hc, F \cup {s})
    BY <1>1 DEF LineCount
  <2> HIDE DEF hc
  <2> QED BY <1>1, <1>2, <2>1, <2>2, SumAdd
<1>7. SumOf(hc, F) = LineCount(g) /\ LineCount(g) \in Int
  <2>1. \A i \in F : hc[i] = gc[i] /\ gc[i] \in Int
    BY <1>1, <1>3, <1>5 DEF F
  <2>2. LineCount(g) = SumOf(gc, F)
    BY DEF LineCount, F
  <2> HIDE DEF hc, gc
  <2> QED BY <1>2, <2>1, <2>2, SumSame, SumRemove
<1>8. LinePrice(h) = line.price * line.count + SumOf(hp, F)
  <2>1. hp[s] = line.price * line.count /\ \A i \in F \cup {s} : hp[i] \in Int
    BY <1>1, <1>3, <1>4, <1>5
  <2>2. LinePrice(h) = SumOf(hp, F \cup {s})
    BY <1>1 DEF LinePrice
  <2> HIDE DEF hp
  <2> QED BY <1>1, <1>2, <2>1, <2>2, SumAdd
<1>9. SumOf(hp, F) = LinePrice(g) /\ LinePrice(g) \in Int
  <2>1. \A i \in F : hp[i] = gp[i] /\ gp[i] \in Int
    BY <1>1, <1>3, <1>5 DEF F
  <2>2. LinePrice(g) = SumOf(gp, F)
    BY DEF LinePrice, F
  <2> HIDE DEF hp, gp
  <2> QED BY <1>2, <2>1, <2>2, SumSame, SumRemove
<1>10. LineCount(h) = LineCount(g) + line.count
  BY <1>4, <1>6, <1>7
<1>11. LinePrice(h) = LinePrice(g) + line.price * line.count
  <2> DEFINE x == line.price * line.count
  <2>1. x \in Int
    BY <1>4
  <2> HIDE DEF x
  <2> QED BY <1>8, <1>9, <2>1 DEF x
<1> QED BY <1>10, <1>11 DEF h

\* What a commit does to the committed tables.
LEMMA CommitPlaces ==
  ASSUME IndInv, NEW r \in Requests, Commit(r)
  PROVE  /\ req[r].pc = "commit" /\ UNCHANGED cart
         /\ r \notin Placed /\ Placed' = Placed \cup {r}
         /\ \A q \in Requests \ {r} : orders'[q] = orders[q]
         /\ orders'[r].user = req[r].user /\ orders'[r].goods = req[r].goods
         /\ orders'[r].total_count = req[r].order.total_count
         /\ orders'[r].total_price = req[r].order.total_price
         /\ \A s \in Skus :
              /\ sku[s].stock \in Int
              /\ req[r].goods[s] = Nil => sku'[s] = sku[s]
              /\ req[r].goods[s] # Nil => /\ req[r].goods[s].count \in Int
                                          /\ sku'[s].stock = sku[s].stock - req[r].goods[s].count
<1> DEFINE o == [order_id |-> req[r].order_id, user |-> req[r].user,
                 goods |-> req[r].goods,
                 total_count |-> req[r].order.total_count,
                 total_price |-> req[r].order.total_price]
<1>1. /\ req[r].pc = "commit" /\ UNCHANGED cart
      /\ sku' = [s \in Skus |-> IF lock[s] = r THEN dirty[s] ELSE sku[s]]
      /\ orders' = [orders EXCEPT ![r] = o]
  BY DEF Commit
<1>2. orders[r] = Nil /\ req[r] \in Request /\ LocalOK(req[r]) /\ TypeOK
  BY <1>1, NotDoneNoOrder DEF IndInv
<1>3. o \in Order /\ o # Nil
  BY <1>1, <1>2, NilAssumption DEF Order, Request, LocalOK, InTransaction
<1>4. orders'[r] = o /\ \A q \in Requests \ {r} : orders'[q] = orders[q]
  BY <1>1, <1>2 DEF TypeOK
<1>5. /\ o.user = req[r].user /\ o.goods = req[r].goods
      /\ o.total_count = req[r].order.total_count
      /\ o.total_price = req[r].order.total_price
  OBVIOUS
<1> HIDE DEF o
<1>6. r \notin Placed /\ Placed' = Placed \cup {r}
  BY <1>2, <1>3, <1>4 DEF Placed
<1>7. ASSUME NEW s \in Skus
      PROVE  /\ sku[s].stock \in Int
             /\ req[r].goods[s] = Nil => sku'[s] = sku[s]
             /\ req[r].goods[s] # Nil => /\ req[r].goods[s].count \in Int
                                         /\ sku'[s].stock = sku[s].stock - req[r].goods[s].count
  <2>1. sku[s].stock \in Int
    BY <1>2 DEF TypeOK, SkuRow
  <2>2. lock[s] = r <=> req[r].goods[s] # Nil
    BY DEF IndInv, LocksMatchLines
  <2>3. ASSUME req[r].goods[s] # Nil PROVE req[r].goods[s].count \in Int
    BY <1>2, <2>3 DEF Request, Goods, Line
  <2> QED BY <1>1, <2>1, <2>2, <2>3 DEF IndInv, RowVersions
<1> QED BY <1>1, <1>4, <1>5, <1>6, <1>7

\* The quantities on orders are integers.
LEMMA OrderedIsInt ==
  ASSUME IndInv, NEW r \in Placed, NEW s \in Skus
  PROVE  Ordered(r, s) \in Int /\ r \in Requests /\ orders[r] \in Order
<1>1. orders[r] \in Order /\ r \in Requests
  BY DEF IndInv, TypeOK, Placed
<1>2. orders[r].goods \in Goods
  BY <1>1 DEF Order
<1> QED BY <1>1, <1>2 DEF Ordered, Fields, Goods, Line

\* A commit takes from the stock what its lines say, and changes nothing else
\* of the ledger.
LEMMA LedgerCommit ==
  ASSUME IndInv, Ledger, NEW r \in Requests, Commit(r)
  PROVE  Ledger'
<1> SUFFICES ASSUME NEW s \in Skus
             PROVE  InitSku[s].stock - sku'[s].stock
                      = SumOf([q \in Placed' |-> Ordered(q, s)'], Placed')
  BY DEF Ledger
<1> DEFINE f == [q \in Placed |-> Ordered(q, s)]
           g == [q \in Placed' |-> Ordered(q, s)']
           n == IF req[r].goods[s] # Nil THEN req[r].goods[s].count ELSE 0
<1>1. /\ r \notin Placed /\ Placed' = Placed \cup {r}
      /\ \A q \in Requests \ {r} : orders'[q] = orders[q]
      /\ orders'[r].goods = req[r].goods
      /\ n \in Int /\ sku[s].stock \in Int /\ sku'[s].stock = sku[s].stock - n
  BY CommitPlaces
<1>2. IsFiniteSet(Placed) /\ Placed \subseteq Requests
  BY FiniteAssumption, FS_Subset DEF Placed
<1>3. Ordered(r, s)' = n
  <2>1. req[r].goods \in Goods
    BY DEF IndInv, TypeOK, Request
  <2>2. s \in Fields(req[r].goods) <=> req[r].goods[s] # Nil
    BY <2>1 DEF Fields, Goods
  <2> QED BY <1>1, <2>2 DEF Ordered
<1>4. \A q \in Placed : Ordered(q, s)' = Ordered(q, s) /\ Ordered(q, s) \in Int
  BY <1>1, <1>2, OrderedIsInt DEF Ordered
<1>5. g[r] = n /\ \A q \in Placed : g[q] = f[q] /\ f[q] \in Int
  BY <1>1, <1>3, <1>4
<1>6. SumOf(f, Placed) = InitSku[s].stock - sku[s].stock
  BY DEF Ledger
<1>7. InitSku[s].stock \in Int
  BY SkuAssumption DEF SkuRow
<1> HIDE DEF f, g, n
<1>8. SumOf(g, Placed \cup {r}) = n + SumOf(g, Placed)
  BY <1>1, <1>2, <1>5, SumAdd
<1>9. SumOf(g, Placed) = SumOf(f, Placed)
  BY <1>2, <1>5, SumSame
<1>10. InitSku[s].stock - sku'[s].stock = n + (InitSku[s].stock - sku[s].stock)
  BY <1>1, <1>7
<1>11. InitSku[s].stock - sku'[s].stock = SumOf(g, Placed')
  BY <1>1, <1>6, <1>8, <1>9, <1>10
<1> QED BY <1>11 DEF g

\* The ledger, the totals of the orders and the running totals.
LedgerInv == Ledger /\ TotalsMatchLines /\ RunningTotals

\* Nothing has been sold at the start.
LEMMA InitLedger == Init => LedgerInv
<1> SUFFICES ASSUME Init PROVE LedgerInv
  OBVIOUS
<1>1. Placed = {}
  BY DEF Init, Placed
<1>2. Ledger
  <2> SUFFICES ASSUME NEW s \in Skus
               PROVE  InitSku[s].stock - sku[s].stock
                        = SumOf([r \in Placed |-> Ordered(r, s)], Placed)
    BY DEF Ledger
  <2>1. SumOf([r \in Placed |-> Ordered(r, s)], Placed) = 0
    BY <1>1, FS_EmptySet, SumStep
  <2>2. InitSku[s].stock \in Int /\ sku[s] = InitSku[s]
    BY SkuAssumption DEF SkuRow, Init
  <2> QED BY <2>1, <2>2
<1>3. \A r \in Requests : req[r] = Idle
  BY DEF Init
<1>4. TotalsOK(Idle)
  BY NoLines DEF TotalsOK, Idle
<1> QED BY <1>1, <1>2, <1>3, <1>4 DEF LedgerInv, TotalsMatchLines, RunningTotals

\* Every step of a request keeps the ledger.
LEMMA StepLedger ==
  ASSUME IndInv, LedgerInv, NEW r \in Requests, Step(r)
  PROVE  LedgerInv'
<1>0. Moves(r) /\ TotalsOK(req[r]) /\ req[r] \in Request /\ LocalOK(req[r])
  BY StepMoves DEF LedgerInv, RunningTotals, IndInv, TypeOK, LocalsOK
<1>1. Ledger'
  <2>1. CASE Commit(r)
    BY <2>1, LedgerCommit DEF LedgerInv
  <2>2. CASE ~Commit(r)
    <3>1. UNCHANGED <<sku, orders>>
      BY <2>2, OnlyCommitWrites
    <3> QED BY <3>1 DEF LedgerInv, Ledger, Ordered, Placed
  <2> QED BY <2>1, <2>2
<1>2. TotalsMatchLines'
  <2>1. CASE Commit(r)
    <3>1. /\ Placed' = Placed \cup {r} /\ req[r].pc = "commit"
          /\ \A q \in Requests \ {r} : orders'[q] = orders[q]
          /\ orders'[r].goods = req[r].goods
          /\ orders'[r].total_count = req[r].order.total_count
          /\ orders'[r].total_price = req[r].order.total_price
          /\ r \notin Placed
      BY <2>1, CommitPlaces
    <3>2. /\ orders'[r].total_count = LineCount(orders'[r].goods)
          /\ orders'[r].total_price = LinePrice(orders'[r].goods)
      BY <1>0, <3>1 DEF TotalsOK
    <3> QED BY <3>1, <3>2 DEF LedgerInv, TotalsMatchLines, Placed
  <2>2. CASE ~Commit(r)
    <3>1. UNCHANGED <<sku, orders>>
      BY <2>2, OnlyCommitWrites
    <3> QED BY <3>1 DEF LedgerInv, TotalsMatchLines, Placed
  <2> QED BY <2>1, <2>2
<1>3. TotalsOK(req'[r])
  <2>1. CASE Ends(req[r], req'[r]) \/ Begins(req[r], req'[r])
    BY <2>1, NoLines DEF Ends, Begins, TotalsOK
  <2>2. CASE Takes(r, req[r], req'[r])
    <3> DEFINE s == CurrentSku(r)
               line == [count |-> req[r].count, price |-> req[r].sku.price]
    <3>1. s \in Skus /\ req[r].goods[s] = Nil
      BY <2>2, CurrentItem DEF Takes
    <3>2. line \in Line /\ line.count = req[r].count /\ line.price = req[r].sku.price
          /\ req[r].goods \in Goods
      BY <1>0 DEF Line, Request, SkuRow
    <3>3. /\ req'[r].goods = [req[r].goods EXCEPT ![s] = line]
          /\ req'[r].total_count = req[r].total_count + req[r].count
          /\ req'[r].total_price = req[r].total_price + req[r].sku.price * req[r].count
          /\ req'[r].pc \in {"get", "save"}
      BY <2>2 DEF Takes, Goes
    <3> HIDE DEF line, s
    <3>4. /\ LineCount(req'[r].goods) = LineCount(req[r].goods) + line.count
          /\ LinePrice(req'[r].goods) = LinePrice(req[r].goods) + line.price * line.count
      BY <3>1, <3>2, <3>3, LineAdded
    <3> QED BY <1>0, <3>2, <3>3, <3>4 DEF TotalsOK
  <2>3. CASE SameLines(req[r], req'[r]) /\
             (req'[r].pc \in {"hdel", "commit"} =>
                 req'[r].order = [total_count |-> req[r].total_count,
                                  total_price |-> req[r].total_price])
    BY <1>0, <2>3 DEF SameLines, TotalsOK
  <2> QED BY <1>0, <2>1, <2>2, <2>3 DEF Moves, Quiet, Deletes, Goes, TotalsOK
<1>4. RunningTotals'
  BY <1>0, <1>3 DEF Moves, LedgerInv, RunningTotals
<1> QED BY <1>1, <1>2, <1>4 DEF LedgerInv

------------------------------------------------------------------------------
(* A cart entry is ordered once.                                            *)

\* The item a request is at stays the current one while it neither moves in
\* the list nor gets another list.
LEMMA SameItem ==
  ASSUME NEW r \in Requests, SameOrder(req[r], req'[r])
  PROVE  Items(r)' = Items(r) /\ (req'[r].at = req[r].at => CurrentSku(r)' = CurrentSku(r))
BY DEF SameOrder, Items, CurrentSku

\* The items of another request are those it had.
LEMMA OtherItem ==
  ASSUME NEW q \in Requests, req'[q] = req[q]
  PROVE  Items(q)' = Items(q) /\ CurrentSku(q)' = CurrentSku(q)
BY DEF Items, CurrentSku

\* A step that commits nothing orders nothing and puts nothing into a cart.
LEMMA NoCommit ==
  ASSUME IndInv, NEW r \in Requests, Moves(r), ~Commit(r)
  PROVE  /\ UNCHANGED <<sku, orders>> /\ Placed' = Placed
         /\ \A u \in Users, s \in Skus : cart'[u][s] \in {cart[u][s], Nil}
         /\ \A q, u, s : OrderedBy(q, u, s)' <=> OrderedBy(q, u, s)
         /\ \A u, s : NotOrdered(u, s)' <=> NotOrdered(u, s)
<1>1. UNCHANGED <<sku, orders>>
  BY DEF Moves, Quiet, Takes, Deletes
<1>2. ASSUME NEW u \in Users, NEW s \in Skus PROVE cart'[u][s] \in {cart[u][s], Nil}
  <2>1. CASE UNCHANGED cart
    BY <2>1
  <2>2. CASE Deletes(r, req[r], req'[r])
    <3>1. cart' = [cart EXCEPT ![req[r].user] = HDel(@, Items(r))]
      BY <2>2 DEF Deletes
    <3> QED BY <3>1 DEF HDel, IndInv, TypeOK
  <2> QED BY <2>1, <2>2 DEF Moves, Quiet, Takes
<1>3. \A q, u, s : OrderedBy(q, u, s)' <=> OrderedBy(q, u, s)
  BY <1>1 DEF OrderedBy, Placed
<1> QED BY <1>1, <1>2, <1>3 DEF NotOrdered, Placed

\* What a commit adds to the orders.
LEMMA CommitOrders ==
  ASSUME IndInv, NEW r \in Requests, Commit(r)
  PROVE  /\ \A q \in Requests \ {r} : \A u, s : OrderedBy(q, u, s)' <=> OrderedBy(q, u, s)
         /\ \A u, s : ~OrderedBy(r, u, s)
         /\ \A u, s : OrderedBy(r, u, s)' <=> u = req[r].user /\ s \in Fields(req[r].goods)
<1>1. /\ r \notin Placed /\ Placed' = Placed \cup {r}
      /\ \A q \in Requests \ {r} : orders'[q] = orders[q]
      /\ orders'[r].user = req[r].user /\ orders'[r].goods = req[r].goods
  BY CommitPlaces
<1> QED BY <1>1 DEF OrderedBy

\* A request whose order is not committed yet keeps OnceFromCart.
LEMMA OnceMoves ==
  ASSUME PositiveCarts, IndInv, IndInv', OnceFromCart, NEW r \in Requests, Moves(r), ~Commit(r)
  PROVE  OnceFromCart'
<1>0. /\ UNCHANGED <<sku, orders>>
      /\ \A u \in Users, s \in Skus : cart'[u][s] \in {cart[u][s], Nil}
      /\ \A q, u, s : OrderedBy(q, u, s)' <=> OrderedBy(q, u, s)
      /\ \A u, s : NotOrdered(u, s)' <=> NotOrdered(u, s)
  BY NoCommit
<1>1. \A u \in Users, s \in Skus : cart'[u][s] \in {InitCart[u][s], Nil}
  BY <1>0 DEF OnceFromCart
<1>2. OrderedOnce'
  BY <1>0 DEF OnceFromCart, OrderedOnce
<1>3. ASSUME NEW q \in Requests, q # r PROVE ReadsFirst(q)' /\ LinesFirst(q)'
  <2>1. req'[q] = req[q] /\ Items(q)' = Items(q) /\ CurrentSku(q)' = CurrentSku(q)
    BY <1>3, OtherItem DEF Moves
  <2>2. req[q].pc = "commit" => req[q].user \in Users /\ Items(q) \subseteq Skus
    <3>1. LocalOK(req[q])
      BY DEF IndInv, LocalsOK
    <3> QED BY <3>1, RequestAssumption DEF LocalOK, InTransaction, Items
  <2> QED BY <1>0, <2>1, <2>2 DEF OnceFromCart, ReadsFirst, LinesFirst
<1>4. /\ req[r] \in Request /\ LocalOK(req[r]) /\ ReadsFirst(r) /\ LinesFirst(r)
      /\ req'[r] \in Request
  BY DEF IndInv, TypeOK, LocalsOK, OnceFromCart
<1> SUFFICES ReadsFirst(r)' /\ LinesFirst(r)'
  BY <1>1, <1>2, <1>3 DEF OnceFromCart
<1>5. CASE req'[r].goods = NoGoods /\ req'[r].pc \in {"done", "create"}
  BY <1>5 DEF ReadsFirst, LinesFirst, Fields, NoGoods
<1>6. ASSUME SameLines(req[r], req'[r]) PROVE LinesFirst(r)'
  BY <1>0, <1>4, <1>6, SameItem DEF SameLines, SameOrder, LinesFirst
<1>7. CASE SameLines(req[r], req'[r]) /\ req'[r].pc \in {"get", "save", "hdel"}
  BY <1>6, <1>7 DEF ReadsFirst
<1>8. CASE req[r].pc = "get" /\ req'[r].pc = "hget" /\ req'[r].sku = sku[CurrentSku(r)]
           /\ SameLines(req[r], req'[r]) /\ req'[r].at = req[r].at
  <2>1. CurrentSku(r)' = CurrentSku(r) /\ CurrentSku(r) \in Skus
    BY <1>8, SameItem, CurrentItem DEF SameLines
  <2>2. sku[CurrentSku(r)].stock \in Int
    BY <2>1 DEF IndInv, TypeOK, SkuRow
  <2>3. ReadsFirst(r)'
    BY <1>0, <1>8, <2>1, <2>2 DEF ReadsFirst
  <2> QED BY <1>6, <1>8, <2>3
<1>9. CASE /\ req[r].pc = "hget" /\ req'[r].pc = "update" /\ req'[r].sku = req[r].sku
           /\ req'[r].count = cart[req[r].user][CurrentSku(r)] /\ req'[r].count # Nil
           /\ SameLines(req[r], req'[r]) /\ req'[r].at = req[r].at
  <2> DEFINE s == CurrentSku(r)
             u == req[r].user
  <2>1. CurrentSku(r)' = s /\ s \in Skus /\ u \in Users /\ req'[r].user = u
    BY <1>9, SameItem, CurrentItem DEF SameLines, SameOrder
  <2>2. cart[u][s] # Nil /\ req'[r].count = InitCart[u][s]
    BY <1>9, <2>1 DEF OnceFromCart
  <2>3. NotOrdered(u, s)
    BY <2>1, <2>2 DEF NotOrdered, OnceFromCart, OrderedOnce
  <2> HIDE DEF s, u
  <2>4. ReadsFirst(r)'
    <3>1. req[r].sku.stock >= sku[s].stock
      BY <1>4, <1>9 DEF ReadsFirst, s
    <3> QED BY <1>0, <1>9, <2>1, <2>2, <2>3, <3>1 DEF ReadsFirst
  <2> QED BY <1>6, <1>9, <2>4
<1>10. CASE Takes(r, req[r], req'[r])
  <2> DEFINE s == CurrentSku(r)
             u == req[r].user
             line == [count |-> req[r].count, price |-> req[r].sku.price]
  <2>1. /\ req[r].pc = "update" /\ req'[r].pc \in {"get", "save"}
        /\ req[r].sku.stock = sku[s].stock /\ SameOrder(req[r], req'[r])
        /\ req'[r].goods = [req[r].goods EXCEPT ![s] = line]
    BY <1>10 DEF Takes, Goes
  <2>2. s \in Skus /\ req[r].goods \in Goods
    BY <1>4, <2>1, CurrentItem DEF Request
  <2>3. InitCart[u][s] # Nil /\ line.count = InitCart[u][s] /\ NotOrdered(u, s)
    BY <1>4, <2>1 DEF ReadsFirst
  <2>4. s \in Items(r)
    BY <1>4, <2>1 DEF LocalOK, InTransaction, Items, CurrentSku
  <2> HIDE DEF s, line
  <2>5. ASSUME NEW i \in Fields(req'[r].goods)
        PROVE  /\ i \in Items(r) /\ NotOrdered(u, i)
               /\ InitCart[u][i] # Nil /\ req'[r].goods[i].count = InitCart[u][i]
    <3>1. CASE i = s
      BY <2>1, <2>2, <2>3, <2>4, <3>1 DEF Goods
    <3>2. CASE i # s
      <4>1. i \in Fields(req[r].goods) /\ req'[r].goods[i] = req[r].goods[i]
        BY <2>1, <2>2, <3>2 DEF Goods, Fields
      <4> QED BY <1>4, <4>1 DEF LinesFirst
    <3> QED BY <3>1, <3>2
  <2>6. LinesFirst(r)'
    BY <1>0, <2>1, <2>5, SameItem DEF LinesFirst, SameOrder
  <2> QED BY <2>1, <2>6 DEF ReadsFirst
<1>11. CASE Deletes(r, req[r], req'[r])
  <2>1. /\ req[r].pc = "hdel" /\ req'[r].pc = "commit" /\ SameLines(req[r], req'[r])
        /\ cart' = [cart EXCEPT ![req[r].user] = HDel(@, Items(r))]
    BY <1>11 DEF Deletes
  <2>2. req[r].user \in Users /\ Items(r) \subseteq Skus
    BY <1>4, <2>1, RequestAssumption DEF LocalOK, InTransaction, Items
  <2>3. cart'[req[r].user] = HDel(cart[req[r].user], Items(r))
        /\ cart[req[r].user] \in [Skus -> Int \cup {Nil}]
    BY <2>1, <2>2 DEF IndInv, TypeOK
  <2>4. \A i \in Items(r) : cart'[req[r].user][i] = Nil
    BY <2>2, <2>3 DEF HDel
  <2>5. ReadsFirst(r)'
    BY <2>1, <2>4, SameItem DEF ReadsFirst, SameLines, SameOrder
  <2> QED BY <1>6, <2>1, <2>5
<1> QED BY <1>5, <1>7, <1>8, <1>9, <1>10, <1>11 DEF Moves, Quiet, Ends, Begins, Goes

\* What a commit does to a row: the units on the order's line leave it.
LEMMA CommitStock ==
  ASSUME IndInv, NEW r \in Requests, Commit(r), NEW s \in Skus
  PROVE  /\ req[r].goods[s] = Nil => sku'[s] = sku[s]
         /\ req[r].goods[s] # Nil =>
               sku'[s].stock = sku[s].stock - req[r].goods[s].count
<1>1. sku'[s] = IF lock[s] = r THEN dirty[s] ELSE sku[s]
  BY DEF Commit
<1>2. lock[s] = r <=> req[r].goods[s] # Nil
  BY DEF IndInv, LocksMatchLines
<1>3. lock[s] = r => dirty[s].stock = sku[s].stock - req[r].goods[s].count
  BY DEF IndInv, RowVersions
<1> QED BY <1>1, <1>2, <1>3

\* Committing an order keeps OnceFromCart: of two requests with one cart entry
\* the row lock lets only one insert its line, and the stock it takes makes the
\* update of the other one miss.
LEMMA OnceCommit ==
  ASSUME PositiveCarts, IndInv, IndInv', OnceFromCart, NEW r \in Requests, Moves(r), Commit(r)
  PROVE  OnceFromCart'
<1> DEFINE u == req[r].user
<1>0. /\ req[r] \in Request /\ LocalOK(req[r]) /\ ReadsFirst(r) /\ LinesFirst(r)
      /\ req[r].pc = "commit" /\ req[r].goods \in Goods
      /\ UNCHANGED cart
  BY DEF IndInv, TypeOK, LocalsOK, OnceFromCart, Commit, Request
<1>1. u \in Users /\ Items(r) \subseteq Skus /\ Fields(req[r].goods) \subseteq Skus
  BY <1>0, RequestAssumption DEF LocalOK, InTransaction, Items, Fields, Goods
<1>2. /\ \A q \in Requests \ {r} : \A v, s : OrderedBy(q, v, s)' <=> OrderedBy(q, v, s)
      /\ \A v, s : ~OrderedBy(r, v, s)
      /\ \A v, s : OrderedBy(r, v, s)' <=> v = u /\ s \in Fields(req[r].goods)
  BY CommitOrders
<1>3. ASSUME NEW s \in Fields(req[r].goods)
      PROVE  /\ cart[u][s] = Nil /\ NotOrdered(u, s)
             /\ InitCart[u][s] # Nil /\ req[r].goods[s].count = InitCart[u][s]
             /\ sku'[s].stock < sku[s].stock
  <2>1. /\ cart[u][s] = Nil /\ NotOrdered(u, s)
        /\ InitCart[u][s] # Nil /\ req[r].goods[s].count = InitCart[u][s]
    BY <1>0 DEF ReadsFirst, LinesFirst
  <2>2. s \in Skus /\ req[r].goods[s] # Nil /\ s \in Fields(InitCart[u])
    BY <1>0, <1>1, <2>1, RequestAssumption DEF Fields
  <2>3. InitCart[u][s] > 0 /\ InitCart[u][s] \in Int
    BY <1>1, <2>1, <2>2, RequestAssumption DEF PositiveCarts
  <2>4. sku[s].stock \in Int
    BY <2>2 DEF IndInv, TypeOK, SkuRow
  <2>5. sku'[s].stock = sku[s].stock - InitCart[u][s]
    BY <2>1, <2>2, CommitStock
  <2> QED BY <2>1, <2>3, <2>4, <2>5
<1>4. ASSUME NEW s \in Skus, s \notin Fields(req[r].goods)
      PROVE  /\ sku'[s] = sku[s]
             /\ \A v : NotOrdered(v, s)' <=> NotOrdered(v, s)
  <2>1. req[r].goods[s] = Nil
    BY <1>0, <1>4 DEF Fields, Goods
  <2>2. sku'[s] = sku[s]
    BY <2>1, CommitStock
  <2> QED BY <1>2, <1>4, <2>2 DEF NotOrdered
<1>5. ASSUME NEW q \in Requests, q # r PROVE ReadsFirst(q)' /\ LinesFirst(q)'
  <2>1. req'[q] = req[q] /\ Items(q)' = Items(q) /\ CurrentSku(q)' = CurrentSku(q)
    BY <1>5, OtherItem DEF Moves
  <2>2. ReadsFirst(q) /\ LinesFirst(q) /\ req[q] \in Request
    BY DEF OnceFromCart, IndInv, TypeOK
  <2>3. ASSUME NEW s \in Fields(req[q].goods) PROVE NotOrdered(req[q].user, s)'
    <3>1. s \in Skus /\ req[q].goods[s] # Nil
      BY <2>2 DEF Fields, Request, Goods
    <3>2. lock[s] = q
      BY <3>1 DEF IndInv, LocksMatchLines
    <3>3. req[r].goods[s] = Nil
      BY <1>5, <3>1, <3>2 DEF IndInv, LocksMatchLines
    <3>4. s \notin Fields(req[r].goods)
      BY <3>3 DEF Fields
    <3> QED BY <1>4, <2>1, <2>2, <3>1, <3>4 DEF LinesFirst
  <2>4. LinesFirst(q)'
    BY <2>1, <2>2, <2>3 DEF LinesFirst
  <2>5. ASSUME req[q].pc \in {"hget", "update"}
        PROVE  /\ req[q].sku.stock >= sku'[CurrentSku(q)].stock
               /\ req[q].pc = "update" /\ req[q].sku.stock = sku'[CurrentSku(q)].stock =>
                     NotOrdered(req[q].user, CurrentSku(q))'
    <3> DEFINE s == CurrentSku(q)
    <3>1. s \in Skus
      BY <2>5, CurrentItem
    <3>2. /\ req[q].sku.stock >= sku[s].stock
          /\ req[q].pc = "update" /\ req[q].sku.stock = sku[s].stock =>
                NotOrdered(req[q].user, s)
      BY <2>2, <2>5 DEF ReadsFirst
    <3>3. req[q].sku.stock \in Int /\ sku[s].stock \in Int /\ sku'[s].stock \in Int
      BY <2>2, <3>1 DEF Request, SkuRow, IndInv, TypeOK
    <3> HIDE DEF s
    <3>4. CASE s \in Fields(req[r].goods)
      <4>1. sku'[s].stock < sku[s].stock
        BY <1>3, <3>4
      <4>2. req[q].sku.stock > sku'[s].stock
        BY <3>2, <3>3, <4>1
      <4>3. req[q].sku.stock >= sku'[s].stock /\ req[q].sku.stock # sku'[s].stock
        BY <3>3, <4>2
      <4> QED BY <4>3 DEF s
    <3>5. CASE s \notin Fields(req[r].goods)
      BY <1>4, <2>1, <3>1, <3>2, <3>5 DEF s
    <3> QED BY <3>4, <3>5
  <2>6. ReadsFirst(q)'
    BY <1>0, <2>1, <2>2, <2>5 DEF ReadsFirst
  <2> QED BY <2>4, <2>6
<1>6. ReadsFirst(r)' /\ LinesFirst(r)'
  <2>1. req'[r].pc = "done" /\ req'[r].goods = NoGoods
    <3>1. Ends(req[r], req'[r])
      BY AnswerEnds DEF Commit, Finish, Ended
    <3> QED BY <3>1 DEF Ends
  <2> QED BY <2>1 DEF ReadsFirst, LinesFirst, Fields, NoGoods
<1>7. ASSUME NEW p \in Requests, NEW v \in Users, NEW s \in Skus, OrderedBy(p, v, s)'
      PROVE  /\ cart'[v][s] = Nil
             /\ InitCart[v][s] # Nil /\ orders'[p].goods[s].count = InitCart[v][s]
             /\ \A q \in Requests : OrderedBy(q, v, s)' => q = p
  <2>1. CASE p = r
    <3>1. v = u /\ s \in Fields(req[r].goods)
      BY <1>2, <1>7, <2>1
    <3>2. orders'[r].goods = req[r].goods
      BY CommitPlaces
    <3>3. \A q \in Requests : OrderedBy(q, v, s)' => q = r
      BY <1>2, <1>3, <3>1 DEF NotOrdered
    <3> QED BY <1>0, <1>3, <2>1, <3>1, <3>2, <3>3
  <2>2. CASE p # r
    <3>1. OrderedBy(p, v, s)
      BY <1>2, <1>7, <2>2
    <3>2. orders'[p] = orders[p]
      BY <2>2, CommitPlaces
    <3>3. ~OrderedBy(r, v, s)'
      BY <1>2, <1>3, <3>1 DEF NotOrdered
    <3>4. \A q \in Requests : OrderedBy(q, v, s)' => q = p
      <4>1. \A q \in Requests : OrderedBy(q, v, s) => q = p
        BY <3>1 DEF OnceFromCart, OrderedOnce
      <4> QED BY <1>2, <3>3, <4>1
    <3> QED BY <1>0, <3>1, <3>2, <3>4 DEF OnceFromCart, OrderedOnce
  <2> QED BY <2>1, <2>2
<1>8. OrderedOnce'
  BY <1>7 DEF OrderedOnce
<1>9. \A v \in Users, s \in Skus : cart'[v][s] \in {InitCart[v][s], Nil}
  BY <1>0 DEF OnceFromCart
<1> QED BY <1>5, <1>6, <1>8, <1>9 DEF OnceFromCart

\* What a customer has ordered of an item, over all orders.
LEMMA OnceIsAtMostOnce ==
  ASSUME PositiveCarts, IndInv, OnceFromCart
  PROVE  OrderedAtMostOnce
<1> SUFFICES ASSUME NEW u \in Users, NEW s \in Fields(InitCart[u])
             PROVE  SumOf([r \in Placed |-> Ordered(r, s)],
                          {r \in Placed : orders[r].user = u}) =< InitCart[u][s]
  BY DEF OrderedAtMostOnce
<1> DEFINE P == {r \in Placed : orders[r].user = u}
           f == [r \in Placed |-> Ordered(r, s)]
<1>1. s \in Skus /\ InitCart[u][s] \in Int /\ InitCart[u][s] > 0
  BY RequestAssumption DEF Fields, PositiveCarts
<1>2. IsFiniteSet(P)
  BY FiniteAssumption, FS_Subset DEF Placed
<1>3. ASSUME NEW r \in P PROVE f[r] = 0 \/ OrderedBy(r, u, s)
  BY DEF Ordered, OrderedBy
<1>4. CASE \A r \in P : f[r] = 0
  <2>1. SumOf(f, P) = 0
    <3> HIDE DEF f, P
    <3> QED BY <1>2, <1>4, SumZero
  <2> QED BY <1>1, <2>1
<1>5. CASE \E r \in P : f[r] # 0
  <2>1. PICK r \in P : f[r] # 0
    BY <1>5
  <2>2. r \in Requests /\ OrderedBy(r, u, s)
    BY <1>3, <2>1 DEF Placed
  <2>3. /\ orders[r].goods[s].count = InitCart[u][s]
        /\ \A q \in Requests : OrderedBy(q, u, s) => q = r
    BY <1>1, <2>2 DEF OnceFromCart, OrderedOnce
  <2>4. f[r] = InitCart[u][s]
    BY <2>1, <2>2, <2>3 DEF Ordered, OrderedBy
  <2>5. \A q \in P \ {r} : f[q] = 0
    BY <1>3, <2>3 DEF Placed
  <2>6. SumOf(f, P) = f[r]
    <3> HIDE DEF f, P
    <3> QED BY <1>1, <1>2, <2>1, <2>4, <2>5, SumOne
  <2> QED BY <1>1, <2>4, <2>6
<1> QED BY <1>4, <1>5

\* Nothing has been read or ordered at the start.
LEMMA InitOnce == Init => OnceFromCart
<1> SUFFICES ASSUME Init PROVE OnceFromCart
  OBVIOUS
<1>1. \A r \in Requests : req[r].pc = "idle" /\ req[r].goods = NoGoods
  BY DEF Init, Idle
<1>2. cart = InitCart /\ Placed = {}
  BY DEF Init, Placed
<1>3. \A r \in Requests : ReadsFirst(r) /\ LinesFirst(r)
  BY <1>1 DEF ReadsFirst, LinesFirst, Fields, NoGoods
<1>4. OrderedOnce
  BY <1>2 DEF OrderedOnce, OrderedBy
<1> QED BY <1>2, <1>3, <1>4 DEF OnceFromCart

\* The cart entries that steps other than those of a request see.
LEMMA SameOnce ==
  ASSUME OnceFromCart, UNCHANGED <<sku, orders, cart, req>>
  PROVE  OnceFromCart'
<1>1. /\ \A r : CurrentSku(r)' = CurrentSku(r) /\ Items(r)' = Items(r)
      /\ \A q, u, s : OrderedBy(q, u, s)' <=> OrderedBy(q, u, s)
  BY DEF CurrentSku, Items, OrderedBy, Placed
<1>2. \A u, s : NotOrdered(u, s)' <=> NotOrdered(u, s)
  BY <1>1 DEF NotOrdered
<1>3. \A r \in Requests : ReadsFirst(r)' /\ LinesFirst(r)'
  BY <1>1, <1>2 DEF OnceFromCart, ReadsFirst, LinesFirst
<1>4. OrderedOnce'
  BY <1>1 DEF OnceFromCart, OrderedOnce
<1> QED BY <1>3, <1>4 DEF OnceFromCart

------------------------------------------------------------------------------
(* Items that are left behind.                                              *)

\* An answered request takes no step.
LEMMA StepNotDone ==
  ASSUME NEW r \in Requests, Step(r)
  PROVE  req[r].pc # "done"
BY DEF Step, View, Refuse, Accept, Create, GetSku, HgetCount, UpdateSku,
       TakeItem, UpdateMissed, SaveOrder, DeleteFromCart, Commit, LockError,
       RedisError, Crash, InTransaction

\* The rivals of a request are finitely many.
LEMMA RivalsFinite ==
  ASSUME NEW r, NEW s
  PROVE  IsFiniteSet(Rivals(r, s)) /\ Cardinality(Rivals(r, s)) \in Nat
<1>1. Rivals(r, s) \subseteq Requests
  BY DEF Rivals, Placed
<1> QED BY <1>1, FiniteAssumption, FS_Subset, FS_CardinalityType

\* A commit adds a rival to every other request that wants one of its items.
LEMMA RivalsCommit ==
  ASSUME IndInv, NEW r \in Requests, Commit(r)
  PROVE  /\ \A s : Rivals(r, s)' = Rivals(r, s)
         /\ \A q \in Requests \ {r} : \A s :
               /\ Cardinality(Rivals(q, s)') \in Nat
               /\ Cardinality(Rivals(q, s)') >= Cardinality(Rivals(q, s))
               /\ s \in Fields(req[r].goods) =>
                     Cardinality(Rivals(q, s)') = Cardinality(Rivals(q, s)) + 1
<1>1. /\ r \notin Placed /\ Placed' = Placed \cup {r}
      /\ \A q \in Requests \ {r} : orders'[q] = orders[q]
      /\ orders'[r].goods = req[r].goods
  BY CommitPlaces
<1>2. \A s : Rivals(r, s)' = Rivals(r, s)
  BY <1>1 DEF Rivals, Placed
<1>3. ASSUME NEW q \in Requests \ {r}, NEW s
      PROVE  /\ Cardinality(Rivals(q, s)') \in Nat
             /\ Cardinality(Rivals(q, s)') >= Cardinality(Rivals(q, s))
             /\ s \in Fields(req[r].goods) =>
                   Cardinality(Rivals(q, s)') = Cardinality(Rivals(q, s)) + 1
  <2> DEFINE A == Rivals(q, s)
             B == Rivals(q, s)'
  <2>1. IsFiniteSet(A) /\ Cardinality(A) \in Nat /\ r \notin A
    BY <1>1, RivalsFinite DEF Rivals
  <2>2. B = IF s \in Fields(req[r].goods) THEN A \cup {r} ELSE A
    BY <1>1 DEF Rivals, Placed
  <2> HIDE DEF A, B
  <2>3. Cardinality(A \cup {r}) = Cardinality(A) + 1
    BY <2>1, FS_AddElement
  <2>4. /\ Cardinality(B) \in Nat /\ Cardinality(B) >= Cardinality(A)
        /\ s \in Fields(req[r].goods) => Cardinality(B) = Cardinality(A) + 1
    BY <2>1, <2>2, <2>3
  <2> QED BY <2>4 DEF A, B
<1> QED BY <1>2, <1>3

\* A commit leaves the tries of the other requests counted: the order it
\* commits is the rival that makes their update miss.
LEMMA TriesCommit ==
  ASSUME IndInv, IndInv', NEW r \in Requests, Commit(r), NEW q \in Requests \ {r},
         req'[q] = req[q], TriesCounted(q)
  PROVE  TriesCounted(q)'
<1>0. Items(q)' = Items(q) /\ CurrentSku(q)' = CurrentSku(q)
  BY OtherItem
<1>1. \A s : /\ Cardinality(Rivals(q, s)') \in Nat /\ Cardinality(Rivals(q, s)) \in Nat
             /\ Cardinality(Rivals(q, s)') >= Cardinality(Rivals(q, s))
             /\ s \in Fields(req[r].goods) =>
                   Cardinality(Rivals(q, s)') = Cardinality(Rivals(q, s)) + 1
  BY RivalsCommit, RivalsFinite
<1>2. \A k : Tried(q, k) => Tried(q, k)'
  <2> SUFFICES ASSUME NEW k, Tried(q, k) PROVE Tried(q, k)'
    OBVIOUS
  <2> DEFINE s == req[q].sku_ids[k]
             a == Cardinality(Rivals(q, s))
             b == Cardinality(Rivals(q, s)')
  <2>1. a \in Nat /\ b \in Nat /\ b >= a
    BY <1>1
  <2>2. req[q].goods[s] # Nil \/ a >= 2
    BY DEF Tried
  <2>3. (req[q].goods[s] # Nil \/ b >= 2) => Tried(q, k)'
    BY DEF Tried
  <2> HIDE DEF a, b
  <2> QED BY <2>1, <2>2, <2>3
<1>3. ASSUME req[q].pc \in {"get", "hget", "update"}
      PROVE  /\ Cardinality(Rivals(q, CurrentSku(q))') >= req[q].i
             /\ req[q].pc \in {"hget", "update"} /\ req[q].sku.stock # sku'[CurrentSku(q)].stock =>
                    Cardinality(Rivals(q, CurrentSku(q))') > req[q].i
  <2> DEFINE s == CurrentSku(q)
             a == Cardinality(Rivals(q, s))
             b == Cardinality(Rivals(q, s)')
             n == req[q].i
  <2>1. s \in Skus
    BY <1>3, CurrentItem
  <2>2. /\ a \in Nat /\ b \in Nat /\ b >= a /\ n \in Nat
        /\ s \in Fields(req[r].goods) => b = a + 1
    BY <1>0, <1>1 DEF IndInv, TypeOK, Request
  <2>3. /\ a >= n
        /\ req[q].pc \in {"hget", "update"} /\ req[q].sku.stock # sku[s].stock => a > n
    BY <1>3 DEF TriesCounted
  <2>4. s \in Fields(req[r].goods) \/ sku'[s] = sku[s]
    <3>1. req[r].goods \in Goods
      BY DEF IndInv, TypeOK, Request
    <3>2. req[r].goods[s] = Nil => sku'[s] = sku[s]
      BY <2>1, CommitStock
    <3> QED BY <2>1, <3>1, <3>2 DEF Fields, Goods
  <2> HIDE DEF a, b, n, s
  <2>5. /\ b >= n
        /\ req[q].pc \in {"hget", "update"} /\ req[q].sku.stock # sku'[s].stock => b > n
    BY <2>2, <2>3, <2>4
  <2> QED BY <2>5 DEF a, b, n, s
<1> QED BY <1>0, <1>2, <1>3 DEF TriesCounted

\* A step of a request that commits nothing counts its own tries.
LEMMA TriesMove ==
  ASSUME IndInv, IndInv', NEW r \in Requests, Moves(r), ~Commit(r), TriesCounted(r)
  PROVE  TriesCounted(r)'
<1> DEFINE l == req[r]
           m == req'[r]
           s == CurrentSku(r)
           c == Cardinality(Rivals(r, s))
<1>0. UNCHANGED <<sku, orders>> /\ Placed' = Placed
  BY NoCommit
<1>1. /\ \A i : Rivals(r, i)' = Rivals(r, i)
      /\ \A i : Cardinality(Rivals(r, i)) \in Nat
  BY <1>0, RivalsFinite DEF Rivals
<1>2. l \in Request /\ m \in Request /\ LocalOK(l)
  BY DEF IndInv, TypeOK, LocalsOK
<1>3. l.i \in Nat /\ m.i \in Nat /\ l.at \in Nat /\ m.at \in Nat
  BY <1>2 DEF Request
<1>4. l.pc \in {"create"} \cup InTransaction =>
         l.at \in 1..Len(l.sku_ids) /\ Len(l.sku_ids) \in Nat
  BY <1>2, RequestAssumption DEF LocalOK
<1>a. PICK n \in Nat : n = l.at
  BY <1>3
<1>5. CASE m.pc = "done"
  BY <1>5 DEF TriesCounted
<1>6. CASE Begins(l, m)
  BY <1>6 DEF Begins, TriesCounted
<1>7. ASSUME SameLines(l, m)
      PROVE  /\ \A k : Tried(r, k)' <=> Tried(r, k)
             /\ m.at = l.at => CurrentSku(r)' = s /\ Rivals(r, CurrentSku(r))' = Rivals(r, s)
  BY <1>1, <1>7 DEF Tried, SameLines, SameOrder, CurrentSku
<1>8. CASE l.pc = "create" /\ m.pc = "get" /\ SameLines(l, m) /\ m.at = l.at /\ m.i = l.i
  <2>1. l.at = 1 /\ l.i = 0 /\ m.at = 1 /\ m.i = 0
    BY <1>8 DEF TriesCounted
  <2>2. Cardinality(Rivals(r, CurrentSku(r))') \in Nat
    BY <1>1, <1>7, <1>8
  <2> QED BY <1>8, <2>1, <2>2 DEF TriesCounted
<1>9. CASE /\ l.pc = "get" /\ m.pc = "hget" /\ m.sku = sku[s]
           /\ SameLines(l, m) /\ m.at = l.at /\ m.i = l.i
  BY <1>0, <1>7, <1>9 DEF TriesCounted
<1>10. CASE /\ l.pc = "hget" /\ m.pc = "update" /\ m.sku = l.sku
            /\ SameLines(l, m) /\ m.at = l.at /\ m.i = l.i
  BY <1>0, <1>7, <1>10 DEF TriesCounted
<1>11. CASE /\ l.pc \in {"save", "hdel"} /\ m.pc \in {"hdel", "commit"} /\ SameLines(l, m)
  BY <1>7, <1>11 DEF TriesCounted, SameLines, SameOrder
<1>12. CASE /\ l.pc = "update" /\ l.sku.stock # sku[s].stock /\ SameLines(l, m)
            /\ m.pc = "get" /\ m.at = l.at /\ m.i = l.i + 1
  <2>1. c > l.i /\ c \in Nat
    BY <1>1, <1>12 DEF TriesCounted
  <2>2. c >= m.i
    <3> HIDE DEF c
    <3> QED BY <1>3, <1>12, <2>1
  <2>3. Cardinality(Rivals(r, CurrentSku(r))') >= m.i
    BY <1>7, <1>12, <2>2
  <2>4. \A k \in 1..(m.at - 1) : Tried(r, k)'
    BY <1>7, <1>12 DEF TriesCounted
  <2> QED BY <1>12, <2>3, <2>4 DEF TriesCounted
<1>13. ASSUME Goes(l, m), SameOrder(l, m), l.pc = "update",
              Tried(r, n)', \A k \in 1..(n - 1) : Tried(r, k)'
       PROVE  TriesCounted(r)'
  <2>1. \A k \in 1..n : Tried(r, k)'
    <3>1. \A k \in 1..n : k = n \/ k \in 1..(n - 1)
      OBVIOUS
    <3> QED BY <1>13, <3>1
  <2>2. CASE m.pc = "get" /\ m.at = l.at + 1 /\ m.i = 0
    <3>1. m.at - 1 = n
      BY <1>a, <2>2
    <3>2. Cardinality(Rivals(r, CurrentSku(r))') >= 0
      <4>1. PICK i : i = CurrentSku(r)'
        OBVIOUS
      <4>2. Cardinality(Rivals(r, i)') \in Nat
        BY <1>1
      <4> QED BY <4>1, <4>2
    <3> QED BY <2>1, <2>2, <3>1, <3>2 DEF TriesCounted
  <2>3. CASE m.pc = "save" /\ l.at >= Len(l.sku_ids)
    <3>1. 1..Len(m.sku_ids) \subseteq 1..n
      BY <1>a, <1>4, <1>13, <2>3 DEF SameOrder, InTransaction
    <3> QED BY <2>1, <2>3, <3>1 DEF TriesCounted
  <2> QED BY <1>13, <2>2, <2>3 DEF Goes
<1>14. CASE /\ l.pc = "update" /\ l.sku.stock # sku[s].stock /\ SameLines(l, m)
            /\ l.i >= 1 /\ Goes(l, m)
  <2>1. c > l.i /\ c \in Nat
    BY <1>1, <1>14 DEF TriesCounted
  <2>2. c >= 2
    <3> HIDE DEF c
    <3> QED BY <1>3, <1>14, <2>1
  <2>3. Tried(r, n)
    BY <1>a, <2>2 DEF Tried, CurrentSku
  <2>4. \A k \in 1..(n - 1) : Tried(r, k)
    BY <1>a, <1>14 DEF TriesCounted
  <2>5. Tried(r, n)' /\ \A k \in 1..(n - 1) : Tried(r, k)'
    BY <1>7, <1>14, <2>3, <2>4
  <2> QED BY <1>13, <1>14, <2>5 DEF SameLines
<1>15. CASE Takes(r, l, m)
  <2> DEFINE line == [count |-> l.count, price |-> l.sku.price]
  <2>1. /\ l.pc = "update" /\ SameOrder(l, m) /\ Goes(l, m)
        /\ m.goods = [l.goods EXCEPT ![s] = line]
    BY <1>15 DEF Takes
  <2>2. s \in Skus /\ l.goods \in Goods /\ s = l.sku_ids[n]
    BY <1>a, <1>2, <2>1, CurrentItem DEF Request, CurrentSku
  <2>3. line # Nil
    <3>1. l.count \in Int /\ l.sku.price \in Int
      BY <1>2 DEF Request, SkuRow
    <3> QED BY <3>1, NilAssumption DEF Line
  <2> HIDE DEF line
  <2>4. m.goods[s] # Nil /\ \A i : l.goods[i] # Nil /\ i \in Skus => m.goods[i] # Nil
    BY <2>1, <2>2, <2>3 DEF Goods
  <2>5. \A k \in 1..Len(l.sku_ids) : l.sku_ids[k] \in Skus
    BY <1>2, <2>1, RequestAssumption DEF LocalOK, InTransaction
  <2>6. Tried(r, n)'
    BY <2>1, <2>2, <2>4 DEF Tried, SameOrder
  <2>7. \A k \in 1..(n - 1) : k \in 1..Len(l.sku_ids)
    BY <1>a, <1>4, <2>1 DEF InTransaction
  <2>8. ASSUME NEW k \in 1..(n - 1) PROVE Tried(r, k)'
    <3>1. Tried(r, k)
      BY <1>a, <2>1, <2>8 DEF TriesCounted
    <3>2. l.sku_ids[k] \in Skus /\ m.sku_ids = l.sku_ids
      BY <2>1, <2>5, <2>7 DEF SameOrder
    <3>3. l.goods[l.sku_ids[k]] # Nil => m.goods[l.sku_ids[k]] # Nil
      BY <2>4, <3>2
    <3> QED BY <1>1, <3>1, <3>2, <3>3 DEF Tried
  <2> QED BY <1>13, <2>1, <2>6, <2>8
<1> QED BY <1>5, <1>6, <1>8, <1>9, <1>10, <1>11, <1>12, <1>14, <1>15
        DEF Moves, Quiet, Ends, Deletes

\* Every step counts the tries, and what a committed order lacks.
LEMMA StepTries ==
  ASSUME IndInv, IndInv', SkippedOnlyUnderContention, NEW r \in Requests, Step(r)
  PROVE  SkippedOnlyUnderContention'
<1>0. Moves(r) /\ req[r].pc # "done" /\ TriesCounted(r)
  BY StepMoves, StepNotDone DEF SkippedOnlyUnderContention
<1>1. r \notin Placed
  BY <1>0 DEF IndInv, OrdersAnswered, Placed
<1>2. CASE Commit(r)
  <2>1. /\ Placed' = Placed \cup {r} /\ req[r].pc = "commit"
        /\ \A q \in Requests \ {r} : orders'[q] = orders[q]
        /\ orders'[r].goods = req[r].goods
    BY <1>2, CommitPlaces
  <2>2. /\ \A s : Rivals(r, s)' = Rivals(r, s)
        /\ \A q \in Requests \ {r} : \A s :
              /\ Cardinality(Rivals(q, s)') \in Nat
              /\ Cardinality(Rivals(q, s)') >= Cardinality(Rivals(q, s))
    BY <1>2, RivalsCommit
  <2>3. Ends(req[r], req'[r])
    BY <1>2, AnswerEnds DEF Commit, Finish, Ended
  <2>4. \A q \in Requests : TriesCounted(q)'
    <3>1. TriesCounted(r)'
      BY <2>3 DEF Ends, TriesCounted
    <3>2. ASSUME NEW q \in Requests \ {r} PROVE TriesCounted(q)'
      <4>1. TriesCounted(q) /\ req'[q] = req[q]
        BY <1>0 DEF SkippedOnlyUnderContention, Moves
      <4> QED BY <1>2, <4>1, TriesCommit
    <3> QED BY <3>1, <3>2
  <2>5. ASSUME NEW q \in Placed', NEW s \in Items(q)', s \notin Fields(orders'[q].goods)
        PROVE  Cardinality(Rivals(q, s)') >= 2
    <3>1. CASE q = r
      <4>1. s \in Items(r) /\ s \notin Fields(req[r].goods)
        BY <2>1, <2>3, <2>5, <3>1, SameItem DEF Ends
      <4>2. PICK k \in 1..Len(req[r].sku_ids) : s = req[r].sku_ids[k]
        BY <4>1 DEF Items
      <4>3. req[r].goods[s] = Nil
        <5>1. req[r].goods \in Goods /\ req[r].sku_ids \in SkuLists
          BY <2>1 DEF IndInv, TypeOK, Request, LocalsOK, LocalOK, InTransaction
        <5>2. s \in Skus
          BY <4>2, <5>1, RequestAssumption
        <5> QED BY <4>1, <5>1, <5>2 DEF Fields, Goods
      <4>4. Tried(r, k)
        BY <1>0, <2>1 DEF TriesCounted
      <4>5. Cardinality(Rivals(r, s)) >= 2
        BY <4>2, <4>3, <4>4 DEF Tried
      <4> QED BY <2>2, <3>1, <4>5
    <3>2. CASE q # r
      <4>1. q \in Placed /\ q \in Requests /\ req'[q] = req[q] /\ orders'[q] = orders[q]
        BY <1>0, <2>1, <3>2 DEF Placed, Moves
      <4>2. s \in Items(q) /\ s \notin Fields(orders[q].goods)
        BY <2>5, <4>1, OtherItem
      <4>3. Cardinality(Rivals(q, s)) >= 2
        BY <4>1, <4>2 DEF SkippedOnlyUnderContention
      <4> DEFINE a == Cardinality(Rivals(q, s))
                 b == Cardinality(Rivals(q, s)')
      <4>4. a \in Nat /\ b \in Nat /\ b >= a /\ a >= 2
        BY <2>2, <3>2, <4>1, <4>3, RivalsFinite
      <4>5. b >= 2
        <5> HIDE DEF a, b
        <5> QED BY <4>4
      <4> QED BY <4>5
    <3> QED BY <3>1, <3>2
  <2> QED BY <2>4, <2>5 DEF SkippedOnlyUnderContention
<1>3. CASE ~Commit(r)
  <2>0. UNCHANGED <<sku, orders>> /\ Placed' = Placed
    BY <1>0, <1>3, NoCommit
  <2>1. \A q, s : Rivals(q, s)' = Rivals(q, s)
    BY <2>0 DEF Rivals
  <2>2. ASSUME NEW q \in Requests, q # r
        PROVE  TriesCounted(q)' /\ Items(q)' = Items(q)
    <3>1. /\ req'[q] = req[q] /\ Items(q)' = Items(q) /\ CurrentSku(q)' = CurrentSku(q)
          /\ TriesCounted(q)
      BY <1>0, <2>2, OtherItem DEF Moves, SkippedOnlyUnderContention
    <3>2. \A k : Tried(q, k)' <=> Tried(q, k)
      BY <2>1, <3>1 DEF Tried
    <3>3. Rivals(q, CurrentSku(q))' = Rivals(q, CurrentSku(q))
      BY <2>1, <3>1
    <3> QED BY <2>0, <3>1, <3>2, <3>3 DEF TriesCounted
  <2>3. TriesCounted(r)'
    BY <1>0, <1>3, TriesMove
  <2>4. \A q \in Placed : q \in Requests /\ q # r
    BY <1>1 DEF Placed
  <2> QED BY <2>0, <2>1, <2>2, <2>3, <2>4 DEF SkippedOnlyUnderContention
<1> QED BY <1>2, <1>3

------------------------------------------------------------------------------

\* Steps that are no request's leave everything but the clock alone.
LEMMA OtherSteps ==
  ASSUME [Next]_vars, ~\E r \in Requests : Step(r)
  PROVE  UNCHANGED <<sku, orders, cart, req>>
BY DEF Next, Tick, Finished, vars, db

\* The ledger and the totals hold of what is committed.
LEMMA NextLedger == IndInv /\ LedgerInv /\ [Next]_vars => LedgerInv'
<1> SUFFICES ASSUME IndInv, LedgerInv, [Next]_vars PROVE LedgerInv'
  OBVIOUS
<1>1. CASE \E r \in Requests : Step(r)
  BY <1>1, StepLedger
<1>2. CASE ~\E r \in Requests : Step(r)
  <2>1. UNCHANGED <<sku, orders, req>>
    BY <1>2, OtherSteps
  <2> QED BY <2>1 DEF LedgerInv, Ledger, TotalsMatchLines, RunningTotals, Placed, Ordered
<1> QED BY <1>1, <1>2

\* Every unit that left the stock is on a committed order and no other is:
\* retries, lost updates and rollbacks of OrderCommitView lose no unit.
THEOREM LedgerHolds == Spec => []Ledger
<1>1. LedgerInv => Ledger
  BY DEF LedgerInv
<1> QED BY <1>1, InitLedger, NextLedger, Isolation, PTL DEF Spec

\* The totals of an order are the totals of its lines, whichever lines were
\* tried again or left out.
THEOREM TotalsAreRight == Spec => []TotalsMatchLines
<1>1. LedgerInv => TotalsMatchLines
  BY DEF LedgerInv
<1> QED BY <1>1, InitLedger, NextLedger, Isolation, PTL DEF Spec

\* Every step lets a cart entry be ordered once.
LEMMA NextOnce ==
  ASSUME PositiveCarts
  PROVE  IndInv /\ IndInv' /\ OnceFromCart /\ [Next]_vars => OnceFromCart'
<1> SUFFICES ASSUME IndInv, IndInv', OnceFromCart, [Next]_vars PROVE OnceFromCart'
  OBVIOUS
<1>1. ASSUME NEW r \in Requests, Step(r) PROVE OnceFromCart'
  BY <1>1, StepMoves, OnceMoves, OnceCommit
<1>2. CASE ~\E r \in Requests : Step(r)
  BY <1>2, OtherSteps, SameOnce
<1> QED BY <1>1, <1>2

\* A cart with positive counts that is submitted any number of times at once is
\* ordered at most once, and the orders account for the stock and their totals.
THEOREM OrdersAddUp == ASSUME PositiveCarts PROVE Spec => []OrdersAreSound
<1>1. IndInv /\ OnceFromCart => OrderedAtMostOnce
  BY OnceIsAtMostOnce
<1>2. IndInv /\ IndInv' /\ OnceFromCart /\ [Next]_vars => OnceFromCart'
  BY NextOnce
<1>3. LedgerInv /\ OnceFromCart /\ OrderedAtMostOnce => OrdersAreSound
  BY DEF LedgerInv, OrdersAreSound
<1> QED BY <1>1, <1>2, <1>3, InitLedger, NextLedger, InitOnce, Isolation, PTL DEF Spec

\* No order has been tried for at the start.
LEMMA InitTries == Init => SkippedOnlyUnderContention
BY DEF Init, Idle, Placed, SkippedOnlyUnderContention, TriesCounted

\* Every step counts the tries.
LEMMA NextTries ==
  IndInv /\ IndInv' /\ SkippedOnlyUnderContention /\ [Next]_vars
    => SkippedOnlyUnderContention'
<1> SUFFICES ASSUME IndInv, IndInv', SkippedOnlyUnderContention, [Next]_vars
             PROVE  SkippedOnlyUnderContention'
  OBVIOUS
<1>1. CASE \E r \in Requests : Step(r)
  BY <1>1, StepTries
<1>2. CASE ~\E r \in Requests : Step(r)
  <2>0. UNCHANGED <<sku, orders, req>>
    BY <1>2, OtherSteps
  <2>1. /\ \A r : CurrentSku(r)' = CurrentSku(r) /\ Items(r)' = Items(r)
        /\ \A r, s : Rivals(r, s)' = Rivals(r, s)
    BY <2>0 DEF CurrentSku, Items, Rivals, Placed
  <2>2. \A r, k : Tried(r, k)' <=> Tried(r, k)
    BY <2>0, <2>1 DEF Tried
  <2>3. \A r \in Requests : TriesCounted(r)'
    BY <2>0, <2>1, <2>2 DEF SkippedOnlyUnderContention, TriesCounted
  <2> QED BY <2>0, <2>1, <2>3 DEF SkippedOnlyUnderContention, Placed
<1> QED BY <1>1, <1>2

\* An item is only missing from a committed order when two other orders with it
\* were committed in between.
THEOREM SkipsAreContended == Spec => []SkippedOnlyUnderContention
BY InitTries, NextTries, Isolation, PTL DEF Spec

------------------------------------------------------------------------------
(* The cart views and the order service together.                           *)


\* What the cart views keep true of their local variables l.
CartLocal(l) ==
    /\ l \in [pc: {l.pc}, kind: {l.kind}, user: {l.user}, sku_id: {l.sku_id},
              count: Int, stock: {l.stock}, left: {l.left},
              total_count: {l.total_count}, res: {l.res},
              asked: {l.asked}, seen: {l.seen}]
    /\ l.pc \in {"get", "hget", "hset"} => l.user \in Users /\ l.sku_id \in Skus
    /\ l.pc = "get" => l.kind \in {"add", "update", "delete"}
    /\ l.pc = "hget" => l.kind = "add"
    /\ l.pc = "hset" => l.kind \in {"add", "update"}
    /\ l.pc # "done" => l.res = Nil

CartLocals ==
    /\ creq = [c \in CartRequests |-> creq[c]]
    /\ \A c \in CartRequests : CartLocal(creq[c])

Carts == [Users -> [Skus -> Int \cup {Nil}]]

ShopInv == IndInv /\ CartLocals

\* A reply changes neither the count nor the place of a request.
LEMMA ReplyStep ==
  ASSUME CartLocals, NEW c \in CartRequests, NEW res, C!Reply(c, res)
  PROVE  CartLocals'
<1>1. CartLocal([creq[c] EXCEPT !.pc = "done", !.res = res])
  BY DEF CartLocals, CartLocal
<1>2. creq' = [creq EXCEPT ![c] = [creq[c] EXCEPT !.pc = "done", !.res = res]]
  BY DEF C!Reply
<1> QED BY <1>1, <1>2 DEF CartLocals

\* A step of a cart view that replaces the locals of c by well-formed ones.
LEMMA LocalsStep ==
  ASSUME CartLocals, NEW c \in CartRequests, NEW l, CartLocal(l),
         creq' = [creq EXCEPT ![c] = l]
  PROVE  CartLocals'
BY DEF CartLocals

\* Every step of a cart view keeps the invariant of its locals and leaves
\* numbers in the carts.
LEMMA CartViewStep ==
  ASSUME CartLocals, cart \in Carts, sku \in [Skus -> SkuRow],
         NEW c \in CartRequests, C!Step(c)
  PROVE  CartLocals' /\ cart' \in Carts
<1> DEFINE l == creq[c]
<1>0. CartLocal(l)
  BY DEF CartLocals
<1>1. CASE C!Refuse(c)
  BY <1>1, ReplyStep DEF C!Refuse, C!Reply
<1>2. CASE C!Accept(c)
  <2>1. PICK u \in Users, in \in C!Inputs :
          creq' = [creq EXCEPT ![c] =
            [l EXCEPT !.pc = IF in.kind = "show" THEN "hgetall" ELSE "get",
                      !.kind = in.kind, !.user = u, !.sku_id = in.sku_id,
                      !.count = in.count, !.asked = in.count]]
    BY <1>2 DEF C!Accept
  <2>2. /\ in.count \in Int
        /\ in.kind # "show" => /\ in.sku_id \in Skus
                               /\ in.kind \in {"add", "update", "delete"}
    <3>1. CASE in \in [kind: {"add"}, sku_id: Skus, count: AddCounts]
      BY <3>1, CountAssumption
    <3>2. CASE in \in [kind: {"update"}, sku_id: Skus, count: UpdateCounts]
      BY <3>2, CountAssumption
    <3>3. CASE in \in [kind: {"delete"}, sku_id: Skus, count: {0}]
      BY <3>3
    <3>4. CASE in \in [kind: {"show"}, sku_id: {Nil}, count: {0}]
      BY <3>4
    <3> QED BY <3>1, <3>2, <3>3, <3>4 DEF C!Inputs
  <2>3. CartLocal([l EXCEPT
                      !.pc = IF in.kind = "show" THEN "hgetall" ELSE "get",
                      !.kind = in.kind, !.user = u, !.sku_id = in.sku_id,
                      !.count = in.count, !.asked = in.count])
    BY <1>0, <1>2, <2>2 DEF CartLocal, C!Accept
  <2> QED BY <1>2, <2>1, <2>3, LocalsStep DEF C!Accept
<1>3. CASE C!GetSku(c)
  <2>1. CASE \E res : C!Reply(c, res)
    BY <2>1, ReplyStep DEF C!Reply
  <2>2. CASE ~\E res : C!Reply(c, res)
    <3>1. l.kind \in {"add", "update", "delete"}
      BY <1>0, <1>3 DEF C!GetSku, CartLocal
    <3> DEFINE st == StockColumn(sku)[l.sku_id]
    <3> DEFINE pc == CASE l.kind = "add" -> "hget"
                       [] l.kind = "update" -> "hset"
                       [] l.kind = "delete" -> "hdel"
    <3>2. /\ creq' = [creq EXCEPT ![c] = [l EXCEPT !.stock = st, !.pc = pc]]
          /\ cart' = cart
      BY <1>3, <2>2 DEF C!GetSku
    <3>3. /\ pc \in {"hget", "hset", "hdel"}
          /\ pc = "hget" => l.kind = "add"
          /\ pc = "hset" => l.kind = "update"
      BY <3>1
    <3> HIDE DEF st, pc
    <3>4. l.user \in Users /\ l.sku_id \in Skus /\ l.res = Nil
      BY <1>0, <1>3 DEF C!GetSku, CartLocal
    <3>5. CartLocal([l EXCEPT !.stock = st, !.pc = pc])
      BY <1>0, <3>4, <3>3 DEF CartLocal
    <3> QED BY <3>2, <3>5, LocalsStep
  <2> QED BY <2>1, <2>2
<1>4. CASE C!Hget(c)
  <2>1. CASE C!Reply(c, 4)
    BY <2>1, ReplyStep DEF C!Reply
  <2>2. CASE C!Summed(c, C!Accumulated(c))
    <3>1. PICK old, sum :
            /\ old = C!Entry(l.user, l.sku_id)
            /\ sum = C!Accumulated(c)
            /\ creq' = [creq EXCEPT ![c] =
                 [l EXCEPT !.pc = "hset", !.count = sum, !.seen = old]]
            /\ cart' = cart
      BY <2>2 DEF C!Summed
    <3>2. /\ l.user \in Users /\ l.sku_id \in Skus /\ l.count \in Int
          /\ l.kind = "add" /\ l.res = Nil
      BY <1>0, <1>4 DEF C!Hget, CartLocal
    <3>3. C!Entry(l.user, l.sku_id) \in Int
      BY <3>2 DEF C!Entry, Carts
    <3>4. sum \in Int
      BY <3>1, <3>2, <3>3 DEF C!Accumulated
    <3>5. CartLocal([l EXCEPT !.pc = "hset", !.count = sum, !.seen = old])
      BY <1>0, <3>2, <3>4 DEF CartLocal
    <3> QED BY <3>1, <3>5, LocalsStep
  <2> QED BY <1>4, <2>1, <2>2 DEF C!Hget
<1>5. CASE C!Hset(c) \/ C!Hdel(c)
  <2>1. creq' = [creq EXCEPT ![c] = [l EXCEPT !.pc = "total"]]
    BY <1>5 DEF C!Hset, C!Hdel
  <2>2. CartLocal([l EXCEPT !.pc = "total"])
    BY <1>0, <1>5 DEF CartLocal, C!Hset, C!Hdel
  <2>3. l.count \in Int
    BY <1>0 DEF CartLocal
  <2>4. cart' \in Carts
    <3>1. CASE C!Hset(c)
      BY <2>3, <3>1 DEF C!Hset, C!HSet, Carts
    <3>2. CASE C!Hdel(c)
      BY <3>2 DEF C!Hdel, C!HDel, Carts
    <3> QED BY <1>5, <3>1, <3>2
  <2> QED BY <2>1, <2>2, <2>4, LocalsStep
<1>6. CASE C!Total(c)
  <2>1. PICK res, t : creq' = [creq EXCEPT ![c] =
            [l EXCEPT !.pc = "done", !.res = res, !.total_count = t]]
    BY <1>6 DEF C!Total
  <2>2. CartLocal([l EXCEPT !.pc = "done", !.res = res, !.total_count = t])
    BY <1>0 DEF CartLocal
  <2> QED BY <1>6, <2>1, <2>2, LocalsStep DEF C!Total
<1>7. CASE C!Hgetall(c)
  <2>1. PICK f, t : creq' = [creq EXCEPT ![c] =
            [l EXCEPT !.pc = "rows", !.left = f, !.total_count = t]]
    BY <1>7 DEF C!Hgetall
  <2>2. CartLocal([l EXCEPT !.pc = "rows", !.left = f, !.total_count = t])
    BY <1>0, <1>7 DEF CartLocal, C!Hgetall
  <2> QED BY <1>7, <2>1, <2>2, LocalsStep DEF C!Hgetall
<1>8. CASE C!ShowItem(c)
  <2>1. CASE C!Reply(c, C!ServerError)
    BY <2>1, ReplyStep DEF C!Reply
  <2>2. CASE ~C!Reply(c, C!ServerError)
    <3>1. PICK f : creq' = [creq EXCEPT ![c] = [l EXCEPT !.left = f]]
      BY <1>8, <2>2 DEF C!ShowItem
    <3>2. CartLocal([l EXCEPT !.left = f])
      BY <1>0 DEF CartLocal
    <3> QED BY <1>8, <2>2, <3>1, <3>2, LocalsStep DEF C!ShowItem
  <2> QED BY <2>1, <2>2
<1>9. CASE C!Render(c) \/ C!Crash(c)
  BY <1>9, ReplyStep DEF C!Render, C!Crash, C!Reply
<1> QED BY <1>1, <1>2, <1>3, <1>4, <1>5, <1>6, <1>7, <1>8, <1>9
        DEF C!Step, C!View

------------------------------------------------------------------------------

\* The invariant of the orders and the types of the cart requests' locals hold
\* together.
LEMMA ShopInvHolds == ShopSpec => []ShopInv
<1>1. ShopInit => ShopInv
  <2> SUFFICES ASSUME ShopInit PROVE ShopInv
    OBVIOUS
  <2>1. IndInv
    BY InitIndInv DEF ShopInit
  <2>2. CartLocal(C!Idle)
    BY DEF CartLocal, C!Idle
  <2>3. CartLocals
    BY <2>2 DEF CartLocals, ShopInit
  <2> QED BY <2>1, <2>3 DEF ShopInv
<1>2. ShopInv /\ [ShopNext]_shopVars => ShopInv'
  <2> SUFFICES ASSUME ShopInv, [ShopNext]_shopVars PROVE ShopInv'
    OBVIOUS
  <2>0. TypeOK
    BY DEF ShopInv, IndInv
  <2>1. CASE [Next]_vars /\ UNCHANGED creq
    BY <2>1, NextIndInv DEF ShopInv, CartLocals
  <2>2. ASSUME NEW c \in CartRequests, CartStep(c) PROVE ShopInv'
    <3>1. UNCHANGED <<db, now, req>> /\ C!Step(c)
      BY <2>2 DEF CartStep
    <3>2. CartLocals' /\ cart' \in Carts
      BY <2>0, <3>1, CartViewStep DEF ShopInv, TypeOK, Carts
    <3>3. TypeOK'
      BY <2>0, <3>1, <3>2 DEF TypeOK, Carts, db
    <3>4. IndInv'
      BY <3>1, <3>3 DEF ShopInv, IndInv, LocalsOK, LocksMatchLines, RowVersions,
                        OrdersAnswered, NoOversell, Conservation, db
    <3> QED BY <3>2, <3>4 DEF ShopInv
  <2> QED BY <2>1, <2>2 DEF ShopNext, OrderStep, shopVars
<1> QED BY <1>1, <1>2, PTL DEF ShopSpec

\* Concurrent orders stay isolated whatever the cart views do to the carts
\* meanwhile: stock never becomes negative, stock and sales add up, and no
\* error reply leaves a lock or an order behind.
THEOREM ShopIsolation == ShopSpec => []IndInv
<1>1. ShopInv => IndInv
  BY DEF ShopInv
<1> QED BY <1>1, ShopInvHolds, PTL

\* Also with changing carts an order takes effect in one step or not at all.
THEOREM ShopOrdersAreAtomic == ShopSpec => AtomicOrders
<1>1. ShopInit => Inv!Init
  BY DEF ShopInit, Init, Inv!Init
<1>2. IndInv /\ [ShopNext]_shopVars => [Inv!Next]_(Inv!ivars)
  <2> SUFFICES ASSUME IndInv, [ShopNext]_shopVars
               PROVE  Inv!Next \/ UNCHANGED Inv!ivars
    OBVIOUS
  <2>1. CASE \E r \in Requests : Commit(r)
    BY <2>1, CommitIsPurchase
  <2>2. CASE ~\E r \in Requests : Commit(r)
    <3>1. UNCHANGED <<sku, orders>>
      BY <2>2, OnlyCommitWrites DEF ShopNext, OrderStep, CartStep, shopVars,
                                    Next, Tick, Finished, vars, db
    <3> QED BY <3>1 DEF Inv!ivars
  <2> QED BY <2>1, <2>2
<1> QED BY <1>1, <1>2, ShopIsolation, PTL DEF ShopSpec, AtomicOrders, Inv!Spec

\* A cart step leaves the tables and the order requests alone.
LEMMA CartStepKeeps ==
  ASSUME NEW c, CartStep(c)
  PROVE  UNCHANGED <<sku, orders, req>> /\ Placed' = Placed
BY DEF CartStep, db, Placed

\* Also with changing carts no unit is lost between the stock and the orders.
THEOREM ShopLedger == ShopSpec => []Ledger
<1>1. ShopInit => LedgerInv
  BY InitLedger DEF ShopInit
<1>2. IndInv /\ LedgerInv /\ [ShopNext]_shopVars => LedgerInv'
  <2> SUFFICES ASSUME IndInv, LedgerInv, [ShopNext]_shopVars PROVE LedgerInv'
    OBVIOUS
  <2>1. CASE [Next]_vars
    BY <2>1, NextLedger
  <2>2. CASE \E c \in CartRequests : CartStep(c)
    <3>1. UNCHANGED <<sku, orders, req>> /\ Placed' = Placed
      BY <2>2, CartStepKeeps
    <3> QED BY <3>1 DEF LedgerInv, Ledger, TotalsMatchLines, RunningTotals, Ordered
  <2> QED BY <2>1, <2>2 DEF ShopNext, OrderStep, shopVars
<1>3. LedgerInv => Ledger
  BY DEF LedgerInv
<1> QED BY <1>1, <1>2, <1>3, ShopIsolation, PTL DEF ShopSpec

------------------------------------------------------------------------------
(* What is on an order was in the cart.                                     *)

\* What a cart view has stored stays stored: from there it answers or dies.
LEMMA StoredStays ==
  ASSUME CartLocals, NEW c \in CartRequests, C!Step(c), NEW d \in CartRequests,
         NEW u, NEW s, NEW n, Stored(d, u, s, n)
  PROVE  Stored(d, u, s, n)'
<1> DEFINE l == creq[d]
<1>0. CartLocal(l) /\ l.pc \in {"total", "done"}
  BY NilAssumption DEF CartLocals, CartLocal, Stored, ServerError
<1>1. PICK m : creq' = [creq EXCEPT ![c] = m]
  BY DEF C!Step, C!View, C!Refuse, C!Accept, C!GetSku, C!Hget, C!Hset, C!Hdel, C!Total,
         C!Hgetall, C!ShowItem, C!Render, C!Crash, C!Reply, C!Summed
<1>2. CASE c # d
  <2>1. creq'[d] = creq[d]
    BY <1>1, <1>2 DEF CartLocals
  <2> QED BY <2>1 DEF Stored
<1>3. CASE c = d
  <2>1. l.pc = "total" /\ (C!Total(d) \/ C!Crash(d))
    BY <1>0, <1>3 DEF C!Step, C!View, C!Refuse, C!Accept, C!GetSku, C!Hget, C!Hset, C!Hdel,
         C!Total, C!Hgetall, C!ShowItem, C!Render, C!Crash
  <2>2. l.kind \in C!Writers /\ l.user = u /\ l.sku_id = s /\ l.count = n
    BY DEF Stored
  <2>3. CASE C!Total(d)
    <3>1. PICK t : creq' = [creq EXCEPT ![d] =
                     [l EXCEPT !.pc = "done", !.res = 5, !.total_count = t]]
      BY <2>2, <2>3 DEF C!Total, C!Writers
    <3>2. creq'[d] = [l EXCEPT !.pc = "done", !.res = 5, !.total_count = t]
      BY <3>1 DEF CartLocals
    <3> QED BY <1>0, <2>2, <3>2 DEF Stored, CartLocal
  <2>4. CASE C!Crash(d)
    <3>1. creq'[d] = [l EXCEPT !.pc = "done", !.res = ServerError]
      BY <2>4 DEF C!Crash, C!Reply, C!ServerError, ServerError, CartLocals
    <3> QED BY <1>0, <2>2, <3>1 DEF Stored, CartLocal
  <2> QED BY <2>1, <2>3, <2>4
<1> QED BY <1>2, <1>3

\* A count that was in the cart stays one that was, whatever step is taken.
LEMMA FromCartStays ==
  ASSUME CartLocals, [ShopNext]_shopVars, NEW u, NEW s, NEW n, FromCart(u, s, n)
  PROVE  FromCart(u, s, n)'
<1>1. CASE UNCHANGED creq
  BY <1>1 DEF FromCart, Stored
<1>2. ASSUME NEW c \in CartRequests, C!Step(c) PROVE FromCart(u, s, n)'
  BY <1>2, StoredStays DEF FromCart
<1> QED BY <1>1, <1>2 DEF ShopNext, OrderStep, CartStep, shopVars

\* So do the counts on a set of lines.
LEMMA GoodsStay ==
  ASSUME CartLocals, [ShopNext]_shopVars, NEW u, NEW g, GoodsFromCart(u, g)
  PROVE  GoodsFromCart(u, g)'
BY FromCartStays DEF GoodsFromCart

\* Steps of the cart views: hset stores a count and is the step that may put
\* a new one into the cart.
LEMMA EntriesCartStep ==
  ASSUME CartLocals, cart \in Carts, EntriesFromCart, [ShopNext]_shopVars,
         NEW c \in CartRequests, CartStep(c)
  PROVE  EntriesFromCart'
<1> DEFINE l == creq[c]
<1>0. CartLocal(l) /\ C!Step(c)
  BY DEF CartLocals, CartStep
<1> SUFFICES ASSUME NEW u \in Users, NEW s \in Fields(cart'[u])
             PROVE  \A n : n = cart'[u][s] => FromCart(u, s, n)'
  BY DEF EntriesFromCart
<1> TAKE n
<1>1. HAVE n = cart'[u][s]
<1>2. CASE cart[u][s] = n /\ s \in Fields(cart[u])
  BY <1>1, <1>2, FromCartStays DEF EntriesFromCart
<1>3. CASE C!Hset(c)
  <2>1. /\ l.pc = "hset"
        /\ cart' = [cart EXCEPT ![l.user] = C!HSet(cart[l.user], l.sku_id, l.count)]
        /\ creq' = [creq EXCEPT ![c] = [l EXCEPT !.pc = "total"]]
    BY <1>3 DEF C!Hset
  <2>2. l.user \in Users /\ l.sku_id \in Skus /\ l.kind \in {"add", "update"}
    BY <1>0, <2>1 DEF CartLocal
  <2>3. CASE u = l.user /\ s = l.sku_id
    <3>1. n = l.count
      BY <1>1, <2>1, <2>2, <2>3 DEF C!HSet, Carts
    <3>2. creq'[c] = [l EXCEPT !.pc = "total"]
      BY <2>1 DEF CartLocals
    <3>3. /\ creq'[c].pc = "total" /\ creq'[c].kind = l.kind /\ creq'[c].user = u
          /\ creq'[c].sku_id = s /\ creq'[c].count = n
      BY <1>0, <2>3, <3>1, <3>2 DEF CartLocal
    <3>4. Stored(c, u, s, n)'
      BY <2>2, <3>3 DEF Stored, C!Writers
    <3> QED BY <1>1, <3>4 DEF FromCart
  <2>4. CASE ~(u = l.user /\ s = l.sku_id)
    BY <1>1, <1>2, <2>1, <2>2, <2>4 DEF C!HSet, Carts, Fields
  <2> QED BY <2>3, <2>4
<1>4. CASE C!Hdel(c)
  <2>1. cart' = [cart EXCEPT ![l.user] = C!HDel(cart[l.user], {l.sku_id})]
    BY <1>4 DEF C!Hdel
  <2> QED BY <1>1, <1>2, <2>1 DEF C!HDel, Carts, Fields
<1>5. CASE UNCHANGED cart
  BY <1>1, <1>2, <1>5
<1> QED BY <1>0, <1>3, <1>4, <1>5 DEF C!Step, C!View, C!Refuse, C!Accept, C!GetSku, C!Hget,
        C!Total, C!Hgetall, C!ShowItem, C!Render, C!Crash, C!Reply, C!Summed

\* A step of an order request reads a count from the cart, puts it on a line
\* or commits the lines.
LEMMA LinesOrderStep ==
  ASSUME IndInv, LinesWereInCart, CartLocals, [ShopNext]_shopVars,
         NEW r \in Requests, Step(r), UNCHANGED creq
  PROVE  LinesWereInCart'
<1>0. Moves(r) /\ req[r] \in Request /\ LocalOK(req[r]) /\ CountFromCart(r)
  BY StepMoves DEF IndInv, TypeOK, LocalsOK, LinesWereInCart
<1>1. EntriesFromCart'
  <2> SUFFICES ASSUME NEW u \in Users, NEW s \in Fields(cart'[u])
               PROVE  \A n : n = cart'[u][s] => FromCart(u, s, n)'
    BY DEF EntriesFromCart
  <2> TAKE n
  <2>1. HAVE n = cart'[u][s]
  <2>2. cart[u][s] = n /\ s \in Fields(cart[u])
    <3>1. CASE UNCHANGED cart
      BY <2>1, <3>1
    <3>2. CASE cart' = [cart EXCEPT ![req[r].user] = HDel(@, Items(r))]
      BY <2>1, <3>2 DEF HDel, IndInv, TypeOK, Fields
    <3> QED BY <1>0, <3>1, <3>2 DEF Moves, Quiet, Takes, Deletes, Commit
  <2> QED BY <2>1, <2>2, FromCartStays DEF LinesWereInCart, EntriesFromCart
<1>2. ASSUME NEW q \in Requests, q # r PROVE CountFromCart(q)'
  <2>1. req'[q] = req[q] /\ CurrentSku(q)' = CurrentSku(q) /\ CountFromCart(q)
    BY <1>0, <1>2, OtherItem DEF Moves, LinesWereInCart
  <2>2. PICK u, s, n, g :
          u = req[q].user /\ s = CurrentSku(q) /\ n = req[q].count /\ g = req[q].goods
    OBVIOUS
  <2>3. GoodsFromCart(u, g)'
    BY <2>1, <2>2, GoodsStay DEF CountFromCart
  <2>4. req[q].pc = "update" => FromCart(u, s, n)'
    BY <2>1, <2>2, FromCartStays DEF CountFromCart
  <2> QED BY <2>1, <2>2, <2>3, <2>4 DEF CountFromCart
<1>3. CountFromCart(r)'
  <2>0. PICK u, g : u = req[r].user /\ g = req[r].goods
    OBVIOUS
  <2>1. GoodsFromCart(u, g)'
    BY <1>0, <2>0, GoodsStay DEF CountFromCart
  <2>2. CASE req'[r].goods = NoGoods /\ req'[r].pc # "update"
    BY <2>2 DEF CountFromCart, GoodsFromCart, Fields, NoGoods
  <2>3. CASE SameLines(req[r], req'[r]) /\ req'[r].pc # "update"
    BY <2>0, <2>1, <2>3 DEF CountFromCart, SameLines, SameOrder
  <2>4. CASE /\ req[r].pc = "hget" /\ req'[r].pc = "update"
             /\ req'[r].count = cart[req[r].user][CurrentSku(r)] /\ req'[r].count # Nil
             /\ SameLines(req[r], req'[r]) /\ req'[r].at = req[r].at
    <3>1. PICK s, n : s = CurrentSku(r) /\ n = req'[r].count
      OBVIOUS
    <3>2. /\ CurrentSku(r)' = s /\ s \in Skus /\ u \in Users /\ req'[r].user = u
          /\ req'[r].goods = g /\ n = cart[u][s] /\ n # Nil
      BY <2>0, <2>4, <3>1, SameItem, CurrentItem DEF SameLines, SameOrder
    <3>3. s \in Fields(cart[u])
      BY <3>2 DEF IndInv, TypeOK, Fields
    <3>4. FromCart(u, s, n)
      BY <3>2, <3>3 DEF LinesWereInCart, EntriesFromCart
    <3>5. FromCart(u, s, n)'
      BY <3>4, FromCartStays
    <3> QED BY <2>1, <3>1, <3>2, <3>5 DEF CountFromCart
  <2>5. CASE Takes(r, req[r], req'[r])
    <3> DEFINE line == [count |-> req[r].count, price |-> req[r].sku.price]
    <3>1. PICK s, n : s = CurrentSku(r) /\ n = req[r].count
      OBVIOUS
    <3>2. /\ req[r].pc = "update" /\ req'[r].pc # "update" /\ req'[r].user = u
          /\ req'[r].goods = [g EXCEPT ![s] = line] /\ line.count = n
      BY <2>0, <2>5, <3>1 DEF Takes, Goes, SameOrder
    <3>3. s \in Skus /\ g \in Goods
      BY <1>0, <2>0, <3>1, <3>2, CurrentItem DEF Request
    <3>4. FromCart(u, s, n)
      BY <1>0, <2>0, <3>1, <3>2 DEF CountFromCart
    <3>5. FromCart(u, s, n)'
      BY <3>4, FromCartStays
    <3> HIDE DEF line
    <3>6. ASSUME NEW i \in Fields(req'[r].goods), NEW m, m = req'[r].goods[i].count
          PROVE  FromCart(u, i, m)'
      <4>1. CASE i = s
        BY <3>2, <3>3, <3>5, <3>6, <4>1 DEF Goods
      <4>2. CASE i # s
        <5>1. i \in Fields(g) /\ m = g[i].count
          BY <3>2, <3>3, <3>6, <4>2 DEF Goods, Fields
        <5> QED BY <2>1, <5>1 DEF GoodsFromCart
      <4> QED BY <4>1, <4>2
    <3>7. GoodsFromCart(req[r].user, req[r].goods)'
      BY <3>2, <3>6 DEF GoodsFromCart
    <3> QED BY <3>2, <3>7 DEF CountFromCart
  <2> QED BY <1>0, <2>2, <2>3, <2>4, <2>5 DEF Moves, Quiet, Deletes, Ends, Begins, Goes
<1>4. ASSUME NEW q \in Placed' PROVE GoodsFromCart(orders[q].user, orders[q].goods)'
  <2>0. PICK u, g : u = orders'[q].user /\ g = orders'[q].goods
    OBVIOUS
  <2>1. GoodsFromCart(u, g)
    <3>1. CASE Commit(r)
      <4>1. /\ Placed' = Placed \cup {r}
            /\ \A p \in Requests \ {r} : orders'[p] = orders[p]
            /\ orders'[r].user = req[r].user /\ orders'[r].goods = req[r].goods
        BY <3>1, CommitPlaces
      <4> QED BY <1>0, <2>0, <4>1 DEF Placed, LinesWereInCart, CountFromCart
    <3>2. CASE ~Commit(r)
      <4>1. UNCHANGED <<sku, orders>>
        BY <3>2, OnlyCommitWrites
      <4> QED BY <2>0, <4>1 DEF Placed, LinesWereInCart
    <3> QED BY <3>1, <3>2
  <2>2. GoodsFromCart(u, g)'
    BY <2>1, GoodsStay
  <2> QED BY <2>0, <2>2
<1> QED BY <1>1, <1>2, <1>3, <1>4 DEF LinesWereInCart

\* Steps that are no order request's leave its counts and lines alone.
LEMMA LinesKept ==
  ASSUME LinesWereInCart, CartLocals, [ShopNext]_shopVars, UNCHANGED <<orders, req>>,
         EntriesFromCart'
  PROVE  LinesWereInCart'
<1>1. ASSUME NEW r \in Requests PROVE CountFromCart(r)'
  <2>1. req'[r] = req[r] /\ CurrentSku(r)' = CurrentSku(r) /\ CountFromCart(r)
    BY OtherItem DEF LinesWereInCart
  <2>2. PICK u, s, n, g :
          u = req[r].user /\ s = CurrentSku(r) /\ n = req[r].count /\ g = req[r].goods
    OBVIOUS
  <2>3. GoodsFromCart(u, g)'
    BY <2>1, <2>2, GoodsStay DEF CountFromCart
  <2>4. req[r].pc = "update" => FromCart(u, s, n)'
    BY <2>1, <2>2, FromCartStays DEF CountFromCart
  <2> QED BY <2>1, <2>2, <2>3, <2>4 DEF CountFromCart
<1>2. ASSUME NEW q \in Placed' PROVE GoodsFromCart(orders[q].user, orders[q].goods)'
  <2>1. PICK u, g : u = orders[q].user /\ g = orders[q].goods
    OBVIOUS
  <2>2. GoodsFromCart(u, g)
    BY <2>1 DEF LinesWereInCart, Placed
  <2>3. GoodsFromCart(u, g)'
    BY <2>2, GoodsStay
  <2> QED BY <2>1, <2>3
<1> QED BY <1>1, <1>2 DEF LinesWereInCart

\* Whatever the cart views write while an order runs through its items, every
\* line of a committed order has a count that the customer's cart held.
THEOREM ShopLinesWereInCart == ShopSpec => []LinesWereInCart
<1>1. ShopInit => LinesWereInCart
  <2> SUFFICES ASSUME ShopInit PROVE LinesWereInCart
    OBVIOUS
  <2>1. EntriesFromCart
    BY DEF ShopInit, Init, EntriesFromCart, FromCart
  <2>2. \A r \in Requests : req[r].pc = "idle" /\ req[r].goods = NoGoods
    BY DEF ShopInit, Init, Idle
  <2>3. \A r \in Requests : CountFromCart(r)
    BY <2>2 DEF CountFromCart, GoodsFromCart, Fields, NoGoods
  <2>4. Placed = {}
    BY DEF ShopInit, Init, Placed
  <2> QED BY <2>1, <2>3, <2>4 DEF LinesWereInCart
<1>2. ShopInv /\ LinesWereInCart /\ [ShopNext]_shopVars => LinesWereInCart'
  <2> SUFFICES ASSUME ShopInv, LinesWereInCart, [ShopNext]_shopVars PROVE LinesWereInCart'
    OBVIOUS
  <2>0. IndInv /\ CartLocals /\ EntriesFromCart /\ cart \in Carts
    BY DEF ShopInv, LinesWereInCart, IndInv, TypeOK, Carts
  <2>1. ASSUME NEW r \in Requests, Step(r), UNCHANGED creq PROVE LinesWereInCart'
    BY <2>0, <2>1, LinesOrderStep
  <2>2. CASE UNCHANGED <<orders, cart, req, creq>>
    <3>1. EntriesFromCart'
      BY <2>0, <2>2 DEF EntriesFromCart, FromCart, Stored
    <3> QED BY <2>0, <2>2, <3>1, LinesKept
  <2>3. ASSUME NEW c \in CartRequests, CartStep(c) PROVE LinesWereInCart'
    <3>1. EntriesFromCart'
      BY <2>0, <2>3, EntriesCartStep
    <3>2. UNCHANGED <<orders, req>>
      BY <2>3, CartStepKeeps
    <3> QED BY <2>0, <3>1, <3>2, LinesKept
  <2> QED BY <2>1, <2>2, <2>3 DEF ShopNext, OrderStep, shopVars, Next, Tick, Finished, vars, db
<1> QED BY <1>1, <1>2, ShopInvHolds, PTL DEF ShopSpec
==============================================================================
