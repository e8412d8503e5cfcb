----------------------------- MODULE OrderCommit -----------------------------
(****************************************************************************)
(* POST /order/commit (OrderCommitView): several requests turn cart entries *)
(* into orders at once.  One action is one SQL statement or one Redis       *)
(* command, the points at which worker processes interleave.                *)
(*                                                                          *)
(* MySQL is modelled as the view uses it: InnoDB rows of df_goods_sku under *)
(* READ COMMITTED (the isolation level Django 2.x asks for).  A plain read  *)
(* sees the committed row, UPDATE takes the row lock and holds it until the *)
(* transaction ends, and a row has at most one uncommitted version.         *)
(****************************************************************************)
EXTENDS Redis, Sequences

CONSTANTS
    Users,          \* customers (user.id)
    Skus,           \* item ids that a cart may name
    LiveSkus,       \* the ones that still have a row in df_goods_sku
    Requests,       \* one identity per POST
    SkuLists,       \* the sku_ids a POST may carry
    InitSku,        \* the rows of df_goods_sku at the start
    InitCart,       \* the carts at the start
    MaxNow          \* bound on the clock, in seconds

SkuRow == [stock: Int, sales: Int, price: Int]

\* df_order_goods rows of one order, by item; the page cannot name an item
\* twice, so an order has at most one line for it.
Line == [count: Int, price: Int]
Goods == [Skus -> Line \cup {Nil}]
NoGoods == [s \in Skus |-> Nil]

Order == [order_id: Nat \X Users, user: Users, goods: Goods,
          total_count: Int, total_price: Int]

\* The checkboxes of cart.html give each cart field at most once.
DistinctItems(ids) ==
    \A j, k \in 1..Len(ids) : ids[j] = ids[k] => j = k

ASSUME SkuAssumption ==
    /\ LiveSkus \subseteq Skus
    /\ InitSku \in [Skus -> SkuRow]
    /\ \A s \in Skus : InitSku[s].stock >= 0

ASSUME RequestAssumption ==
    /\ \A ids \in SkuLists : /\ ids \in Seq(Skus)
                             /\ Len(ids) > 0
                             /\ DistinctItems(ids)
    /\ InitCart \in [Users -> [Skus -> Int \cup {Nil}]]
    /\ MaxNow \in Nat

ASSUME FiniteAssumption == IsFiniteSet(Requests) /\ IsFiniteSet(Skus)

ASSUME NilAssumption ==
    /\ Nil \notin Requests /\ Nil \notin Int /\ Nil \notin Line /\ Nil \notin Order
    /\ Nil \notin [Skus -> Int \cup {Nil}]

PAY_METHODS == 1..4

\* What the client sends besides sku_ids; addr_exists is the outcome of
\* Address.objects.get, and pay_method 0 stands for any unknown method.
CommitForms == [is_authenticated: BOOLEAN, complete: BOOLEAN,
                pay_method: {0} \cup PAY_METHODS, addr_exists: BOOLEAN]

\* The reply of the checks that precede the transaction's work, or Nil when
\* all of them are passed.
Validate(form) ==
    IF ~form.is_authenticated THEN 0
    ELSE IF ~form.complete THEN 1
    ELSE IF form.pay_method \notin PAY_METHODS THEN 2
    ELSE IF ~form.addr_exists THEN 3
    ELSE Nil

TriesOnce == 1      \* mutant: no second try
Tries == 2          \* for i in range(2)
ServerError == 500  \* an exception leaves the view

VARIABLES
    sku,            \* committed rows of df_goods_sku
    dirty,          \* newest version of each row, committed or not
    lock,           \* row lock: the request whose transaction holds it
    orders,         \* committed df_order_info rows with their df_order_goods
    cart,           \* Redis hash cart_<user id> of each user
    now,            \* wall clock in seconds
    req             \* the view's local variables, per request

db == <<sku, dirty, lock, orders>>
vars == <<sku, dirty, lock, orders, cart, now, req>>

InTransaction == {"get", "hget", "update", "save", "hdel", "commit"}
PCs == {"idle", "create", "done"} \cup InTransaction

Idle == [pc |-> "idle", user |-> Nil, sku_ids |-> << >>, at |-> 1, i |-> 0,
         order_id |-> Nil, sku |-> [stock |-> 0, sales |-> 0, price |-> 0],
         count |-> 0, goods |-> NoGoods, total_count |-> 0, total_price |-> 0,
         order |-> [total_count |-> 0, total_price |-> 0], res |-> Nil]

Init ==
    /\ sku = InitSku
    /\ dirty = InitSku
    /\ lock = [s \in Skus |-> Nil]
    /\ orders = [r \in Requests |-> Nil]
    /\ cart = InitCart
    /\ now = 0
    /\ req = [r \in Requests |-> Idle]

------------------------------------------------------------------------------
(* Parts of the view that several statements share.                         *)

CurrentSku(r) == req[r].sku_ids[req[r].at]

Items(r) == {req[r].sku_ids[k] : k \in 1..Len(req[r].sku_ids)}

\* The request is over: its local variables are gone, the reply is res.
Finish(r, res) ==
    req' = [req EXCEPT ![r] = [Idle EXCEPT !.pc = "done",
                                           !.user = req[r].user,
                                           !.sku_ids = req[r].sku_ids,
                                           !.order_id = req[r].order_id,
                                           !.res = res]]

\* Mutant: the early return forgets savepoint_rollback, so that atomic commits
\* what was written before the failing item.
RollBackForgotten(r, res) ==
    /\ sku' = [s \in Skus |-> IF lock[s] = r THEN dirty[s] ELSE sku[s]]
    /\ lock' = [s \in Skus |-> IF lock[s] = r THEN Nil ELSE lock[s]]
    /\ orders' = [orders EXCEPT ![r] =
         [order_id |-> req[r].order_id, user |-> req[r].user,
          goods |-> req[r].goods, total_count |-> 0, total_price |-> 0]]
    /\ Finish(r, res)
    /\ UNCHANGED <<dirty, cart, now>>

\* MySQL undoes everything the transaction wrote and frees its row locks.
\* After savepoint_rollback(save_id) nothing is left to commit either, as
\* the savepoint is taken before the first write.
RollBack(r, res) ==
    /\ dirty' = [s \in Skus |-> IF lock[s] = r THEN sku[s] ELSE dirty[s]]
    /\ lock' = [s \in Skus |-> IF lock[s] = r THEN Nil ELSE lock[s]]
    /\ Finish(r, res)
    /\ UNCHANGED <<sku, orders, cart, now>>

\* The loop over sku_ids goes on with the next item, or ends.
NextItem(local) ==
    IF local.at < Len(local.sku_ids)
    THEN [local EXCEPT !.pc = "get", !.at = @ + 1, !.i = 0]
    ELSE [local EXCEPT !.pc = "save"]

\* The inner loop tries the item again, or is exhausted.
NextTry(local) ==
    IF local.i + 1 < Tries
    THEN [local EXCEPT !.pc = "get", !.i = local.i + 1]
    ELSE NextItem(local)

\* The requests whose order is committed.
Placed == {r \in Requests : orders[r] # Nil}

\* Another transaction inserted the same primary key and has not ended.
KeyBusy(r) ==
    \E q \in Requests \ {r} : /\ req[q].pc \in InTransaction
                              /\ req[q].order_id = req[r].order_id

RowBusy(r) == lock[CurrentSku(r)] \notin {Nil, r}

------------------------------------------------------------------------------
(* The view, statement by statement.                                        *)

\* One of the checks fails: an error reply before any write.
Refuse(r) ==
    /\ req[r].pc = "idle"
    /\ \E form \in CommitForms :
          /\ Validate(form) # Nil
          /\ req' = [req EXCEPT ![r].pc = "done", ![r].res = Validate(form)]
    /\ UNCHANGED <<db, cart, now>>

\* The checks are passed; order_id is the current second and the user id.
Accept(r) ==
    /\ req[r].pc = "idle"
    /\ \E form \in CommitForms : Validate(form) = Nil
    /\ \E u \in Users, ids \in SkuLists :
          req' = [req EXCEPT ![r] = [@ EXCEPT !.pc = "create",
                                              !.user = u,
                                              !.sku_ids = ids,
                                              !.order_id = <<now, u>>]]
    /\ UNCHANGED <<db, cart, now>>

\* OrderInfo.objects.create: waits for a transaction that inserted the same
\* key; a committed one makes it an IntegrityError, after which Django lets
\* no statement but the rollback of the whole transaction through.
Create(r) ==
    /\ req[r].pc = "create"
    /\ ~KeyBusy(r)
    /\ IF \E q \in Placed : orders[q].order_id = req[r].order_id
       THEN RollBack(r, ServerError)
       ELSE /\ req' = [req EXCEPT ![r].pc = "get"]
            /\ UNCHANGED <<db, cart, now>>

\* GoodsSKU.objects.get(id=sku_id): the committed row, or the transaction's
\* own version of it.
GetSku(r) ==
    LET s == CurrentSku(r) IN
    /\ req[r].pc = "get"
    /\ IF s \notin LiveSkus
       THEN RollBack(r, 4)
       ELSE /\ req' = [req EXCEPT ![r] =
                 [@ EXCEPT !.pc = "hget",
                           !.sku = IF lock[s] = r THEN dirty[s] ELSE sku[s]]]
            /\ UNCHANGED <<db, cart, now>>

\* Mutant: the stock check is missing.
HgetCountNoStock(r) ==
    LET s == CurrentSku(r)
        hash == cart[req[r].user] IN
    /\ req[r].pc = "hget"
    /\ IF hash[s] = Nil THEN RollBack(r, 7)
       ELSE /\ req' = [req EXCEPT ![r] = [@ EXCEPT !.pc = "update",
                                                   !.count = hash[s]]]
            /\ UNCHANGED <<db, cart, now>>

\* Mutant: the count is added to the one of the try before.
HgetCountAdds(r) ==
    LET s == CurrentSku(r)
        hash == cart[req[r].user] IN
    /\ req[r].pc = "hget"
    /\ IF hash[s] = Nil THEN RollBack(r, 7)
       ELSE IF req[r].count + hash[s] > req[r].sku.stock THEN RollBack(r, 6)
       ELSE /\ req' = [req EXCEPT ![r] = [@ EXCEPT !.pc = "update",
                                                   !.count = @ + hash[s]]]
            /\ UNCHANGED <<db, cart, now>>

\* Mutant: the entry leaves the cart as soon as it is read.
HgetCountPops(r) ==
    LET s == CurrentSku(r)
        hash == cart[req[r].user] IN
    /\ req[r].pc = "hget"
    /\ IF hash[s] = Nil THEN RollBack(r, 7)
       ELSE IF hash[s] > req[r].sku.stock THEN RollBack(r, 6)
       ELSE /\ cart' = [cart EXCEPT ![req[r].user] = HDel(@, {s})]
            /\ req' = [req EXCEPT ![r] = [@ EXCEPT !.pc = "update",
                                                   !.count = hash[s]]]
            /\ UNCHANGED <<db, now>>

\* conn.hget and the stock check.  A missing field is None, int(None) raises
\* TypeError, and the outer except turns it into reply 7.
HgetCount(r) ==
    LET s == CurrentSku(r)
        hash == cart[req[r].user] IN
    /\ req[r].pc = "hget"
    /\ IF hash[s] = Nil THEN RollBack(r, 7)
       ELSE IF hash[s] > req[r].sku.stock THEN RollBack(r, 6)
       ELSE /\ req' = [req EXCEPT ![r] = [@ EXCEPT !.pc = "update",
                                                   !.count = hash[s]]]
            /\ UNCHANGED <<db, cart, now>>

\* The item is taken from the stock, with new_sales as the sales column.
TakeItem(r, new_sales) ==
    LET s == CurrentSku(r)
        row == req[r].sku
        n == req[r].count IN
    /\ req[r].pc = "update"
    /\ ~RowBusy(r)
    /\ dirty' = [dirty EXCEPT ![s] = [@ EXCEPT !.stock = row.stock - n,
                                               !.sales = new_sales]]
    /\ req' = [req EXCEPT ![r] = NextItem(
         [req[r] EXCEPT !.goods[s] = [count |-> n, price |-> row.price],
                        !.total_count = @ + n,
                        !.total_price = @ + row.price * n])]
    /\ UNCHANGED <<orders, cart, now>>

\* Mutant: the update does not test the stock it was computed from.
UpdateSkuBlind(r) ==
    /\ TakeItem(r, req[r].sku.sales + req[r].count)
    /\ lock' = [lock EXCEPT ![CurrentSku(r)] = r]
    /\ UNCHANGED sku

\* Mutant: no transaction.atomic, every UPDATE is committed at once.
UpdateSkuAutocommit(r) ==
    /\ TakeItem(r, req[r].sku.sales + req[r].count)
    /\ dirty[CurrentSku(r)].stock = req[r].sku.stock
    /\ sku' = dirty'
    /\ UNCHANGED lock

\* UPDATE ... WHERE id = sku_id AND stock = orgin_stock matches the row: the
\* new version is written, the row stays locked, the order line is inserted
\* and the totals grow.
UpdateSku(r) ==
    /\ TakeItem(r, req[r].sku.sales + req[r].count)
    /\ dirty[CurrentSku(r)].stock = req[r].sku.stock
    /\ lock' = [lock EXCEPT ![CurrentSku(r)] = r]
    /\ UNCHANGED sku

\* Mutant: the totals grow before the outcome of the update is tested.
UpdateMissedCounted(r) ==
    LET s == CurrentSku(r) IN
    /\ req[r].pc = "update"
    /\ ~RowBusy(r)
    /\ dirty[s].stock # req[r].sku.stock
    /\ req' = [req EXCEPT ![r] =
                  NextTry([req[r] EXCEPT !.total_count = @ + req[r].count])]
    /\ UNCHANGED <<db, cart, now>>

\* The UPDATE matches no row (res == 0).  i == 2 is never reached by
\* range(2), so the last failed try falls out of the inner loop and the view
\* goes on without this item.
UpdateMissed(r) ==
    LET s == CurrentSku(r) IN
    /\ req[r].pc = "update"
    /\ ~RowBusy(r)
    /\ dirty[s].stock # req[r].sku.stock
    /\ IF req[r].i = 2
       THEN RollBack(r, 7)
       ELSE /\ req' = [req EXCEPT ![r] = NextTry(req[r])]
            /\ UNCHANGED <<db, cart, now>>

\* order.save() with the final totals.
SaveOrder(r) ==
    /\ req[r].pc = "save"
    /\ req' = [req EXCEPT ![r] =
         [@ EXCEPT !.pc = "hdel",
                   !.order = [total_count |-> req[r].total_count,
                              total_price |-> req[r].total_price]]]
    /\ UNCHANGED <<db, cart, now>>

\* conn.hdel(cart_key, *sku_ids), still inside the transaction.
DeleteFromCart(r) ==
    /\ req[r].pc = "hdel"
    /\ cart' = [cart EXCEPT ![req[r].user] = HDel(@, Items(r))]
    /\ req' = [req EXCEPT ![r].pc = "commit"]
    /\ UNCHANGED <<db, now>>

\* The view returns and transaction.atomic commits.
Commit(r) ==
    /\ req[r].pc = "commit"
    /\ sku' = [s \in Skus |-> IF lock[s] = r THEN dirty[s] ELSE sku[s]]
    /\ lock' = [s \in Skus |-> IF lock[s] = r THEN Nil ELSE lock[s]]
    /\ orders' = [orders EXCEPT ![r] =
         [order_id |-> req[r].order_id, user |-> req[r].user,
          goods |-> req[r].goods,
          total_count |-> req[r].order.total_count,
          total_price |-> req[r].order.total_price]]
    /\ Finish(r, 5)
    /\ UNCHANGED <<dirty, cart, now>>

------------------------------------------------------------------------------
(* What MySQL and the operating system do to a request.                     *)

\* Mutant: a lock wait only ends when the lock is granted.
LockErrorNever(r) == FALSE /\ RollBack(r, ServerError)

\* A statement that waits for a lock may fail instead: InnoDB picks a
\* deadlock victim or the wait times out.
LockError(r) ==
    /\ \/ req[r].pc = "create" /\ KeyBusy(r)
       \/ req[r].pc = "update" /\ RowBusy(r)
    /\ RollBack(r, ServerError)

\* Redis fails hget with an exception, which the outer except turns into
\* reply 7 like any other.
RedisError(r) ==
    /\ req[r].pc = "hget"
    /\ RollBack(r, 7)

\* The worker dies, MySQL refuses a statement, or Redis fails hdel (which is
\* outside the try), at any point before the commit is durable.  What hdel
\* already deleted stays deleted.
Crash(r) ==
    /\ req[r].pc \in {"create"} \cup InTransaction
    /\ RollBack(r, ServerError)

Tick ==
    /\ now < MaxNow
    /\ now' = now + 1
    /\ UNCHANGED <<db, cart, req>>

View(r) ==
    \/ Create(r)
    \/ GetSku(r)
    \/ HgetCount(r)
    \/ UpdateSku(r)
    \/ UpdateMissed(r)
    \/ SaveOrder(r)
    \/ DeleteFromCart(r)
    \/ Commit(r)
    \/ LockError(r)

Step(r) == Refuse(r) \/ Accept(r) \/ View(r) \/ RedisError(r) \/ Crash(r)

\* Every request has been answered.
Finished ==
    /\ \A r \in Requests : req[r].pc = "done"
    /\ UNCHANGED vars

Next == (\E r \in Requests : Step(r)) \/ Tick \/ Finished

Spec == Init /\ [][Next]_vars

\* A worker that serves a request keeps running, and InnoDB ends every lock
\* wait, by granting the lock or by an error.
FairSpec == Spec /\ \A r \in Requests : WF_vars(View(r))

------------------------------------------------------------------------------
(* Properties.                                                              *)

Request == [pc: PCs, user: Users \cup {Nil}, sku_ids: SkuLists \cup {<< >>},
            at: Nat, i: Nat, order_id: (Nat \X Users) \cup {Nil},
            sku: SkuRow, count: Int, goods: Goods,
            total_count: Int, total_price: Int,
            order: [total_count: Int, total_price: Int],
            res: (0..7) \cup {ServerError, Nil}]

\* Every variable stays in the set of values the tables and the view's local
\* variables can hold.
TypeOK ==
    /\ sku \in [Skus -> SkuRow]
    /\ dirty \in [Skus -> SkuRow]
    /\ lock \in [Skus -> Requests \cup {Nil}]
    /\ orders \in [Requests -> Order \cup {Nil}]
    /\ cart \in [Users -> [Skus -> Int \cup {Nil}]]
    /\ now \in Nat
    /\ req \in [Requests -> Request]

Ordered(r, s) ==
    IF s \in Fields(orders[r].goods) THEN orders[r].goods[s].count ELSE 0

\* Optimistic locking never sells more than there is: whatever the requests
\* interleave between reading a row and updating it, the committed stock of
\* no item becomes negative.
NoOversell == \A s \in Skus : sku[s].stock >= 0

\* The update writes stock and sales computed from one earlier read while it
\* compares stock only; still no unit is lost between the two columns.
Conservation ==
    \A s \in Skus : sku[s].stock + sku[s].sales
                      = InitSku[s].stock + InitSku[s].sales

\* Every unit that has left the stock is on a committed order, and every
\* unit on a committed order has left the stock (no lost update).
Ledger ==
    \A s \in Skus :
        InitSku[s].stock - sku[s].stock
          = SumOf([r \in Placed |-> Ordered(r, s)], Placed)

\* The units on the lines of an order, and what they cost.
LineCount(goods) ==
    SumOf([s \in Fields(goods) |-> goods[s].count], Fields(goods))
LinePrice(goods) ==
    SumOf([s \in Fields(goods) |-> goods[s].price * goods[s].count], Fields(goods))

\* The totals that a customer pays are the totals of the order's lines, also
\* when a line was retried or skipped.
TotalsMatchLines ==
    \A r \in Placed :
        /\ orders[r].total_count = LineCount(orders[r].goods)
        /\ orders[r].total_price = LinePrice(orders[r].goods)

\* The running totals are those of the lines inserted so far, and order.save
\* writes them.
TotalsOK(l) ==
    /\ l.total_count = LineCount(l.goods) /\ l.total_price = LinePrice(l.goods)
    /\ l.pc \in {"hdel", "commit"} =>
          l.order = [total_count |-> l.total_count, total_price |-> l.total_price]

RunningTotals == \A r \in Requests : TotalsOK(req[r])

\* An error reply means that nothing happened: no order, and no row of the
\* transaction that is still locked or changed, even when an early item of
\* the list had been taken from the stock before a later one failed.
FailureLeavesNoTrace ==
    \A r \in Requests :
        req[r].pc = "done" /\ req[r].res # 5 =>
            /\ r \notin Placed
            /\ \A s \in Skus : lock[s] # r

\* Submitting a cart twice (double click, second tab, retry after a lost
\* answer) orders it once: what all orders of a user hold of an item never
\* exceeds what was in the cart.  Meant for carts with positive counts.
OrderedAtMostOnce ==
    \A u \in Users : \A s \in Fields(InitCart[u]) :
        SumOf([r \in Placed |-> Ordered(r, s)], {r \in Placed : orders[r].user = u})
          =< InitCart[u][s]

\* No cart starts with an entry that is not positive.
PositiveCarts == \A u \in Users : \A s \in Fields(InitCart[u]) : InitCart[u][s] > 0

\* A committed order of u with a line for s, and that there is none.
OrderedBy(q, u, s) ==
    /\ q \in Placed
    /\ orders[q].user = u /\ s \in Fields(orders[q].goods)
NotOrdered(u, s) == \A q \in Requests : ~OrderedBy(q, u, s)

\* A count that was read is what the cart held at the start, and while the row
\* still has the stock that was read, no order of the customer with the item
\* has been committed.
ReadsFirst(r) ==
    /\ req[r].pc \in {"hget", "update"} => req[r].sku.stock >= sku[CurrentSku(r)].stock
    /\ req[r].pc = "update" =>
          /\ InitCart[req[r].user][CurrentSku(r)] # Nil
          /\ req[r].count = InitCart[req[r].user][CurrentSku(r)]
          /\ req[r].sku.stock = sku[CurrentSku(r)].stock =>
                NotOrdered(req[r].user, CurrentSku(r))
    /\ req[r].pc = "commit" => \A i \in Items(r) : cart[req[r].user][i] = Nil

\* The same of a count that is on a line.
LinesFirst(r) ==
    \A s \in Fields(req[r].goods) :
        /\ s \in Items(r) /\ NotOrdered(req[r].user, s)
        /\ InitCart[req[r].user][s] # Nil
        /\ req[r].goods[s].count = InitCart[req[r].user][s]

\* An item that has been ordered is not in the cart, and on one order only.
OrderedOnce ==
    \A r \in Requests, u \in Users, s \in Skus :
        OrderedBy(r, u, s) =>
            /\ cart[u][s] = Nil
            /\ InitCart[u][s] # Nil /\ orders[r].goods[s].count = InitCart[u][s]
            /\ \A q \in Requests : OrderedBy(q, u, s) => q = r

\* Of two requests with the same cart entry the second one fails, by the stock
\* it read or by the entry that is gone.
OnceFromCart ==
    /\ \A u \in Users, s \in Skus : cart[u][s] \in {InitCart[u][s], Nil}
    /\ \A r \in Requests : ReadsFirst(r) /\ LinesFirst(r)
    /\ OrderedOnce

\* Committed orders account for the stock, for their totals and for the carts
\* they were made from.
OrdersAreSound ==
    Ledger /\ TotalsMatchLines /\ RunningTotals /\ OnceFromCart /\ OrderedAtMostOnce

\* Request r has deleted s from the cart of u, and was not refused.
TookFromCart(r, u, s) ==
    /\ req[r].user = u
    /\ s \in Items(r)
    /\ req[r].pc = "commit" \/ req[r].res \in {5, ServerError}

\* A refused order (replies 4, 6 and 7) leaves the cart alone: an entry only
\* disappears through a request that committed, is about to, or broke off.
CartKeptOnRefusal ==
    \A u \in Users : \A s \in Fields(InitCart[u]) \ Fields(cart[u]) :
        \E r \in Requests : TookFromCart(r, u, s)

\* The other orders with item s that have been committed.
Rivals(r, s) == {q \in Placed \ {r} : s \in Fields(orders[q].goods)}

\* The k-th item of the list has a line, or lost to two other orders.
Tried(r, k) ==
    \/ req[r].goods[req[r].sku_ids[k]] # Nil
    \/ Cardinality(Rivals(r, req[r].sku_ids[k])) >= 2

\* Every failed try has seen another order with the item committed, and every
\* item that was left behind without a line has seen two.
TriesCounted(r) ==
    /\ req[r].pc = "create" => req[r].at = 1 /\ req[r].i = 0
    /\ req[r].pc \in {"get", "hget", "update"} =>
          /\ Cardinality(Rivals(r, CurrentSku(r))) >= req[r].i
          /\ \A k \in 1..(req[r].at - 1) : Tried(r, k)
    /\ req[r].pc \in {"hget", "update"} /\ req[r].sku.stock # sku[CurrentSku(r)].stock =>
          Cardinality(Rivals(r, CurrentSku(r))) > req[r].i
    /\ req[r].pc \in {"save", "hdel", "commit"} =>
          \A k \in 1..Len(req[r].sku_ids) : Tried(r, k)

\* An order that lacks a requested item lost the race for it twice: two
\* other orders with that item were committed meanwhile.
SkippedOnlyUnderContention ==
    /\ \A r \in Requests : TriesCounted(r)
    /\ \A r \in Placed : \A s \in Items(r) \ Fields(orders[r].goods) :
          Cardinality(Rivals(r, s)) >= 2

\* "if it is the third try and it still fails, roll back and leave": an
\* order that is committed has a line for every item that was requested.
OrderComplete ==
    \A r \in Placed : Items(r) = Fields(orders[r].goods)

\* Two transactions that lock the same rows in opposite orders do not wait
\* for each other for ever: every request that was accepted is answered.
EveryRequestAnswered ==
    \A r \in Requests : req[r].pc = "create" ~> req[r].pc = "done"

------------------------------------------------------------------------------
(* The inductive invariant behind the safety properties.                    *)

Total(s) == InitSku[s].stock + InitSku[s].sales

\* What holds of the local variables l of a request, wherever it is: a
\* row read earlier was consistent, and only items before the current one
\* have an order line.
LocalOK(l) ==
    /\ l.pc \in {"create"} \cup InTransaction =>
          /\ l.user \in Users
          /\ l.sku_ids \in SkuLists
          /\ l.at \in 1..Len(l.sku_ids)
          /\ l.order_id \in Nat \X Users
    /\ l.pc = "idle" => l = Idle
    /\ l.pc # "done" => l.res = Nil
    /\ l.pc \in {"hget", "update"} =>
          l.sku.stock + l.sku.sales = Total(l.sku_ids[l.at])
    /\ l.pc = "update" => l.count =< l.sku.stock
    /\ \A s \in Skus : l.goods[s] # Nil =>
          /\ l.pc \in InTransaction
          /\ l.pc \in {"get", "hget", "update"} =>
                \E k \in 1..(l.at - 1) : l.sku_ids[k] = s

LocalsOK == \A r \in Requests : LocalOK(req[r])

\* A row is locked exactly by the transaction that has an order line for it.
LocksMatchLines ==
    \A r \in Requests, s \in Skus : lock[s] = r <=> req[r].goods[s] # Nil

\* The uncommitted version of a locked row is the committed one with its
\* holder's line moved from stock to sales; an unlocked row has no other
\* version than the committed one.
RowVersions ==
    \A s \in Skus :
        /\ lock[s] = Nil => dirty[s] = sku[s]
        /\ \A r \in Requests :
              lock[s] = r =>
                LET n == req[r].goods[s].count IN
                /\ dirty[s].stock = sku[s].stock - n
                /\ dirty[s].sales = sku[s].sales + n
                /\ n =< sku[s].stock

\* Committed orders belong to requests that were told so.
OrdersAnswered ==
    \A r \in Requests : orders[r] # Nil => req[r].pc = "done" /\ req[r].res = 5

\* Isolation of concurrent orders: every uncommitted row version is accounted
\* for by the lines of the one transaction that holds the row, and with it
\* stock and sales stay consistent across reads, retries and rollbacks.
IndInv ==
    /\ TypeOK
    /\ LocalsOK
    /\ LocksMatchLines
    /\ RowVersions
    /\ OrdersAnswered
    /\ NoOversell
    /\ Conservation

------------------------------------------------------------------------------
(* Refinement.                                                              *)

Quantities(goods) ==
    [s \in Skus |-> IF goods[s] = Nil THEN Nil ELSE goods[s].count]

\* The view implements the one-step order of module Inventory.
Inv == INSTANCE Inventory WITH
         stock <- [s \in Skus |-> sku[s].stock],
         sales <- [s \in Skus |-> sku[s].sales],
         placed <- [r \in Requests |->
                      IF orders[r] = Nil THEN Nil ELSE Quantities(orders[r].goods)],
         InitStock <- [s \in Skus |-> InitSku[s].stock],
         InitSales <- [s \in Skus |-> InitSku[s].sales]

\* Every step of the view is an Inventory step or changes no committed row:
\* orders take effect atomically.
AtomicOrders == Inv!Spec
==============================================================================
