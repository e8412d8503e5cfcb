-------------------------------- MODULE Shop --------------------------------
(****************************************************************************)
(* The cart and the order service together: they share the Redis hash of    *)
(* each customer and the table df_goods_sku.  While POST /order/commit runs *)
(* through its items, the same customer may add, change or delete cart      *)
(* entries from another tab.                                                *)
(****************************************************************************)
EXTENDS OrderCommit

CONSTANTS
    CartRequests,   \* one identity per request to a cart view
    AddCounts,      \* see module Cart
    UpdateCounts

ASSUME CountAssumption == AddCounts \subseteq Int /\ UpdateCounts \subseteq Int

VARIABLE creq       \* local variables of the cart requests

StockColumn(rows) ==
    [s \in Skus |-> IF s \in LiveSkus THEN rows[s].stock ELSE Nil]

C == INSTANCE Cart WITH
       Requests <- CartRequests,
       InitStock <- StockColumn(InitSku),
       stock <- StockColumn(sku),
       req <- creq

shopVars == <<vars, creq>>

ShopInit ==
    /\ Init
    /\ creq = [c \in CartRequests |-> C!Idle]

\* A cart view writes the cart and nothing else.
CartStep(c) ==
    /\ UNCHANGED <<db, now, req>>
    /\ C!Step(c)

OrderStep ==
    /\ Next
    /\ UNCHANGED creq

ShopNext == OrderStep \/ \E c \in CartRequests : CartStep(c)

ShopSpec == ShopInit /\ [][ShopNext]_shopVars

------------------------------------------------------------------------------
(* Properties.                                                              *)

\* A cart request has stored n as the entry of u for s, or may have.
Stored(c, u, s, n) ==
    /\ creq[c].kind \in C!Writers
    /\ creq[c].user = u /\ creq[c].sku_id = s
    /\ creq[c].count = n
    /\ creq[c].pc = "total" \/ creq[c].res \in {5, ServerError}

\* A count that the cart of u really held for s: the initial one, or one that
\* a cart view stored after comparing it with the stock.
FromCart(u, s, n) == n = InitCart[u][s] \/ \E c \in CartRequests : Stored(c, u, s, n)

GoodsFromCart(u, goods) == \A s \in Fields(goods) : FromCart(u, s, goods[s].count)

\* The same of the entries and of the counts and lines of orders under way.
EntriesFromCart ==
    \A u \in Users : \A s \in Fields(cart[u]) : FromCart(u, s, cart[u][s])

CountFromCart(r) ==
    /\ req[r].pc = "update" => FromCart(req[r].user, CurrentSku(r), req[r].count)
    /\ GoodsFromCart(req[r].user, req[r].goods)

\* Whatever changes in the cart while an order is committed, an order line
\* has a count that the cart really held.
LinesWereInCart ==
    /\ EntriesFromCart
    /\ \A r \in Requests : CountFromCart(r)
    /\ \A r \in Placed : GoodsFromCart(orders[r].user, orders[r].goods)
==============================================================================
