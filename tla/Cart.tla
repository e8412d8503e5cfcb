-------------------------------- MODULE Cart --------------------------------
(****************************************************************************)
(* The shopping cart: POST /cart/add, /cart/update and /cart/delete and the *)
(* cart page.  A cart is the Redis hash cart_<user id> from item ids to     *)
(* counts.  The views run without a transaction: every Redis command and    *)
(* every read of df_goods_sku is a step of its own, and requests of one     *)
(* user (two tabs, a double click) interleave.                              *)
(****************************************************************************)
EXTENDS Redis

CONSTANTS
    Users,          \* customers (user.id)
    Skus,           \* item ids
    Requests,       \* one identity per HTTP request
    AddCounts,      \* what detail.html sends as count (its minus button has no bound)
    UpdateCounts,   \* what cart.html sends as count (it stops at 1)
    InitStock,      \* stock of each item at the start, Nil without a row
    InitCart        \* the carts at the start

ASSUME CartAssumption ==
    /\ InitStock \in [Skus -> Int \cup {Nil}]
    /\ InitCart \in [Users -> [Skus -> Int \cup {Nil}]]
    /\ AddCounts \subseteq Int /\ UpdateCounts \subseteq Int
    /\ Nil \notin Int /\ Nil \notin Skus
    /\ IsFiniteSet(Skus) /\ IsFiniteSet(Requests)

VARIABLES
    stock,          \* stock column of df_goods_sku, Nil where there is no row
    cart,           \* the Redis hash of each user
    req             \* the local variables of each request

vars == <<stock, cart, req>>

Kinds == {"add", "update", "delete", "show"}
Writers == {"add", "update"}

Idle == [pc |-> "idle", kind |-> Nil, user |-> Nil, sku_id |-> Nil, count |-> 0,
         stock |-> 0, left |-> {}, total_count |-> 0, res |-> Nil,
         asked |-> 0, seen |-> Nil]    \* for the properties: form count, hget

Init ==
    /\ stock = InitStock
    /\ cart = InitCart
    /\ req = [r \in Requests |-> Idle]

------------------------------------------------------------------------------

ServerError == 500

\* What a client sends: count_ok is false when int(count) raises.
Forms == [is_authenticated: BOOLEAN, complete: BOOLEAN, count_ok: BOOLEAN]

\* What it asks for; delete and the cart page have no count.
Inputs == [kind: {"add"}, sku_id: Skus, count: AddCounts]
            \cup [kind: {"update"}, sku_id: Skus, count: UpdateCounts]
            \cup [kind: {"delete"}, sku_id: Skus, count: {0}]
            \cup [kind: {"show"}, sku_id: {Nil}, count: {0}]

\* The reply of the checks before the database is asked, or Nil.  The cart
\* page sends an anonymous visitor to the login page.
Validate(kind, form) ==
    IF ~form.is_authenticated THEN 0
    ELSE IF kind # "show" /\ ~form.complete THEN 1
    ELSE IF kind \in Writers /\ ~form.count_ok THEN 2
    ELSE Nil

Reply(r, res) ==
    /\ req' = [req EXCEPT ![r] = [@ EXCEPT !.pc = "done", !.res = res]]
    /\ UNCHANGED <<stock, cart>>

Refuse(r) ==
    /\ req[r].pc = "idle"
    /\ \E kind \in Kinds, form \in Forms :
          /\ Validate(kind, form) # Nil
          /\ Reply(r, Validate(kind, form))

Accept(r) ==
    /\ req[r].pc = "idle"
    /\ \E u \in Users, in \in Inputs :
          /\ \E form \in Forms : Validate(in.kind, form) = Nil
          /\ req' = [req EXCEPT ![r] =
               [@ EXCEPT !.pc = IF in.kind = "show" THEN "hgetall" ELSE "get",
                         !.kind = in.kind, !.user = u, !.sku_id = in.sku_id,
                         !.count = in.count, !.asked = in.count]]
    /\ UNCHANGED <<stock, cart>>

\* Mutant: the delete view does not need the row.
GetSkuDeletes(r) ==
    /\ req[r].pc = "get" /\ req[r].kind = "delete"
    /\ req' = [req EXCEPT ![r].pc = "hdel"]
    /\ UNCHANGED <<stock, cart>>

\* GoodsSKU.objects.get(id=sku_id).  Update compares with the stock at once,
\* delete only needs the row to exist.
GetSku(r) ==
    LET s == req[r].sku_id IN
    /\ req[r].pc = "get"
    /\ IF stock[s] = Nil
       THEN Reply(r, IF req[r].kind = "delete" THEN 2 ELSE 3)
       ELSE IF req[r].kind = "update" /\ req[r].count > stock[s]
       THEN Reply(r, 4)
       ELSE /\ req' = [req EXCEPT ![r] =
                 [@ EXCEPT !.stock = stock[s],
                           !.pc = CASE req[r].kind = "add" -> "hget"
                                    [] req[r].kind = "update" -> "hset"
                                    [] req[r].kind = "delete" -> "hdel"]]
            /\ UNCHANGED <<stock, cart>>

Entry(u, s) == IF cart[u][s] = Nil THEN 0 ELSE cart[u][s]

\* What is in the cart already counts towards the stock.
Accumulated(r) == req[r].count + Entry(req[r].user, req[r].sku_id)

Summed(r, sum) ==
    /\ req' = [req EXCEPT ![r] =
         [@ EXCEPT !.pc = "hset", !.count = sum,
                   !.seen = Entry(req[r].user, req[r].sku_id)]]
    /\ UNCHANGED <<stock, cart>>

\* Mutant: the stock is compared with the added count alone.
HgetUnaccumulated(r) ==
    /\ req[r].pc = "hget"
    /\ IF req[r].count > req[r].stock THEN Reply(r, 4) ELSE Summed(r, Accumulated(r))

\* Mutant: an entry that is in the cart already is overwritten.
HgetOverwrites(r) ==
    /\ req[r].pc = "hget"
    /\ IF req[r].count > req[r].stock THEN Reply(r, 4) ELSE Summed(r, req[r].count)

\* CartAddView: hget, the sum and the stock check.
Hget(r) ==
    /\ req[r].pc = "hget"
    /\ IF Accumulated(r) > req[r].stock
       THEN Reply(r, 4)
       ELSE Summed(r, Accumulated(r))

\* conn.hset(cart_key, sku_id, count).
Hset(r) ==
    /\ req[r].pc = "hset"
    /\ cart' = [cart EXCEPT ![req[r].user] = HSet(@, req[r].sku_id, req[r].count)]
    /\ req' = [req EXCEPT ![r].pc = "total"]
    /\ UNCHANGED stock

\* conn.hdel(cart_key, sku_id).
Hdel(r) ==
    /\ req[r].pc = "hdel"
    /\ cart' = [cart EXCEPT ![req[r].user] = HDel(@, {req[r].sku_id})]
    /\ req' = [req EXCEPT ![r].pc = "total"]
    /\ UNCHANGED stock

\* The number for the page: add answers with the number of different items
\* (hlen), update and delete with the number of units (hvals).
Total(r) ==
    LET hash == cart[req[r].user] IN
    /\ req[r].pc = "total"
    /\ req' = [req EXCEPT ![r] =
         [@ EXCEPT !.pc = "done",
                   !.res = IF req[r].kind = "delete" THEN 3 ELSE 5,
                   !.total_count = IF req[r].kind = "add" THEN HLen(hash)
                                                          ELSE SumVals(hash)]]
    /\ UNCHANGED <<stock, cart>>

\* CartInfoView: hgetall, then one query per entry; an entry whose item has
\* no row any more makes get raise DoesNotExist.
Hgetall(r) ==
    LET hash == cart[req[r].user] IN
    /\ req[r].pc = "hgetall"
    /\ req' = [req EXCEPT ![r] = [@ EXCEPT !.pc = "rows", !.left = Fields(hash),
                                           !.total_count = SumVals(hash)]]
    /\ UNCHANGED <<stock, cart>>

ShowItem(r) ==
    /\ req[r].pc = "rows"
    /\ \E s \in req[r].left :
          IF stock[s] = Nil
          THEN Reply(r, ServerError)
          ELSE /\ req' = [req EXCEPT ![r].left = @ \ {s}]
               /\ UNCHANGED <<stock, cart>>

Render(r) ==
    /\ req[r].pc = "rows"
    /\ req[r].left = {}
    /\ Reply(r, 200)

\* The worker dies or Redis or MySQL fails: what was written stays.
Crash(r) ==
    /\ req[r].pc \notin {"idle", "done"}
    /\ Reply(r, ServerError)

View(r) ==
    \/ GetSku(r)
    \/ Hget(r)
    \/ Hset(r)
    \/ Hdel(r)
    \/ Total(r)
    \/ Hgetall(r)
    \/ ShowItem(r)
    \/ Render(r)

Step(r) == Refuse(r) \/ Accept(r) \/ View(r) \/ Crash(r)

------------------------------------------------------------------------------
(* Properties.                                                              *)

PCs == {"idle", "get", "hget", "hset", "hdel", "total", "hgetall", "rows", "done"}
Replies == (0..5) \cup {200, ServerError, Nil}

Request == [pc: PCs, kind: Kinds \cup {Nil}, user: Users \cup {Nil},
            sku_id: Skus \cup {Nil}, count: Int, stock: Int, left: SUBSET Skus,
            total_count: Int, res: Replies, asked: Int, seen: Int \cup {Nil}]

\* Every variable stays in the set of values Redis, the table and the views'
\* local variables can hold.
TypeOK ==
    /\ stock \in [Skus -> Int \cup {Nil}]
    /\ cart \in [Users -> [Skus -> Int \cup {Nil}]]
    /\ req \in [Requests -> Request]

\* Whatever adds and updates overlap, an entry that a request has written was
\* compared with the stock of the item as a whole, units that were already in
\* the cart included: it never exceeds the stock its writer had read.
EntriesWereChecked ==
    \A u \in Users : \A s \in Fields(cart[u]) :
        \/ cart[u][s] = InitCart[u][s]
        \/ \E r \in Requests :
              /\ req[r].kind \in Writers
              /\ req[r].user = u /\ req[r].sku_id = s
              /\ req[r].count = cart[u][s]
              /\ req[r].count =< req[r].stock
              /\ req[r].pc = "total" \/ req[r].res \in {5, ServerError}

\* The requests that got as far as the cart of u with item s.
Touching(u, s) ==
    {r \in Requests : req[r].user = u /\ req[r].sku_id = s
                        /\ req[r].kind # "show"}

\* Nothing but adds has touched the entry, and none has broken off.
AddsOnly(u, s) ==
    \A r \in Touching(u, s) : req[r].kind = "add" /\ req[r].res # ServerError

\* The requests that wrote the entry, and that they had all read another one.
Wrote(u, s) == {r \in Touching(u, s) : req[r].pc = "total" \/ req[r].res = 5}

NoRace(u, s) == \A q, r \in Wrote(u, s) : req[q].seen = req[r].seen => q = r

AddsSummedUp(u, s) ==
    Entry(u, s) = SumOf([r \in Wrote(u, s) |-> req[r].asked], Wrote(u, s))
                    + (IF InitCart[u][s] = Nil THEN 0 ELSE InitCart[u][s])

\* Request r is about to write the sum of its count and of what it read: the
\* entry as it is, or one that another request has added to since.
ReadBefore(r, u, s) ==
    /\ req[r].count = req[r].asked + req[r].seen
    /\ \/ req[r].seen = Entry(u, s)
       \/ \E q \in Wrote(u, s) : req[q].seen = req[r].seen

\* Adds sum up, as long as no two of them read the same entry before writing
\* it: a unit a customer was told is in the cart is lost by that race only.
AddsLostOnlyByRace ==
    \A u \in Users, s \in Skus :
        AddsOnly(u, s) /\ NoRace(u, s) =>
            /\ AddsSummedUp(u, s)
            /\ \A r \in Touching(u, s) : req[r].pc = "hset" => ReadBefore(r, u, s)

\* What a request is at, by what it was asked for and what it has read.
LocalOK(l) ==
    /\ l.pc = "idle" => l = Idle
    /\ l.pc # "done" => l.res = Nil
    /\ l.res = 200 => l.user \in Users
    /\ l.pc \in {"get", "hget", "hset", "hdel", "total"} =>
          l.user \in Users /\ l.sku_id \in Skus /\ l.kind \in Kinds \ {"show"}
    /\ l.pc \in {"hgetall", "rows"} => l.user \in Users /\ l.kind = "show"
    /\ l.pc = "get" \/ l.pc = "hget" => l.count = l.asked
    /\ l.pc = "hget" => l.kind = "add"
    /\ l.pc = "hset" => l.kind \in Writers
    /\ l.pc = "hdel" => l.kind = "delete"
    /\ l.pc \in {"hset", "total"} /\ l.kind \in Writers => l.count =< l.stock

\* Entries, rows and local variables keep their types, so that None and text
\* never reach a comparison, and entries were compared with the stock.
EntriesAreSound ==
    /\ TypeOK
    /\ \A r \in Requests : LocalOK(req[r])
    /\ EntriesWereChecked
==============================================================================
