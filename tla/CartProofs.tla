----------------------------- MODULE CartProofs -----------------------------
(****************************************************************************)
(* Proofs about the carts and the item administration, for any number of    *)
(* customers, items and requests.                                           *)
(****************************************************************************)
EXTENDS ItemAdmin, SumLemmas, TLAPS

Locals == TypeOK /\ \A r \in Requests : LocalOK(req[r])

\* What a request was asked for does not change after it has begun.
SameInput(l, m) ==
    m.kind = l.kind /\ m.user = l.user /\ m.sku_id = l.sku_id /\ m.asked = l.asked

\* A step of a cart view, by what it does to the local variables l of its
\* request, which become m.
Answered(l, m) ==
    /\ l.pc # "done" /\ m.pc = "done" /\ SameInput(l, m)
    /\ m.count = l.count /\ m.stock = l.stock /\ m.seen = l.seen
    /\ m.res # IF l.kind = "delete" THEN 3 ELSE 5
    /\ m.res = 5 => l.kind = "delete"
    /\ m.res = 200 => l.pc = "rows" /\ l.left = {}
    /\ l.pc \in {"hset", "hdel", "total"} => m.res = ServerError

Begun(l, m) ==
    /\ l = Idle /\ m.res = Nil /\ m.user \in Users /\ m.count = m.asked
    /\ \/ m.pc = "get" /\ m.kind \in Kinds \ {"show"} /\ m.sku_id \in Skus
       \/ m.pc = "hgetall" /\ m.kind = "show" /\ m.sku_id = Nil

Found(l, m) ==
    /\ l.pc = "get" /\ SameInput(l, m) /\ m.count = l.count /\ m.seen = l.seen /\ m.res = l.res
    /\ stock[l.sku_id] # Nil /\ m.stock = stock[l.sku_id]
    /\ \/ m.pc = "hget" /\ l.kind = "add"
       \/ m.pc = "hset" /\ l.kind = "update" /\ l.count =< m.stock
       \/ m.pc = "hdel" /\ l.kind = "delete"

Added(l, m) ==
    /\ l.pc = "hget" /\ m.pc = "hset" /\ SameInput(l, m) /\ m.stock = l.stock /\ m.res = l.res
    /\ m.seen = Entry(l.user, l.sku_id) /\ m.count = l.count + m.seen
    /\ m.count =< l.stock

\* The steps that leave the carts alone, and the two that write one.
Reads(l, m) ==
    \/ Answered(l, m)
    \/ Begun(l, m)
    \/ Found(l, m)
    \/ Added(l, m)
    \/ /\ l.pc = "total" /\ m.pc = "done" /\ SameInput(l, m)
       /\ m.count = l.count /\ m.stock = l.stock /\ m.seen = l.seen
       /\ m.res = IF l.kind = "delete" THEN 3 ELSE 5
    \/ /\ l.pc = "hgetall" /\ m.pc = "rows" /\ SameInput(l, m) /\ m.res = l.res
       /\ m.left = Fields(cart[l.user])
    \/ /\ l.pc = "rows" /\ m.pc = "rows" /\ SameInput(l, m) /\ m.res = l.res
       /\ \E s \in l.left : stock[s] # Nil /\ m.left = l.left \ {s}

Writes(l, m) ==
    /\ m.pc = "total" /\ SameInput(l, m) /\ m.count = l.count /\ m.stock = l.stock
    /\ m.seen = l.seen /\ m.res = l.res
    /\ \/ /\ l.pc = "hset"
          /\ cart' = [cart EXCEPT ![l.user] = HSet(cart[l.user], l.sku_id, l.count)]
       \/ /\ l.pc = "hdel"
          /\ cart' = [cart EXCEPT ![l.user] = HDel(cart[l.user], {l.sku_id})]

Moves(r) ==
    /\ UNCHANGED stock
    /\ \A q \in Requests \ {r} : req'[q] = req[q]
    /\ \/ Reads(req[r], req'[r]) /\ UNCHANGED cart
       \/ Writes(req[r], req'[r])

\* A request ends with an error, without having written.
LEMMA ReplyMoves ==
  ASSUME Locals, NEW r \in Requests, req[r].pc # "done",
         NEW res \in (0..5) \cup {200, ServerError}, Reply(r, res),
         res # IF req[r].kind = "delete" THEN 3 ELSE 5,
         res = 5 => req[r].kind = "delete",
         res = 200 => req[r].pc = "rows" /\ req[r].left = {},
         req[r].pc \in {"hset", "hdel", "total"} => res = ServerError
  PROVE  Moves(r) /\ req'[r] \in Request /\ LocalOK(req'[r])
<1> DEFINE l == req[r]
           m == [l EXCEPT !.pc = "done", !.res = res]
<1>1. l \in Request
  BY DEF Locals, TypeOK
<1>2. req' = [req EXCEPT ![r] = m] /\ UNCHANGED <<stock, cart>>
  BY DEF Reply
<1>3. req'[r] = m /\ \A q \in Requests \ {r} : req'[q] = req[q]
  BY <1>2 DEF Locals, TypeOK
<1>4. /\ m.pc = "done" /\ m.res = res /\ SameInput(l, m)
      /\ m.count = l.count /\ m.stock = l.stock /\ m.seen = l.seen
  BY <1>1 DEF Request, SameInput
<1>6. m \in Request
  <2>1. "done" \in PCs /\ res \in Replies
    BY DEF PCs, Replies
  <2> QED BY <1>1, <2>1 DEF Request
<1> HIDE DEF m
<1>5. Answered(l, m) /\ LocalOK(m)
  <2>1. LocalOK(l)
    BY DEF Locals
  <2>2. res = 200 => m.user \in Users
    BY <1>4, <2>1 DEF LocalOK, SameInput
  <2> QED BY <1>4, <2>2 DEF Answered, LocalOK
<1> QED BY <1>2, <1>3, <1>5, <1>6 DEF Moves, Reads

\* The local variables of r become m and those of no other request change.
LEMMA LocalMoves ==
  ASSUME Locals, NEW r \in Requests, NEW m \in Request, LocalOK(m),
         req' = [req EXCEPT ![r] = m], UNCHANGED stock,
         (Reads(req[r], m) /\ UNCHANGED cart) \/ Writes(req[r], m)
  PROVE  Moves(r) /\ req'[r] \in Request /\ LocalOK(req'[r])
<1>1. req'[r] = m /\ \A q \in Requests \ {r} : req'[q] = req[q]
  BY DEF Locals, TypeOK
<1> QED BY <1>1 DEF Moves

\* The totals are numbers.
LEMMA TotalsAreNumbers ==
  ASSUME NEW h \in [Skus -> Int \cup {Nil}]
  PROVE  HLen(h) \in Int /\ SumVals(h) \in Int
<1>1. Fields(h) \subseteq Skus /\ \A s \in Fields(h) : h[s] \in Int
  BY DEF Fields
<1>2. IsFiniteSet(Fields(h))
  BY <1>1, CartAssumption, FS_Subset
<1>3. Cardinality(Fields(h)) \in Int
  BY <1>2, FS_CardinalityType
<1>4. SumOf(h, Fields(h)) \in Int
  BY <1>1, <1>2, SumRemove
<1> QED BY <1>3, <1>4 DEF HLen, SumVals

\* Every step of a cart view moves its request as listed above.
LEMMA StepMoves ==
  ASSUME Locals, NEW r \in Requests, Step(r)
  PROVE  Moves(r) /\ req'[r] \in Request /\ LocalOK(req'[r])
<1> DEFINE l == req[r]
<1>0. /\ l \in Request /\ LocalOK(l) /\ stock \in [Skus -> Int \cup {Nil}]
      /\ cart \in [Users -> [Skus -> Int \cup {Nil}]]
      /\ l.count \in Int /\ l.stock \in Int /\ l.asked \in Int
  BY DEF Locals, TypeOK, Request
<1>1. CASE Refuse(r)
  <2>1. PICK kind \in Kinds, form_ \in Forms :
          Validate(kind, form_) # Nil /\ Reply(r, Validate(kind, form_))
    BY <1>1 DEF Refuse
  <2>2. PICK res : res = Validate(kind, form_)
    OBVIOUS
  <2>3. res \in {0, 1, 2}
    BY <2>1, <2>2 DEF Validate
  <2>4. l.pc = "idle" /\ l.kind = Nil
    BY <1>0, <1>1 DEF Refuse, LocalOK, Idle
  <2>5. res \in (0..5) \cup {200, ServerError} /\ res # 3 /\ res # 5 /\ res # 200
    BY <2>3
  <2> QED BY <2>1, <2>2, <2>4, <2>5, ReplyMoves
<1>2. CASE Accept(r)
  <2>1. PICK u \in Users, in \in Inputs :
          req' = [req EXCEPT ![r] =
            [l EXCEPT !.pc = IF in.kind = "show" THEN "hgetall" ELSE "get",
                      !.kind = in.kind, !.user = u, !.sku_id = in.sku_id,
                      !.count = in.count, !.asked = in.count]]
    BY <1>2 DEF Accept
  <2> DEFINE pc == IF in.kind = "show" THEN "hgetall" ELSE "get"
             m == [l EXCEPT !.pc = pc, !.kind = in.kind, !.user = u,
                            !.sku_id = in.sku_id, !.count = in.count, !.asked = in.count]
  <2>2. /\ in.count \in Int /\ in.kind \in Kinds
        /\ in.kind # "show" => in.sku_id \in Skus
        /\ in.kind = "show" => in.sku_id = Nil
    <3>1. CASE in \in [kind: {"add"}, sku_id: Skus, count: AddCounts]
      BY <3>1, CartAssumption DEF Kinds
    <3>2. CASE in \in [kind: {"update"}, sku_id: Skus, count: UpdateCounts]
      BY <3>2, CartAssumption DEF Kinds
    <3>3. CASE in \in [kind: {"delete"}, sku_id: Skus, count: {0}]
      BY <3>3 DEF Kinds
    <3>4. CASE in \in [kind: {"show"}, sku_id: {Nil}, count: {0}]
      BY <3>4 DEF Kinds
    <3> QED BY <3>1, <3>2, <3>3, <3>4 DEF Inputs
  <2>3. l = Idle /\ l.res = Nil
    BY <1>0, <1>2 DEF Accept, LocalOK, Idle
  <2>4. pc \in PCs /\ (in.kind = "show" => pc = "hgetall") /\ (in.kind # "show" => pc = "get")
    BY DEF PCs
  <2> HIDE DEF pc
  <2>5. m \in Request
    BY <1>0, <2>2, <2>4 DEF Request
  <2>6. /\ m.pc = pc /\ m.kind = in.kind /\ m.user = u /\ m.sku_id = in.sku_id
        /\ m.count = in.count /\ m.asked = in.count /\ m.res = Nil
    BY <1>0, <2>3 DEF Request
  <2>7. req' = [req EXCEPT ![r] = m] /\ UNCHANGED <<stock, cart>>
    BY <1>2, <2>1 DEF Accept, pc
  <2> HIDE DEF m
  <2>8. Begun(l, m) /\ LocalOK(m)
    BY <2>2, <2>3, <2>4, <2>6 DEF Begun, LocalOK
  <2> QED BY <2>5, <2>7, <2>8, LocalMoves DEF Reads
<1>3. CASE GetSku(r)
  <2> DEFINE s == l.sku_id
  <2>0. /\ l.pc = "get" /\ s \in Skus /\ l.user \in Users /\ l.res = Nil
        /\ l.kind \in {"add", "update", "delete"} /\ l.count = l.asked
    BY <1>0, <1>3 DEF GetSku, LocalOK, Kinds
  <2>1. CASE stock[s] = Nil
    <3>1. PICK res \in {2, 3} : Reply(r, res) /\ (l.kind = "delete" <=> res = 2)
      BY <1>3, <2>1 DEF GetSku
    <3>2. res \in (0..5) \cup {200, ServerError} /\ res # 5 /\ res # 200
      BY <3>1
    <3> QED BY <2>0, <3>1, <3>2, ReplyMoves
  <2>2. CASE stock[s] # Nil /\ l.kind = "update" /\ l.count > stock[s]
    <3>1. Reply(r, 4)
      BY <1>3, <2>2 DEF GetSku
    <3> QED BY <2>0, <3>1, ReplyMoves
  <2>3. CASE stock[s] # Nil /\ ~(l.kind = "update" /\ l.count > stock[s])
    <3> DEFINE pc == CASE l.kind = "add" -> "hget"
                       [] l.kind = "update" -> "hset"
                       [] l.kind = "delete" -> "hdel"
               st == stock[s]
               m == [l EXCEPT !.stock = st, !.pc = pc]
    <3>1. req' = [req EXCEPT ![r] = m] /\ UNCHANGED <<stock, cart>>
      BY <1>3, <2>3 DEF GetSku
    <3>2. /\ pc \in PCs
          /\ \/ pc = "hget" /\ l.kind = "add"
             \/ pc = "hset" /\ l.kind = "update"
             \/ pc = "hdel" /\ l.kind = "delete"
      BY <2>0 DEF PCs
    <3>3. st \in Int /\ (l.kind = "update" => l.count =< st)
      BY <1>0, <2>0, <2>3
    <3> HIDE DEF pc, st
    <3>4. m \in Request
      BY <1>0, <3>2, <3>3 DEF Request
    <3>5. /\ m.pc = pc /\ m.stock = st /\ SameInput(l, m) /\ m.count = l.count
          /\ m.seen = l.seen /\ m.res = l.res
      BY <1>0 DEF Request, SameInput
    <3> HIDE DEF m
    <3>6. Found(l, m)
      BY <2>0, <2>3, <3>2, <3>3, <3>5 DEF Found, st
    <3>7. LocalOK(m)
      BY <2>0, <3>2, <3>3, <3>5 DEF LocalOK, SameInput, Kinds, Writers
    <3> QED BY <3>1, <3>4, <3>6, <3>7, LocalMoves DEF Reads
  <2> QED BY <2>1, <2>2, <2>3
<1>4. CASE Hget(r)
  <2>0. /\ l.pc = "hget" /\ l.user \in Users /\ l.sku_id \in Skus /\ l.kind = "add"
        /\ l.res = Nil /\ l.count = l.asked
    BY <1>0, <1>4 DEF Hget, LocalOK
  <2>1. CASE Accumulated(r) > l.stock
    <3>1. Reply(r, 4)
      BY <1>4, <2>1 DEF Hget
    <3> QED BY <2>0, <3>1, ReplyMoves
  <2>2. CASE ~(Accumulated(r) > l.stock)
    <3> DEFINE old == Entry(l.user, l.sku_id)
               sum == Accumulated(r)
               m == [l EXCEPT !.pc = "hset", !.count = sum, !.seen = old]
    <3>1. req' = [req EXCEPT ![r] = m] /\ UNCHANGED <<stock, cart>>
      BY <1>4, <2>2 DEF Hget, Summed
    <3>2. old \in Int
      BY <1>0, <2>0 DEF Entry
    <3>3. sum = l.count + old /\ sum \in Int
      BY <1>0, <3>2 DEF Accumulated
    <3>4. sum =< l.stock
      BY <1>0, <2>2, <3>3
    <3> HIDE DEF old, sum
    <3>5. m \in Request
      <4>1. "hset" \in PCs
        BY DEF PCs
      <4> QED BY <1>0, <3>2, <3>3, <4>1 DEF Request
    <3>6. /\ m.pc = "hset" /\ m.count = sum /\ m.seen = old /\ SameInput(l, m)
          /\ m.stock = l.stock /\ m.res = l.res
      BY <1>0 DEF Request, SameInput
    <3> HIDE DEF m
    <3>7. Added(l, m)
      BY <2>0, <3>3, <3>4, <3>6 DEF Added, old
    <3>8. LocalOK(m)
      BY <2>0, <3>4, <3>6 DEF LocalOK, SameInput, Kinds, Writers
    <3> QED BY <3>1, <3>5, <3>7, <3>8, LocalMoves DEF Reads
  <2> QED BY <2>1, <2>2
<1>5. CASE Hset(r) \/ Hdel(r)
  <2> DEFINE m == [l EXCEPT !.pc = "total"]
  <2>0. /\ l.pc \in {"hset", "hdel"} /\ l.user \in Users /\ l.sku_id \in Skus
        /\ l.kind \in Kinds \ {"show"} /\ l.res = Nil
        /\ l.kind \in Writers => l.count =< l.stock
    BY <1>0, <1>5 DEF Hset, Hdel, LocalOK, Writers
  <2>1. req' = [req EXCEPT ![r] = m] /\ UNCHANGED stock
    BY <1>5 DEF Hset, Hdel
  <2>2. m \in Request
    <3>1. "total" \in PCs
      BY DEF PCs
    <3> QED BY <1>0, <3>1 DEF Request
  <2>3. /\ m.pc = "total" /\ SameInput(l, m) /\ m.count = l.count /\ m.stock = l.stock
        /\ m.seen = l.seen /\ m.res = l.res
    BY <1>0 DEF Request, SameInput
  <2> HIDE DEF m
  <2>4. Writes(l, m)
    BY <1>5, <2>3 DEF Writes, Hset, Hdel
  <2>5. LocalOK(m)
    BY <2>0, <2>3 DEF LocalOK, SameInput
  <2> QED BY <2>1, <2>2, <2>4, <2>5, LocalMoves
<1>6. CASE Total(r)
  <2> DEFINE n == IF l.kind = "add" THEN HLen(cart[l.user]) ELSE SumVals(cart[l.user])
             res == IF l.kind = "delete" THEN 3 ELSE 5
             m == [l EXCEPT !.pc = "done", !.res = res, !.total_count = n]
  <2>0. l.pc = "total" /\ l.user \in Users
    BY <1>0, <1>6 DEF Total, LocalOK
  <2>1. req' = [req EXCEPT ![r] = m] /\ UNCHANGED <<stock, cart>>
    BY <1>6 DEF Total
  <2>2. n \in Int /\ res \in Replies /\ "done" \in PCs
    BY <1>0, <2>0, TotalsAreNumbers DEF Replies, PCs
  <2> HIDE DEF n, res
  <2>3. m \in Request
    BY <1>0, <2>2 DEF Request
  <2>4. /\ m.pc = "done" /\ m.res = res /\ SameInput(l, m) /\ m.count = l.count
        /\ m.stock = l.stock /\ m.seen = l.seen
    BY <1>0 DEF Request, SameInput
  <2> HIDE DEF m
  <2>5. Reads(l, m) /\ LocalOK(m)
    BY <2>0, <2>4 DEF Reads, LocalOK, res
  <2> QED BY <2>1, <2>3, <2>5, LocalMoves
<1>7. CASE Hgetall(r)
  <2> DEFINE n == SumVals(cart[l.user])
             F == Fields(cart[l.user])
             m == [l EXCEPT !.pc = "rows", !.left = F, !.total_count = n]
  <2>0. l.pc = "hgetall" /\ l.user \in Users /\ l.kind = "show" /\ l.res = Nil
    BY <1>0, <1>7 DEF Hgetall, LocalOK
  <2>1. req' = [req EXCEPT ![r] = m] /\ UNCHANGED <<stock, cart>>
    BY <1>7 DEF Hgetall
  <2>2. n \in Int /\ F \in SUBSET Skus /\ "rows" \in PCs
    BY <1>0, <2>0, TotalsAreNumbers DEF PCs, Fields
  <2> HIDE DEF n, F
  <2>3. m \in Request
    BY <1>0, <2>2 DEF Request
  <2>4. m.pc = "rows" /\ m.left = F /\ SameInput(l, m) /\ m.res = l.res
    BY <1>0 DEF Request, SameInput
  <2> HIDE DEF m
  <2>5. Reads(l, m) /\ LocalOK(m)
    BY <2>0, <2>4 DEF Reads, LocalOK, F, SameInput
  <2> QED BY <2>1, <2>3, <2>5, LocalMoves
<1>8. CASE ShowItem(r)
  <2>0. l.pc = "rows" /\ l.user \in Users /\ l.kind = "show" /\ l.res = Nil
    BY <1>0, <1>8 DEF ShowItem, LocalOK
  <2>1. CASE Reply(r, ServerError)
    BY <2>0, <2>1, ReplyMoves DEF ServerError
  <2>2. CASE ~Reply(r, ServerError)
    <3>1. PICK s \in l.left : /\ stock[s] # Nil /\ UNCHANGED <<stock, cart>>
                              /\ req' = [req EXCEPT ![r].left = @ \ {s}]
      BY <1>8, <2>2 DEF ShowItem
    <3> DEFINE F == l.left \ {s}
               m == [l EXCEPT !.left = F]
    <3>2. F \in SUBSET Skus
      BY <1>0 DEF Request
    <3>3. req' = [req EXCEPT ![r] = m]
      BY <3>1
    <3> HIDE DEF F
    <3>4. m \in Request
      BY <1>0, <3>2 DEF Request
    <3>5. m.pc = l.pc /\ m.left = F /\ SameInput(l, m) /\ m.res = l.res
      BY <1>0 DEF Request, SameInput
    <3> HIDE DEF m
    <3>6. Reads(l, m) /\ LocalOK(m)
      BY <2>0, <3>1, <3>5 DEF Reads, LocalOK, F, SameInput
    <3> QED BY <3>1, <3>3, <3>4, <3>6, LocalMoves
  <2> QED BY <2>1, <2>2
<1>9. CASE Render(r)
  <2>1. l.pc = "rows" /\ l.left = {} /\ Reply(r, 200) /\ l.kind = "show"
    BY <1>0, <1>9 DEF Render, LocalOK
  <2> QED BY <2>1, ReplyMoves
<1>10. CASE Crash(r)
  BY <1>10, ReplyMoves DEF Crash, ServerError
<1> QED BY <1>1, <1>2, <1>3, <1>4, <1>5, <1>6, <1>7, <1>8, <1>9, <1>10 DEF Step, View

------------------------------------------------------------------------------
(* Types.                                                                   *)

AdminTypes == Locals /\ form \in [Skus -> Int \cup {Nil}] /\ sold \in [Skus -> Nat]

\* A step of a cart view keeps the types.
LEMMA StepLocals ==
  ASSUME Locals, NEW r \in Requests, Step(r)
  PROVE  Locals'
<1>1. Moves(r) /\ req'[r] \in Request /\ LocalOK(req'[r])
  BY StepMoves
<1>2. req' \in [Requests -> Request]
  <2>1. PICK m : req' = [req EXCEPT ![r] = m]
    BY DEF Step, View, Refuse, Accept, GetSku, Hget, Hset, Hdel, Total, Hgetall,
           ShowItem, Render, Crash, Reply, Summed
  <2>2. m = req'[r]
    BY <2>1 DEF Locals, TypeOK
  <2> QED BY <1>1, <2>1, <2>2 DEF Locals, TypeOK
<1>3. \A q \in Requests : LocalOK(req'[q])
  BY <1>1 DEF Moves, Locals
<1>4. cart' \in [Users -> [Skus -> Int \cup {Nil}]]
  <2>1. req[r].count \in Int
    BY DEF Locals, TypeOK, Request
  <2>2. CASE Writes(req[r], req'[r])
    BY <2>1, <2>2 DEF Writes, HSet, HDel, Locals, TypeOK
  <2> QED BY <1>1, <2>2 DEF Moves, Locals, TypeOK
<1>5. stock' \in [Skus -> Int \cup {Nil}]
  BY <1>1 DEF Moves, Locals, TypeOK
<1> QED BY <1>2, <1>3, <1>4, <1>5 DEF Locals, TypeOK

\* The steps of the administrator and of other customers leave the carts and
\* their requests alone and keep the types.
LEMMA ShelfTypes ==
  ASSUME AdminTypes, NEW s \in Skus, Sell(s) \/ OpenForm(s) \/ SaveForm(s) \/ DeleteRow(s)
  PROVE  AdminTypes' /\ UNCHANGED <<cart, req>>
<1>0. UNCHANGED <<cart, req>>
  BY DEF Sell, OpenForm, SaveForm, DeleteRow, vars
<1>1. /\ stock \in [Skus -> Int \cup {Nil}] /\ form \in [Skus -> Int \cup {Nil}]
      /\ sold \in [Skus -> Nat]
  BY DEF AdminTypes, Locals, TypeOK
<1>2. /\ stock' \in [Skus -> Int \cup {Nil}] /\ form' \in [Skus -> Int \cup {Nil}]
      /\ sold' \in [Skus -> Nat]
  <2>1. CASE Sell(s)
    <3>1. stock[s] \in Int /\ stock[s] - 1 \in Int /\ sold[s] + 1 \in Nat
      BY <1>1, <2>1 DEF Sell
    <3> QED BY <1>1, <2>1, <3>1 DEF Sell
  <2>2. CASE OpenForm(s)
    BY <1>1, <2>2 DEF OpenForm, vars
  <2>3. CASE SaveForm(s)
    BY <1>1, <2>3 DEF SaveForm, NoForm
  <2>4. CASE DeleteRow(s)
    BY <1>1, <2>4 DEF DeleteRow
  <2> QED BY <2>1, <2>2, <2>3, <2>4
<1> QED BY <1>0, <1>2 DEF AdminTypes, Locals, TypeOK

\* The three kinds of steps.
LEMMA AdminSteps ==
  ASSUME [AdminNext]_adminVars
  PROVE  \/ \E r \in Requests : Step(r) /\ UNCHANGED <<form, sold, overwritten, late>>
         \/ \E s \in Skus : Sell(s) \/ OpenForm(s) \/ SaveForm(s) \/ DeleteRow(s)
         \/ UNCHANGED adminVars
BY DEF AdminNext, CartStep, Finished

\* Entries, rows, forms and local variables keep their types.
LEMMA AdminTypesHold == AdminSpec => []AdminTypes
<1>1. AdminInit => AdminTypes
  <2> SUFFICES ASSUME AdminInit PROVE AdminTypes
    OBVIOUS
  <2>1. Idle \in Request /\ LocalOK(Idle)
    <3>1. Idle \in Request
      <4>1. "idle" \in PCs /\ Nil \in Replies /\ {} \in SUBSET Skus
        BY DEF PCs, Replies
      <4> QED BY <4>1 DEF Idle, Request
    <3>2. /\ Idle.pc = "idle" /\ Idle.res = Nil
      BY DEF Idle
    <3> QED BY <3>1, <3>2, CartAssumption DEF LocalOK
  <2> QED BY <2>1, CartAssumption DEF AdminInit, Init, NoForm, AdminTypes, Locals, TypeOK
<1>2. AdminTypes /\ [AdminNext]_adminVars => AdminTypes'
  <2> SUFFICES ASSUME AdminTypes, [AdminNext]_adminVars PROVE AdminTypes'
    OBVIOUS
  <2>1. ASSUME NEW r \in Requests, Step(r), UNCHANGED <<form, sold>> PROVE AdminTypes'
    BY <2>1, StepLocals DEF AdminTypes
  <2>2. CASE UNCHANGED adminVars
    BY <2>2 DEF adminVars, vars, AdminTypes, Locals, TypeOK
  <2> QED BY <2>1, <2>2, AdminSteps, ShelfTypes
<1> QED BY <1>1, <1>2, PTL DEF AdminSpec

------------------------------------------------------------------------------
(* Entries and the stock they were compared with.                           *)

\* Request r has stored n for s in the cart of u after comparing it.
Checked(r, u, s, n) ==
    /\ req[r].kind \in Writers
    /\ req[r].user = u /\ req[r].sku_id = s
    /\ req[r].count = n
    /\ req[r].count =< req[r].stock
    /\ req[r].pc = "total" \/ req[r].res \in {5, ServerError}

\* What was stored stays so: from there a request answers or breaks off.
LEMMA CheckedStays ==
  ASSUME Locals, NEW r \in Requests, Moves(r), NEW q \in Requests,
         NEW u, NEW s, NEW n, Checked(q, u, s, n)
  PROVE  Checked(q, u, s, n)'
<1>1. CASE q # r
  BY <1>1 DEF Moves, Checked
<1>2. CASE q = r
  <2>1. LocalOK(req[r]) /\ req[r].pc \in {"total", "done"}
    BY <1>2, CartAssumption DEF Locals, LocalOK, Checked, ServerError
  <2>2. req[r].pc = "total" \/ req[r].pc = "done"
    BY <2>1
  <2>3. req[r].kind # "delete"
    BY <1>2 DEF Checked, Writers
  <2> QED BY <1>2, <2>2, <2>3 DEF Moves, Reads, Writes, Answered, Begun, Found, Added,
                                  SameInput, Checked, Idle
<1> QED BY <1>1, <1>2

\* An entry only changes when it is written or deleted.
LEMMA EntryMoves ==
  ASSUME Locals, NEW r \in Requests, Moves(r), NEW u \in Users, NEW s \in Skus
  PROVE  \/ cart'[u][s] = cart[u][s]
         \/ /\ req[r].pc = "hset" /\ req[r].user = u /\ req[r].sku_id = s
            /\ cart'[u][s] = req[r].count /\ Writes(req[r], req'[r])
         \/ /\ req[r].pc = "hdel" /\ req[r].user = u /\ req[r].sku_id = s
            /\ cart'[u][s] = Nil /\ Writes(req[r], req'[r])
<1>0. cart \in [Users -> [Skus -> Int \cup {Nil}]]
  BY DEF Locals, TypeOK
<1>1. CASE UNCHANGED cart
  BY <1>1
<1>2. CASE Writes(req[r], req'[r])
  <2>1. CASE req[r].pc = "hset" /\
             cart' = [cart EXCEPT ![req[r].user] =
                        HSet(cart[req[r].user], req[r].sku_id, req[r].count)]
    BY <1>0, <1>2, <2>1 DEF HSet
  <2>2. CASE req[r].pc = "hdel" /\
             cart' = [cart EXCEPT ![req[r].user] = HDel(cart[req[r].user], {req[r].sku_id})]
    BY <1>0, <1>2, <2>2 DEF HDel
  <2> QED BY <1>2, <2>1, <2>2 DEF Writes
<1> QED BY <1>1, <1>2 DEF Moves

\* Every entry that a request has written was compared as a whole with the
\* stock that its writer had read.
THEOREM EntriesChecked == AdminSpec => []EntriesAreSound
<1>1. AdminInit => EntriesWereChecked
  BY DEF AdminInit, Init, EntriesWereChecked
<1>2. AdminTypes /\ EntriesWereChecked /\ [AdminNext]_adminVars => EntriesWereChecked'
  <2> SUFFICES ASSUME AdminTypes, EntriesWereChecked, [AdminNext]_adminVars
               PROVE  EntriesWereChecked'
    OBVIOUS
  <2>1. ASSUME NEW r \in Requests, Step(r) PROVE EntriesWereChecked'
    <3>0. Locals /\ Moves(r) /\ LocalOK(req[r])
      BY <2>1, StepMoves DEF AdminTypes, Locals
    <3>1. ASSUME NEW u \in Users, NEW s \in Skus, NEW n, n = cart'[u][s], n # Nil
          PROVE  n = InitCart[u][s] \/ \E q \in Requests : Checked(q, u, s, n)'
      <4>1. CASE n = cart[u][s]
        <5>1. n = InitCart[u][s] \/ \E q \in Requests : Checked(q, u, s, n)
          <6>1. s \in Fields(cart[u])
            BY <3>1, <4>1 DEF Fields, AdminTypes, Locals, TypeOK
          <6> QED BY <4>1, <6>1 DEF EntriesWereChecked, Checked
        <5> QED BY <3>0, <5>1, CheckedStays
      <4>2. CASE n # cart[u][s]
        <5>1. /\ req[r].pc = "hset" /\ req[r].user = u /\ req[r].sku_id = s
              /\ n = req[r].count /\ Writes(req[r], req'[r])
          BY <3>0, <3>1, <4>2, EntryMoves
        <5>2. req[r].kind \in Writers /\ req[r].count =< req[r].stock
          BY <3>0, <5>1 DEF LocalOK
        <5>3. Checked(r, u, s, n)'
          BY <5>1, <5>2 DEF Checked, Writes, SameInput
        <5> QED BY <5>3
      <4> QED BY <4>1, <4>2
    <3>2. \A u \in Users : \A s \in Fields(cart'[u]) : s \in Skus /\ cart'[u][s] # Nil
      <4>1. Locals'
        BY <2>1, StepLocals DEF AdminTypes
      <4> QED BY <4>1 DEF Locals, TypeOK, Fields
    <3> QED BY <3>1, <3>2 DEF EntriesWereChecked, Checked
  <2>2. CASE UNCHANGED <<cart, req>>
    BY <2>2 DEF EntriesWereChecked
  <2> QED BY <2>1, <2>2, AdminSteps, ShelfTypes DEF adminVars, vars
<1>3. AdminTypes /\ EntriesWereChecked => EntriesAreSound
  BY DEF AdminTypes, Locals, EntriesAreSound
<1> QED BY <1>1, <1>2, <1>3, AdminTypesHold, PTL DEF AdminSpec

------------------------------------------------------------------------------
(* Units and forms.                                                         *)

\* A sold unit comes back into the stock only through a change form that was
\* opened before the sale and saved after it.
THEOREM UnitsStaySold == AdminSpec => []UnitsReturnOnlyByStaleForm
<1> DEFINE Units == \A s \in Skus \ overwritten :
                       stock[s] # Nil => stock[s] + sold[s] = InitStock[s]
<1>1. AdminInit => Units
  BY CartAssumption DEF AdminInit, Init
<1>2. AdminTypes /\ Units /\ [AdminNext]_adminVars => Units'
  <2> SUFFICES ASSUME AdminTypes, Units, [AdminNext]_adminVars,
                      NEW i \in Skus, i \notin overwritten', stock'[i] # Nil
               PROVE  stock'[i] + sold'[i] = InitStock[i]
    OBVIOUS
  <2>0. /\ stock \in [Skus -> Int \cup {Nil}] /\ form \in [Skus -> Int \cup {Nil}]
        /\ sold \in [Skus -> Nat]
    BY DEF AdminTypes, Locals, TypeOK
  <2>1. CASE UNCHANGED <<stock, sold, overwritten>>
    BY <2>1
  <2>2. ASSUME NEW s \in Skus, Sell(s) PROVE stock'[i] + sold'[i] = InitStock[i]
    <3>1. /\ stock[s] # Nil /\ stock' = [stock EXCEPT ![s] = stock[s] - 1]
          /\ sold' = [sold EXCEPT ![s] = sold[s] + 1] /\ overwritten' = overwritten
      BY <2>2 DEF Sell
    <3>2. CASE i = s
      <4>1. stock[s] \in Int /\ sold[s] \in Int /\ stock[s] + sold[s] = InitStock[i]
        BY <2>0, <3>1, <3>2
      <4>2. stock'[i] = stock[s] - 1 /\ sold'[i] = sold[s] + 1
        BY <2>0, <3>1, <3>2
      <4> QED BY <4>1, <4>2
    <3>3. CASE i # s
      BY <2>0, <3>1, <3>3
    <3> QED BY <3>2, <3>3
  <2>3. ASSUME NEW s \in Skus, SaveForm(s) PROVE stock'[i] + sold'[i] = InitStock[i]
    <3>1. stock'[i] = stock[i] /\ i \notin overwritten /\ sold' = sold
      BY <2>0, <2>3 DEF SaveForm
    <3> QED BY <3>1
  <2>4. ASSUME NEW s \in Skus, DeleteRow(s) PROVE stock'[i] + sold'[i] = InitStock[i]
    <3>1. stock'[i] = stock[i] /\ UNCHANGED <<sold, overwritten>>
      BY <2>0, <2>4 DEF DeleteRow
    <3> QED BY <3>1
  <2>5. ASSUME NEW r \in Requests, Step(r) PROVE UNCHANGED stock
    BY <2>5, StepMoves DEF Moves, AdminTypes
  <2> QED BY <2>1, <2>2, <2>3, <2>4, <2>5, AdminSteps DEF OpenForm, adminVars, vars
<1>3. AdminTypes /\ Units => UnitsReturnOnlyByStaleForm
  BY DEF AdminTypes, UnitsReturnOnlyByStaleForm
<1> QED BY <1>1, <1>2, <1>3, AdminTypesHold, PTL DEF AdminSpec

------------------------------------------------------------------------------
(* Entries whose item has no row.                                           *)

\* A request that writes an entry for s keeps doing so.
LEMMA WriterStays ==
  ASSUME Locals, NEW r \in Requests, Moves(r), UNCHANGED late, NEW s \in Skus, WriterLeft(s)
  PROVE  WriterLeft(s)'
<1>1. PICK q \in Requests \ late[s] : req[q].kind \in Writers /\ req[q].sku_id = s
  BY DEF WriterLeft
<1>2. req'[q].kind = req[q].kind /\ req'[q].sku_id = req[q].sku_id
  <2>1. CASE q # r
    BY <2>1 DEF Moves
  <2>2. CASE SameInput(req[q], req'[q])
    BY <2>2 DEF SameInput
  <2>3. CASE q = r /\ Begun(req[r], req'[r])
    BY <1>1, <2>3, CartAssumption DEF Begun, Idle
  <2> QED BY <2>1, <2>2, <2>3 DEF Moves, Reads, Writes, Answered, Found, Added
<1> QED BY <1>1, <1>2 DEF WriterLeft

\* No entry for s, or a request that may still write one.
GoneOrWritten(u, s) == cart[u][s] = Nil \/ WriterLeft(s)

\* Only a request that had found the row puts an entry for s back.
LEMMA GoneStays ==
  ASSUME Locals, OrphansStayInCart, NEW r \in Requests, Moves(r), UNCHANGED late,
         NEW u \in Users, NEW s \in Skus, GoneOrWritten(u, s)
  PROVE  GoneOrWritten(u, s)'
<1>1. CASE WriterLeft(s)
  BY <1>1, WriterStays DEF GoneOrWritten
<1>2. CASE cart[u][s] = Nil /\ cart'[u][s] # Nil
  <2>1. req[r].pc = "hset" /\ req[r].sku_id = s
    BY <1>2, EntryMoves
  <2>2. r \notin late[s]
    BY <2>1 DEF OrphansStayInCart, Orphaned
  <2>3. req[r].kind \in Writers
    BY <2>1 DEF Locals, LocalOK
  <2>4. WriterLeft(s)
    BY <2>1, <2>2, <2>3 DEF WriterLeft
  <2> QED BY <2>4, WriterStays DEF GoneOrWritten
<1> QED BY <1>1, <1>2 DEF GoneOrWritten

\* A step of a cart view keeps what holds of the entries without a row.
LEMMA OrphanMoves ==
  ASSUME Locals, OrphansStayInCart, NEW r \in Requests, Moves(r), UNCHANGED late,
         NEW s \in Skus, NEW p \in late[s]
  PROVE  Orphaned(s, p)'
<1>0. Orphaned(s, p) /\ p \in Requests /\ stock[s] = Nil
  BY DEF OrphansStayInCart
<1>1. LocalOK(req[p]) /\ req[p] \in Request
  BY <1>0 DEF Locals, TypeOK
<1>2. ASSUME req'[p].user = req[p].user, req[p].user \in Users,
             GoneOrWritten(req[p].user, s)
      PROVE  cart'[req'[p].user][s] = Nil \/ WriterLeft(s)'
  <2>1. PICK u \in Users : u = req[p].user
    BY <1>2
  <2>2. GoneOrWritten(u, s)'
    BY <1>2, <2>1, GoneStays
  <2> QED BY <1>2, <2>1, <2>2 DEF GoneOrWritten
<1>3. CASE p # r
  <2>1. req'[p] = req[p]
    BY <1>0, <1>3 DEF Moves
  <2>2. ASSUME req[p].kind = "show",
               req[p].res = 200 \/ (req[p].pc = "rows" /\ s \notin req[p].left)
        PROVE  cart'[req'[p].user][s] = Nil \/ WriterLeft(s)'
    <3>1. req[p].user \in Users
      BY <1>1, <2>2 DEF LocalOK
    <3>2. GoneOrWritten(req[p].user, s)
      BY <1>0, <2>2 DEF Orphaned, GoneOrWritten
    <3> QED BY <1>2, <2>1, <3>1, <3>2
  <2> QED BY <1>0, <2>1, <2>2 DEF Orphaned
<1>4. CASE p = r
  <2> DEFINE l == req[r]
             m == req'[r]
  <2>1. CASE Answered(l, m)
    <3>1. /\ m.pc = "done" /\ m.sku_id = l.sku_id /\ m.kind = l.kind /\ m.user = l.user
          /\ m.res # IF l.kind = "delete" THEN 3 ELSE 5
          /\ m.res = 200 => l.pc = "rows" /\ l.left = {}
      BY <2>1 DEF Answered, SameInput
    <3>2. ASSUME m.res = 200
          PROVE  cart'[m.user][s] = Nil \/ WriterLeft(s)'
      <4>1. l.pc = "rows" /\ s \notin l.left
        BY <3>1, <3>2
      <4>2. l.user \in Users /\ l.kind = "show"
        BY <1>1, <1>4, <4>1 DEF LocalOK
      <4>3. GoneOrWritten(l.user, s)
        BY <1>0, <1>4, <4>1, <4>2 DEF Orphaned, GoneOrWritten
      <4> QED BY <1>2, <1>4, <3>1, <4>2, <4>3
    <3> QED BY <1>4, <3>1, <3>2 DEF Orphaned
  <2>2. CASE Begun(l, m)
    BY <1>4, <2>2, CartAssumption DEF Begun, Orphaned
  <2>3. CASE l.pc \in {"hget", "hset", "hdel", "total"} /\ SameInput(l, m)
    <3>1. m.sku_id # s /\ m.kind # "show"
      BY <1>0, <1>1, <1>4, <2>3 DEF Orphaned, LocalOK, SameInput
    <3> QED BY <1>4, <3>1 DEF Orphaned
  <2>4. CASE Found(l, m)
    <3>1. m.sku_id # s /\ m.kind # "show"
      BY <1>0, <1>1, <1>4, <2>4 DEF Found, LocalOK, SameInput
    <3> QED BY <1>4, <3>1 DEF Orphaned
  <2>5. CASE /\ l.pc = "hgetall" /\ m.pc = "rows" /\ SameInput(l, m) /\ m.res = l.res
             /\ m.left = Fields(cart[l.user])
    <3>1. m.sku_id # s /\ l.user \in Users /\ m.user = l.user /\ m.res = Nil
      BY <1>0, <1>1, <1>4, <2>5 DEF Orphaned, LocalOK, SameInput
    <3>2. s \notin m.left => GoneOrWritten(l.user, s)
      BY <2>5, <3>1 DEF Fields, GoneOrWritten, Locals, TypeOK
    <3>3. s \notin m.left => cart'[m.user][s] = Nil \/ WriterLeft(s)'
      BY <1>2, <1>4, <3>1, <3>2
    <3> QED BY <1>4, <3>1, <3>3, CartAssumption DEF Orphaned
  <2>6. CASE /\ l.pc = "rows" /\ m.pc = "rows" /\ SameInput(l, m) /\ m.res = l.res
             /\ \E i \in l.left : stock[i] # Nil /\ m.left = l.left \ {i}
    <3>1. /\ m.sku_id # s /\ l.user \in Users /\ m.user = l.user /\ m.res = Nil
          /\ l.kind = "show"
      BY <1>0, <1>1, <1>4, <2>6 DEF Orphaned, LocalOK, SameInput
    <3>2. s \notin m.left => s \notin l.left
      BY <1>0, <2>6
    <3>3. s \notin m.left => GoneOrWritten(l.user, s)
      BY <1>0, <1>4, <2>6, <3>1, <3>2 DEF Orphaned, GoneOrWritten
    <3>4. s \notin m.left => cart'[m.user][s] = Nil \/ WriterLeft(s)'
      BY <1>2, <1>4, <3>1, <3>3
    <3> QED BY <1>4, <3>1, <3>4, CartAssumption DEF Orphaned
  <2> QED BY <2>1, <2>2, <2>3, <2>4, <2>5, <2>6 DEF Moves, Reads, Writes, Added
<1> QED BY <1>3, <1>4

\* An item whose row is gone can neither be taken out of a cart by a later
\* request nor be shown: only requests that had found the row change the entry.
THEOREM OrphansRemain == AdminSpec => []OrphansStayInCart
<1>1. AdminInit => OrphansStayInCart
  BY CartAssumption DEF AdminInit, Init, Idle, OrphansStayInCart, Orphaned
<1>2. AdminTypes /\ OrphansStayInCart /\ [AdminNext]_adminVars => OrphansStayInCart'
  <2> SUFFICES ASSUME AdminTypes, OrphansStayInCart, [AdminNext]_adminVars
               PROVE  OrphansStayInCart'
    OBVIOUS
  <2>0. /\ Locals /\ late \in [Skus -> SUBSET Requests] /\ stock \in [Skus -> Int \cup {Nil}]
    BY DEF AdminTypes, Locals, TypeOK, OrphansStayInCart
  <2>1. ASSUME NEW r \in Requests, Step(r), UNCHANGED late PROVE OrphansStayInCart'
    <3>1. Moves(r) /\ UNCHANGED stock
      BY <2>0, <2>1, StepMoves DEF Moves
    <3>2. \A s \in Skus : \A p \in late[s] : Orphaned(s, p)'
      BY <2>0, <2>1, <3>1, OrphanMoves
    <3> QED BY <2>1, <3>1, <3>2 DEF OrphansStayInCart
  <2>2. ASSUME NEW s \in Skus, DeleteRow(s) PROVE OrphansStayInCart'
    <3>1. /\ UNCHANGED <<cart, req>> /\ stock' = [stock EXCEPT ![s] = Nil]
          /\ late' = [late EXCEPT ![s] = {r \in Requests : req[r].pc = "idle"}]
      BY <2>2 DEF DeleteRow
    <3>2. late' \in [Skus -> SUBSET Requests]
      BY <2>0, <3>1
    <3>3. ASSUME NEW p \in late'[s] PROVE Orphaned(s, p)'
      <4>1. p \in Requests /\ req[p].pc = "idle"
        BY <2>0, <3>1, <3>3
      <4>2. req'[p].sku_id = Nil /\ req'[p].res = Nil /\ req'[p].pc = "idle"
        BY <2>0, <3>1, <4>1 DEF Locals, LocalOK, Idle
      <4> QED BY <4>2, CartAssumption DEF Orphaned
    <3>4. ASSUME NEW i \in Skus, i # s
          PROVE  /\ stock'[i] = stock[i] /\ late'[i] = late[i]
                 /\ \A p \in late[i] : Orphaned(i, p)'
      <4>1. stock'[i] = stock[i] /\ late'[i] = late[i]
        BY <2>0, <3>1, <3>4
      <4>2. \A p \in late[i] : Orphaned(i, p)
        BY DEF OrphansStayInCart
      <4> QED BY <3>1, <4>1, <4>2 DEF Orphaned, WriterLeft
    <3>5. stock'[s] = Nil
      BY <2>0, <3>1
    <3> QED BY <3>2, <3>3, <3>4, <3>5 DEF OrphansStayInCart
  <2>3. CASE /\ UNCHANGED <<cart, req, late>>
             /\ \A s \in Skus : stock[s] = Nil => stock'[s] = Nil
    BY <2>3 DEF OrphansStayInCart, Orphaned, WriterLeft
  <2>4. ASSUME NEW s \in Skus, Sell(s) \/ OpenForm(s) \/ SaveForm(s)
        PROVE  /\ UNCHANGED <<cart, req, late>>
               /\ \A i \in Skus : stock[i] = Nil => stock'[i] = Nil
    BY <2>0, <2>4 DEF Sell, OpenForm, SaveForm, vars
  <2> QED BY <2>1, <2>2, <2>3, <2>4, AdminSteps DEF adminVars, vars
<1> QED BY <1>1, <1>2, AdminTypesHold, PTL DEF AdminSpec

------------------------------------------------------------------------------
(* Adds that overlap.                                                       *)

AddsOK(u, s) ==
    AddsOnly(u, s) /\ NoRace(u, s) =>
        /\ AddsSummedUp(u, s)
        /\ \A r \in Touching(u, s) : req[r].pc = "hset" => ReadBefore(r, u, s)

\* Nothing that AddsOK looks at changes but the place of a request that has
\* not written.
LEMMA AddsKept ==
  ASSUME NEW u, NEW s, AddsOK(u, s), Wrote(u, s)' = Wrote(u, s), Entry(u, s)' = Entry(u, s),
         AddsOnly(u, s)' => AddsOnly(u, s),
         \A q \in Wrote(u, s) : req'[q].seen = req[q].seen /\ req'[q].asked = req[q].asked,
         AddsOnly(u, s)' => \A q \in Touching(u, s)' : req'[q].pc = "hset" =>
             \/ /\ q \in Touching(u, s) /\ req[q].pc = "hset" /\ req'[q].count = req[q].count
                /\ req'[q].seen = req[q].seen /\ req'[q].asked = req[q].asked
             \/ req'[q].count = req'[q].asked + req'[q].seen /\ req'[q].seen = Entry(u, s)
  PROVE  AddsOK(u, s)'
<1> SUFFICES ASSUME AddsOnly(u, s)', NoRace(u, s)'
             PROVE  /\ AddsSummedUp(u, s)'
                    /\ \A r \in Touching(u, s)' : req'[r].pc = "hset" => ReadBefore(r, u, s)'
  BY DEF AddsOK
<1>1. AddsOnly(u, s) /\ NoRace(u, s)
  BY DEF NoRace
<1>2. AddsSummedUp(u, s)'
  <2>1. [r \in Wrote(u, s)' |-> req'[r].asked] = [r \in Wrote(u, s) |-> req[r].asked]
    OBVIOUS
  <2>2. AddsSummedUp(u, s)
    BY <1>1 DEF AddsOK
  <2> QED BY <2>1, <2>2 DEF AddsSummedUp
<1>3. ASSUME NEW r \in Touching(u, s)', req'[r].pc = "hset" PROVE ReadBefore(r, u, s)'
  <2>1. CASE /\ r \in Touching(u, s) /\ req[r].pc = "hset" /\ req'[r].count = req[r].count
             /\ req'[r].seen = req[r].seen /\ req'[r].asked = req[r].asked
    <3>1. ReadBefore(r, u, s)
      BY <1>1, <2>1 DEF AddsOK
    <3> QED BY <2>1, <3>1 DEF ReadBefore
  <2>2. CASE req'[r].count = req'[r].asked + req'[r].seen /\ req'[r].seen = Entry(u, s)
    BY <2>2 DEF ReadBefore
  <2> QED BY <1>3, <2>1, <2>2
<1> QED BY <1>2, <1>3

\* The request that writes the entry adds its units to it, unless another
\* request wrote after it had read.
LEMMA AddsWritten ==
  ASSUME Locals, Locals', NEW u \in Users, NEW s \in Skus, AddsOK(u, s),
         NEW r \in Requests, Moves(r), Writes(req[r], req'[r]),
         req[r].pc = "hset", req[r].user = u, req[r].sku_id = s
  PROVE  AddsOK(u, s)'
<1> SUFFICES ASSUME AddsOnly(u, s)', NoRace(u, s)'
             PROVE  /\ AddsSummedUp(u, s)'
                    /\ \A p \in Touching(u, s)' : req'[p].pc = "hset" => ReadBefore(p, u, s)'
  BY DEF AddsOK
<1> DEFINE l == req[r]
           m == req'[r]
           W == Wrote(u, s)
           base == IF InitCart[u][s] = Nil THEN 0 ELSE InitCart[u][s]
<1>1. /\ l.kind \in Writers /\ l.res = Nil /\ m.pc = "total" /\ m.res = Nil
      /\ m.kind = l.kind /\ m.user = u /\ m.sku_id = s /\ m.asked = l.asked
      /\ m.seen = l.seen /\ m.count = l.count
  BY DEF Writes, SameInput, Locals, LocalOK
<1>2. \A q \in Requests \ {r} : req'[q] = req[q]
  BY DEF Moves
<1>3. Touching(u, s)' = Touching(u, s) /\ r \in Touching(u, s)
  BY <1>1, <1>2 DEF Touching, Writers
<1>4. W' = W \cup {r} /\ r \notin W /\ W \subseteq Requests
  BY <1>1, <1>2, <1>3, CartAssumption DEF Wrote, Touching
<1>5. AddsOnly(u, s)
  BY <1>1, <1>2, <1>3, CartAssumption DEF AddsOnly, Touching, ServerError
<1>6. NoRace(u, s) /\ \A q \in W : req[q].seen # l.seen
  BY <1>1, <1>2, <1>4 DEF NoRace
<1>7. ReadBefore(r, u, s) /\ AddsSummedUp(u, s)
  BY <1>3, <1>5, <1>6 DEF AddsOK
<1>8. l.count = l.asked + l.seen /\ l.seen = Entry(u, s)
  BY <1>6, <1>7 DEF ReadBefore
<1>9. l.count \in Int /\ l.asked \in Int /\ base \in Int
  BY CartAssumption DEF Locals, TypeOK, Request
<1>10. Entry(u, s) \in Int
  BY DEF Entry, Locals, TypeOK
<1>11. Entry(u, s)' = l.count
  <2>1. cart'[u][s] = l.count
    BY DEF Writes, HSet, Locals, TypeOK
  <2>2. l.count # Nil
    BY <1>9, CartAssumption
  <2> QED BY <2>1, <2>2 DEF Entry
<1>12. AddsSummedUp(u, s)'
  <2> DEFINE f == [q \in W |-> req[q].asked]
             g == [q \in W' |-> req'[q].asked]
             S == SumOf(f, W)
             T == SumOf(g, W')
  <2>1. \A q \in W : f[q] \in Int /\ g[q] = f[q]
    BY <1>2, <1>4 DEF Locals, TypeOK, Request
  <2>2. g[r] = l.asked
    BY <1>1, <1>4
  <2>3. IsFiniteSet(W)
    BY <1>4, CartAssumption, FS_Subset
  <2> HIDE DEF W, f, g
  <2>4. \A q \in W \cup {r} : g[q] \in Int
    BY <1>9, <2>1, <2>2
  <2>5. SumOf(g, W \cup {r}) = g[r] + SumOf(g, W)
    BY <1>4, <2>3, <2>4, SumAdd
  <2>6. SumOf(g, W) = SumOf(f, W)
    BY <2>1, <2>3, SumSame
  <2>7. T = l.asked + S
    BY <1>4, <2>2, <2>5, <2>6
  <2>8. S \in Int
    BY <2>1, <2>3, SumRemove
  <2>9. Entry(u, s) = S + base
    BY <1>7 DEF AddsSummedUp, W, f
  <2>10. l.count = l.asked + Entry(u, s)
    BY <1>8
  <2> HIDE DEF S, T, base
  <2>11. l.count = T + base
    BY <1>9, <2>7, <2>8, <2>9, <2>10
  <2> QED BY <1>11, <2>11 DEF AddsSummedUp, T, W, g, base
<1>13. ASSUME NEW p \in Touching(u, s)', req'[p].pc = "hset" PROVE ReadBefore(p, u, s)'
  <2>1. p # r /\ p \in Requests
    BY <1>1, <1>13 DEF Touching
  <2>2. req'[p] = req[p]
    BY <1>2, <2>1
  <2>3. ReadBefore(p, u, s)
    BY <1>3, <1>5, <1>6, <1>13, <2>2 DEF AddsOK
  <2>4. \E q \in W' : req'[q].seen = req[p].seen
    <3>1. CASE req[p].seen = Entry(u, s)
      BY <1>1, <1>4, <1>8, <3>1
    <3>2. CASE \E q \in W : req[q].seen = req[p].seen
      BY <1>2, <1>4, <3>2
    <3> QED BY <2>3, <3>1, <3>2 DEF ReadBefore
  <2> QED BY <2>2, <2>3, <2>4 DEF ReadBefore
<1> QED BY <1>12, <1>13

\* Every step of a cart view keeps AddsOK.
LEMMA AddsMove ==
  ASSUME Locals, Locals', NEW u \in Users, NEW s \in Skus, AddsOK(u, s),
         NEW r \in Requests, Moves(r)
  PROVE  AddsOK(u, s)'
<1> DEFINE l == req[r]
           m == req'[r]
           mine == m.user = u /\ m.sku_id = s /\ m.kind # "show"
<1>0. LocalOK(l) /\ \A q \in Requests \ {r} : req'[q] = req[q]
  BY DEF Locals, Moves
<1>1. CASE Begun(l, m)
  <2>1. /\ l.user = Nil /\ l.sku_id = Nil /\ m.pc \in {"get", "hgetall"} /\ m.res = Nil
        /\ UNCHANGED cart /\ l.pc = "idle" /\ l.res = Nil
    BY <1>1 DEF Begun, Idle, Moves, Reads, Writes
  <2>2. r \notin Touching(u, s) /\ Touching(u, s) \subseteq Touching(u, s)'
    BY <1>0, <2>1, CartAssumption DEF Touching
  <2>3. AddsOnly(u, s)' => AddsOnly(u, s)
    BY <1>0, <2>2 DEF AddsOnly, Touching
  <2>4. Wrote(u, s)' = Wrote(u, s)
    BY <1>0, <2>1, <2>2, CartAssumption DEF Wrote, Touching
  <2>5. \A q \in Wrote(u, s) : req'[q] = req[q]
    BY <1>0, <2>2 DEF Wrote, Touching
  <2>6. \A q \in Touching(u, s)' : req'[q].pc = "hset" =>
            q \in Touching(u, s) /\ req'[q] = req[q]
    BY <1>0, <2>1 DEF Touching
  <2>7. Entry(u, s)' = Entry(u, s)
    BY <2>1 DEF Entry
  <2> QED BY <2>3, <2>4, <2>5, <2>6, <2>7, AddsKept
<1>2. CASE SameInput(l, m) /\ ~mine
  <2>1. r \notin Touching(u, s) /\ Touching(u, s)' = Touching(u, s)
    BY <1>0, <1>2 DEF Touching, SameInput
  <2>2. \A q \in Touching(u, s) : req'[q] = req[q]
    BY <1>0, <2>1 DEF Touching
  <2>3. Entry(u, s)' = Entry(u, s)
    <3>1. ~(l.pc \in {"hset", "hdel"} /\ l.user = u /\ l.sku_id = s)
      BY <1>0, <1>2 DEF LocalOK, SameInput
    <3>2. cart'[u][s] = cart[u][s]
      BY <3>1, EntryMoves
    <3> QED BY <3>2 DEF Entry
  <2>4. AddsOnly(u, s)' => AddsOnly(u, s)
    BY <2>1, <2>2 DEF AddsOnly
  <2>5. Wrote(u, s)' = Wrote(u, s) /\ Wrote(u, s) \subseteq Touching(u, s)
    BY <2>1, <2>2 DEF Wrote
  <2> QED BY <2>1, <2>2, <2>3, <2>4, <2>5, AddsKept
<1>3. CASE SameInput(l, m) /\ mine /\ l.pc # "done" /\ ~Writes(l, m)
  <2>0. /\ l.user = u /\ l.sku_id = s /\ l.kind = m.kind /\ l.res = Nil /\ UNCHANGED cart
        /\ l.kind # "show"
    BY <1>0, <1>3 DEF SameInput, LocalOK, Moves
  <2>1. Touching(u, s)' = Touching(u, s) /\ r \in Touching(u, s)
    BY <1>0, <1>3, <2>0 DEF Touching
  <2>2. AddsOnly(u, s)' => AddsOnly(u, s)
    BY <1>0, <2>0, <2>1, CartAssumption DEF AddsOnly, Touching, ServerError
  <2>3. Entry(u, s)' = Entry(u, s)
    BY <2>0 DEF Entry
  <2>4. CASE ~AddsOnly(u, s)'
    BY <2>4 DEF AddsOK
  <2>5. CASE AddsOnly(u, s)'
    <3>1. l.kind = "add" /\ m.res # ServerError
      BY <2>0, <2>1, <2>5 DEF AddsOnly
    <3>2. /\ (m.pc = "total" \/ m.res = 5) <=> (l.pc = "total" \/ l.res = 5)
          /\ l.pc = "total" => m.seen = l.seen
          /\ m.pc = "hset" => m.count = m.asked + m.seen /\ m.seen = Entry(u, s)
      <4>1. CASE Answered(l, m)
        BY <1>0, <1>3, <2>0, <3>1, <4>1, CartAssumption DEF Answered, LocalOK
      <4>2. CASE Found(l, m)
        BY <1>3, <2>0, <3>1, <4>2, CartAssumption DEF Found
      <4>3. CASE Added(l, m)
        BY <1>0, <1>3, <2>0, <3>1, <4>3, CartAssumption DEF Added, LocalOK, SameInput
      <4>4. CASE /\ l.pc = "total" /\ m.pc = "done" /\ m.seen = l.seen
                 /\ m.res = IF l.kind = "delete" THEN 3 ELSE 5
        BY <3>1, <4>4
      <4>5. l.pc \notin {"idle", "hgetall", "rows"}
        BY <1>0, <2>0, CartAssumption DEF LocalOK, Idle
      <4> QED BY <1>3, <4>1, <4>2, <4>3, <4>4, <4>5 DEF Moves, Reads, Begun, Idle
    <3>3. Wrote(u, s)' = Wrote(u, s) /\ Wrote(u, s) \subseteq Requests
      BY <1>0, <2>1, <3>2 DEF Wrote, Touching
    <3>4. \A q \in Wrote(u, s) : req'[q].seen = req[q].seen /\ req'[q].asked = req[q].asked
      <4>1. r \in Wrote(u, s) => l.pc = "total"
        BY <2>0, CartAssumption DEF Wrote
      <4> QED BY <1>0, <1>3, <3>2, <3>3, <4>1 DEF SameInput
    <3>5. \A q \in Touching(u, s)' : req'[q].pc = "hset" =>
             \/ q \in Touching(u, s) /\ req'[q] = req[q]
             \/ req'[q].count = req'[q].asked + req'[q].seen /\ req'[q].seen = Entry(u, s)
      BY <1>0, <2>1, <3>2 DEF Touching
    <3> QED BY <2>2, <2>3, <3>3, <3>4, <3>5, AddsKept
  <2> QED BY <2>4, <2>5
<1>4. CASE Writes(l, m) /\ mine
  <2>1. l.user = u /\ l.sku_id = s /\ m.kind = l.kind
    BY <1>4 DEF Writes, SameInput
  <2>2. CASE l.pc = "hset"
    BY <1>4, <2>1, <2>2, AddsWritten
  <2>3. CASE l.pc = "hdel"
    <3>1. l.kind = "delete"
      BY <1>0, <2>3 DEF LocalOK
    <3>2. r \in Touching(u, s)'
      BY <1>4 DEF Touching
    <3>3. ~AddsOnly(u, s)'
      BY <2>1, <3>1, <3>2 DEF AddsOnly
    <3> QED BY <3>3 DEF AddsOK
  <2> QED BY <1>4, <2>2, <2>3 DEF Writes
<1> QED BY <1>1, <1>2, <1>3, <1>4 DEF Moves, Reads, Writes, Answered, Found, Added

\* Adds whose answers said so are all in the cart, unless two of them read the
\* same entry before they wrote it.
THEOREM AddsSumUp == AdminSpec => []AddsLostOnlyByRace
<1>0. AddsLostOnlyByRace <=> \A u \in Users, s \in Skus : AddsOK(u, s)
  BY DEF AddsLostOnlyByRace, AddsOK
<1>1. AdminInit => AddsLostOnlyByRace
  <2> SUFFICES ASSUME AdminInit, NEW u \in Users, NEW s \in Skus PROVE AddsOK(u, s)
    BY <1>0
  <2>1. Touching(u, s) = {}
    BY CartAssumption DEF AdminInit, Init, Idle, Touching
  <2>2. Wrote(u, s) = {}
    BY <2>1 DEF Wrote
  <2>3. SumOf([r \in Wrote(u, s) |-> req[r].asked], Wrote(u, s)) = 0
    BY <2>2, FS_EmptySet, SumStep
  <2>4. Entry(u, s) = IF InitCart[u][s] = Nil THEN 0 ELSE InitCart[u][s]
    BY DEF AdminInit, Init, Entry
  <2>5. Entry(u, s) \in Int
    BY CartAssumption DEF AdminInit, Init, Entry
  <2>6. AddsSummedUp(u, s)
    BY <2>3, <2>4, <2>5 DEF AddsSummedUp
  <2> QED BY <2>1, <2>6 DEF AddsOK
<1>2. AdminTypes /\ AddsLostOnlyByRace /\ [AdminNext]_adminVars => AddsLostOnlyByRace'
  <2> SUFFICES ASSUME AdminTypes, AddsLostOnlyByRace, [AdminNext]_adminVars,
                      NEW u \in Users, NEW s \in Skus
               PROVE  AddsOK(u, s)'
    BY DEF AddsLostOnlyByRace, AddsOK
  <2>1. AddsOK(u, s)
    BY DEF AddsLostOnlyByRace, AddsOK
  <2>2. ASSUME NEW r \in Requests, Step(r) PROVE AddsOK(u, s)'
    BY <2>1, <2>2, StepMoves, StepLocals, AddsMove DEF AdminTypes
  <2>3. CASE UNCHANGED <<cart, req>>
    <3>1. Touching(u, s)' = Touching(u, s) /\ Entry(u, s)' = Entry(u, s)
      BY <2>3 DEF Touching, Entry
    <3>2. Wrote(u, s)' = Wrote(u, s) /\ (AddsOnly(u, s)' => AddsOnly(u, s))
      BY <2>3, <3>1 DEF Wrote, AddsOnly
    <3> QED BY <2>1, <2>3, <3>1, <3>2, AddsKept
  <2> QED BY <2>2, <2>3, AdminSteps, ShelfTypes DEF adminVars, vars
<1> QED BY <1>1, <1>2, AdminTypesHold, PTL DEF AdminSpec
==============================================================================
