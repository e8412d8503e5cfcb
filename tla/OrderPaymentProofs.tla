------------------------- MODULE OrderPaymentProofs -------------------------
(****************************************************************************)
(* Proofs about OrderPayment for any number of orders, lines and clicks.    *)
(****************************************************************************)
EXTENDS OrderPayment, TLAPS

\* An answer ends the click and changes nothing else of its local variables.
LEMMA ReplyFields ==
  ASSUME req \in [Requests -> Request], NEW r \in Requests,
         NEW res \in (0..5) \cup {ServerError}, Reply(r, res)
  PROVE  /\ req' \in [Requests -> Request]
         /\ req'[r].pc = "done" /\ req'[r].res = res
         /\ req'[r].kind = req[r].kind /\ req'[r].order_id = req[r].order_id
         /\ req'[r].order = req[r].order /\ req'[r].left = req[r].left
         /\ \A q \in Requests \ {r} : req'[q] = req[q]
<1> DEFINE l == [req[r] EXCEPT !.pc = "done"]
           m == [l EXCEPT !.res = res]
<1>1. /\ l \in Request /\ l.pc = "done"
      /\ l.kind = req[r].kind /\ l.order_id = req[r].order_id
      /\ l.order = req[r].order /\ l.left = req[r].left
  BY DEF Request
<1>2. req' = [req EXCEPT ![r] = m]
  BY DEF Reply
<1> HIDE DEF l
<1>3. /\ m \in Request /\ m.pc = "done" /\ m.res = res
      /\ m.kind = l.kind /\ m.order_id = l.order_id
      /\ m.order = l.order /\ m.left = l.left
  BY <1>1 DEF Request
<1> HIDE DEF m
<1> QED BY <1>1, <1>2, <1>3

\* The initial state, every order unpaid and no click served, satisfies the
\* inductive invariant.
LEMMA InitIndInv == Init => IndInv
<1> SUFFICES ASSUME Init PROVE IndInv
  OBVIOUS
<1> USE PaymentAssumption
<1>1. TypeOK
  BY DEF Init, TypeOK, Request, Idle, Row, Trades
<1>2. SettledMeansPaid /\ FinishedMeansCommented
  BY DEF Init, SettledMeansPaid, FinishedMeansCommented, Settled
<1>3. SuccessIsRecorded /\ HeldRowsAreSafe
  BY DEF Init, SuccessIsRecorded, HeldRowsAreSafe, HeldRowIsSafe, Settled, Idle
<1> QED BY <1>1, <1>2, <1>3 DEF IndInv

\* A step of Alipay changes a trade that is not paid yet, so no order and no
\* row that a view holds depends on it.
LEMMA BuyerStep ==
  ASSUME IndInv, NEW o \in Orders, NEW t \in Trades,
         trade[o] # "TRADE_SUCCESS",
         trade' = [trade EXCEPT ![o] = t],
         UNCHANGED <<order, comment, url, req>>
  PROVE  IndInv'
<1>1. TypeOK'
  BY DEF IndInv, TypeOK
<1>2. \A p \in Orders : trade[p] = "TRADE_SUCCESS" => trade'[p] = "TRADE_SUCCESS"
  BY DEF IndInv, TypeOK
<1>3. \A p \in Orders : EarlyComments(p)' = EarlyComments(p)
  BY DEF EarlyComments
<1>4. SettledMeansPaid' /\ SuccessIsRecorded' /\ FinishedMeansCommented'
  BY <1>2, <1>3 DEF IndInv, SettledMeansPaid, SuccessIsRecorded,
                    FinishedMeansCommented, Settled
<1>5. HeldRowsAreSafe'
  BY <1>2, <1>3 DEF IndInv, HeldRowsAreSafe, HeldRowIsSafe, Settled
<1> QED BY <1>1, <1>4, <1>5 DEF IndInv

\* What the invariant says of the local variables l of a click.
Held(l) ==
    /\ HeldRowIsSafe(l)
    /\ l.kind = "check" /\ l.res = 3 => Settled(l.order_id)

\* The invariant says Held of the local variables of every click.
LEMMA HeldAll ==
  ASSUME IndInv
  PROVE  \A r \in Requests : req[r] \in Request /\ Held(req[r])
BY DEF IndInv, TypeOK, HeldRowsAreSafe, SuccessIsRecorded, Held

\* A click that is still served is no early comment, so its steps keep those
\* there are.
LEMMA EarlyKept ==
  ASSUME IndInv, NEW r \in Requests, req[r].pc # "done",
         \A q \in Requests : q # r => req'[q] = req[q]
  PROVE  /\ req[r].res = Nil
         /\ \A p : EarlyComments(p) \subseteq EarlyComments(p)'
         /\ \A q \in Requests : \A p :
               /\ req'[q].order_id = p
               /\ EarlyComments(p) # {}
               => EarlyComments(req[q].order_id)' # {}
<1>1. req[r].res = Nil
  BY DEF IndInv, HeldRowsAreSafe, HeldRowIsSafe, Idle
<1>2. ASSUME NEW p, NEW c \in EarlyComments(p) PROVE c \in EarlyComments(p)'
  <2>1. c \in Requests /\ c # r
    BY <1>1, PaymentAssumption DEF EarlyComments
  <2> QED BY <2>1 DEF EarlyComments
<1>3. ASSUME NEW q \in Requests, NEW p, req'[q].order_id = p, EarlyComments(p) # {}
      PROVE  EarlyComments(req[q].order_id)' # {}
  <2>1. EarlyComments(p)' # {}
    BY <1>2, <1>3
  <2> QED BY <1>3, <2>1 DEF EarlyComments
<1> QED BY <1>1, <1>2, <1>3

\* A step of one click that leaves the tables and Alipay alone keeps the
\* invariant if the click's new local variables satisfy Held.
LEMMA QuietStep ==
  ASSUME IndInv, NEW r \in Requests, NEW l \in Request, Held(l),
         req[r].pc # "done",
         req' = [req EXCEPT ![r] = l],
         url' \in SUBSET AlipayOrders,
         UNCHANGED <<order, comment, trade>>
  PROVE  IndInv'
<1>1. TypeOK'
  BY DEF IndInv, TypeOK
<1>2. \A q \in Requests : q # r => req'[q] = req[q]
  BY DEF IndInv, TypeOK
<1>3. \A p : EarlyComments(p) \subseteq EarlyComments(p)'
  BY <1>2, EarlyKept
<1>4. SettledMeansPaid' /\ FinishedMeansCommented'
  <2>1. \A p \in Orders : EarlyComments(p) # {} => EarlyComments(p)' # {}
    BY <1>3
  <2> QED BY <2>1 DEF IndInv, SettledMeansPaid, FinishedMeansCommented, Settled
<1>5. \A q \in Requests : Held(req[q])
  BY HeldAll
<1>6. \A q \in Requests : Held(req'[q])
  BY <1>5 DEF IndInv, TypeOK
<1>7. SuccessIsRecorded'
  BY <1>6 DEF SuccessIsRecorded, Held, Settled
<1>8. ASSUME NEW q \in Requests PROVE HeldRowIsSafe(req[q])'
  <2>1. HeldRowIsSafe(req'[q])
    BY <1>6 DEF Held
  <2>2. EarlyComments(req'[q].order_id) # {} => EarlyComments(req[q].order_id)' # {}
    BY <1>2, EarlyKept
  <2> QED BY <2>1, <2>2 DEF HeldRowIsSafe, Settled
<1> QED BY <1>1, <1>4, <1>7, <1>8 DEF IndInv, HeldRowsAreSafe

\* An answer other than a success (reply 3) is always harmless.
LEMMA ReplyStep ==
  ASSUME IndInv, NEW r \in Requests, NEW res \in (0..5) \cup {ServerError},
         res # 3, req[r].pc # "done", Reply(r, res),
         UNCHANGED <<order, comment, trade, url>>
  PROVE  IndInv'
<1> DEFINE l == [req[r] EXCEPT !.pc = "done", !.res = res]
<1>1. req[r] \in Request /\ Held(req[r])
  BY HeldAll
<1>2. l \in Request
  BY <1>1 DEF Request
<1>3. l.pc = "done" /\ l.res = res
  BY <1>1 DEF Request
<1>4. Held(l)
  BY <1>1, <1>3, PaymentAssumption DEF Held, HeldRowIsSafe
<1>5. req' = [req EXCEPT ![r] = l] /\ url' \in SUBSET AlipayOrders
  BY DEF Reply, IndInv, TypeOK
<1> QED BY <1>2, <1>4, <1>5, QuietStep

\* A view saves the row of order o and answers: the invariant is kept if the
\* saved row has a status of at least 4, with the trade number of a payment or
\* after an early comment, and all comments are there when that status is 5.
LEMMA SaveStep ==
  ASSUME IndInv, NEW r \in Requests, NEW o \in Orders, NEW row \in Row,
         NEW res \in 0..5,
         req[r].order_id = o, req[r].pc # "done",
         row.order_status >= 4,
         \/ trade[o] = "TRADE_SUCCESS" /\ row.trade_no = o
         \/ row.order_status = 5 /\ EarlyComments(o)' # {},
         row.order_status = 5 => comment[o] = Lines,
         order' = [order EXCEPT ![o] = row],
         Reply(r, res),
         UNCHANGED <<comment, trade, url>>
  PROVE  IndInv'
<1>1. TypeOK'
  <2>1. req' \in [Requests -> Request]
    BY ReplyFields DEF IndInv, TypeOK
  <2>2. order' \in [Orders -> Row]
    BY DEF IndInv, TypeOK
  <2> QED BY <2>1, <2>2 DEF IndInv, TypeOK
<1>2. order'[o] = row /\ \A p \in Orders : p # o => order'[p] = order[p]
  BY DEF IndInv, TypeOK
<1>0. \A p : EarlyComments(p) \subseteq EarlyComments(p)'
  <2>1. \A q \in Requests : q # r => req'[q] = req[q]
    BY DEF IndInv, TypeOK, Reply
  <2> QED BY <2>1, EarlyKept
<1>3. SettledMeansPaid' /\ FinishedMeansCommented'
  <2>1. \A p \in Orders : EarlyComments(p) # {} => EarlyComments(p)' # {}
    BY <1>0
  <2>2. ASSUME NEW p \in Orders, order'[p].order_status >= 4
        PROVE  \/ trade'[p] = "TRADE_SUCCESS" /\ order'[p].trade_no = p
               \/ order'[p].order_status = 5 /\ EarlyComments(p)' # {}
    <3>1. CASE p = o
      BY <1>2, <3>1
    <3>2. CASE p # o
      BY <1>2, <2>1, <2>2, <3>2 DEF IndInv, SettledMeansPaid, Settled
    <3> QED BY <3>1, <3>2
  <2>3. SettledMeansPaid'
    BY <2>2 DEF SettledMeansPaid, Settled
  <2> QED BY <1>2, <2>3 DEF IndInv, FinishedMeansCommented
<1>4. \A p \in Orders : order[p].order_status >= 4 => order'[p].order_status >= 4
  BY <1>2
<1>5. order'[o].order_status >= 4
  BY <1>2
<1>6. \A q \in Requests : q # r => req'[q] = req[q]
  BY DEF IndInv, TypeOK, Reply
<1>7. req'[r].pc = "done" /\ req'[r].order_id = o /\ req'[r].res = res
  BY DEF IndInv, TypeOK, Request, Reply
<1>8. SuccessIsRecorded'
  <2> SUFFICES ASSUME NEW q \in Requests, req'[q].kind = "check", req'[q].res = 3
               PROVE  order'[req'[q].order_id].order_status >= 4
    BY DEF SuccessIsRecorded, Settled
  <2>1. CASE q = r
    BY <2>1, <1>5, <1>7
  <2>2. CASE q # r
    BY <2>2, <1>4, <1>6 DEF IndInv, SuccessIsRecorded, HeldRowsAreSafe, HeldRowIsSafe,
                            Settled
  <2> QED BY <2>1, <2>2
<1>9. HeldRowsAreSafe'
  <2> SUFFICES ASSUME NEW q \in Requests PROVE HeldRowIsSafe(req[q])'
    BY DEF HeldRowsAreSafe
  <2>1. CASE q = r
    BY <2>1, <1>7, PaymentAssumption DEF HeldRowIsSafe
  <2>2. CASE q # r
    <3>1. HeldRowIsSafe(req[q]) /\ req'[q] = req[q]
      BY <2>2, <1>6 DEF IndInv, HeldRowsAreSafe
    <3>2. EarlyComments(req[q].order_id) # {} => EarlyComments(req[q].order_id)' # {}
      BY <1>6, <3>1, EarlyKept
    <3> QED BY <3>1, <3>2, <1>4 DEF HeldRowIsSafe, Settled
  <2> QED BY <2>1, <2>2
<1> QED BY <1>1, <1>3, <1>8, <1>9 DEF IndInv

\* Every step of the views, the browsers and Alipay keeps the invariant.
LEMMA NextIndInv == IndInv /\ [Next]_vars => IndInv'
<1> SUFFICES ASSUME IndInv, [Next]_vars PROVE IndInv'
  OBVIOUS
<1> USE PaymentAssumption
<1>a. ASSUME NEW r \in Requests, Step(r) PROVE IndInv'
  <2> DEFINE o == req[r].order_id
  <2>0. req[r] \in Request /\ Held(req[r])
    BY HeldAll
  <2>1. CASE Refuse(r)
    BY <2>1, ReplyStep DEF Refuse
  <2>2. ASSUME NEW p \in Orders, Pay(r, p) PROVE IndInv'
    <3>1. CASE Payable(p)
      <4> DEFINE l == [req[r] EXCEPT !.pc = "check", !.kind = "check", !.order_id = p]
      <4>1. l \in Request /\ l.pc = "check" /\ l.kind = "check" /\ l.order_id = p
              /\ l.res = req[r].res
        BY <2>0 DEF Request
      <4>2. req[r].res = Nil
        BY <2>2, <2>0 DEF Pay, Held, HeldRowIsSafe, Idle
      <4>3. Held(l)
        BY <4>1, <4>2 DEF Held, HeldRowIsSafe
      <4>4. /\ req' = [req EXCEPT ![r] = l]
            /\ url' \in SUBSET AlipayOrders
            /\ req[r].pc # "done"
            /\ UNCHANGED <<order, comment, trade>>
        BY <2>2, <3>1 DEF Pay, Payable, IndInv, TypeOK
      <4> QED BY <4>1, <4>3, <4>4, QuietStep
    <3>2. CASE ~Payable(p)
      BY <2>2, <3>2, ReplyStep DEF Pay
    <3> QED BY <3>1, <3>2
  <2>3. ASSUME NEW p \in Orders, CommentForm(r, p) PROVE IndInv'
    <3> DEFINE l == [req[r] EXCEPT !.pc = "form", !.kind = "comment", !.order_id = p]
    <3>1. l \in Request /\ l.pc = "form" /\ l.kind = "comment" /\ l.order_id = p
            /\ l.res = req[r].res
      BY <2>0 DEF Request
    <3>2. req[r].res = Nil
      BY <2>3, <2>0 DEF CommentForm, Held, HeldRowIsSafe, Idle
    <3>3. Held(l)
      BY <3>1, <3>2 DEF Held, HeldRowIsSafe
    <3>4. /\ req' = [req EXCEPT ![r] = l]
          /\ url' \in SUBSET AlipayOrders
          /\ req[r].pc # "done"
          /\ UNCHANGED <<order, comment, trade>>
      BY <2>3 DEF CommentForm, IndInv, TypeOK
    <3> QED BY <3>1, <3>3, <3>4, QuietStep
  <2>4. CASE CheckGet(r)
    <3>1. CASE Payable(o)
      <4> DEFINE l == [req[r] EXCEPT !.pc = "query", !.order = order[o]]
      <4>0. o \in Orders /\ req[r].res = Nil /\ req[r].kind = "check"
        BY <2>4, <2>0 DEF CheckGet, Held, HeldRowIsSafe
      <4>1. l \in Request /\ l.pc = "query" /\ l.kind = "check" /\ l.order_id = o
              /\ l.res = Nil
        BY <2>0, <4>0 DEF Request, IndInv, TypeOK
      <4>2. Held(l)
        BY <4>0, <4>1 DEF Held, HeldRowIsSafe
      <4>3. /\ req' = [req EXCEPT ![r] = l]
            /\ url' \in SUBSET AlipayOrders
            /\ req[r].pc # "done"
            /\ UNCHANGED <<order, comment, trade>>
        BY <2>4, <3>1 DEF CheckGet, IndInv, TypeOK
      <4> QED BY <4>1, <4>2, <4>3, QuietStep
    <3>2. CASE ~Payable(o)
      BY <2>4, <3>2, ReplyStep DEF CheckGet
    <3> QED BY <3>1, <3>2
  <2>5. CASE CheckQuery(r)
    <3>1. CASE trade[o] = "TRADE_SUCCESS"
      <4> DEFINE l == [req[r] EXCEPT !.pc = "save"]
      <4>0. o \in Orders /\ req[r].res = Nil /\ req[r].kind = "check"
        BY <2>5, <2>0 DEF CheckQuery, Held, HeldRowIsSafe
      <4>1. l \in Request /\ l.pc = "save" /\ l.kind = "check" /\ l.order_id = o
              /\ l.res = Nil
        BY <2>0, <4>0 DEF Request
      <4>2. Held(l)
        BY <3>1, <4>0, <4>1 DEF Held, HeldRowIsSafe
      <4>3. /\ req' = [req EXCEPT ![r] = l]
            /\ url' \in SUBSET AlipayOrders
            /\ req[r].pc # "done"
            /\ UNCHANGED <<order, comment, trade>>
        BY <2>5, <3>1 DEF CheckQuery, IndInv, TypeOK
      <4> QED BY <4>1, <4>2, <4>3, QuietStep
    <3>2. CASE trade[o] = "TRADE_CLOSED"
      BY <2>5, <3>2, ReplyStep DEF CheckQuery
    <3> QED BY <2>5, <3>1, <3>2 DEF CheckQuery
  <2>6. CASE CheckSave(r)
    <3> DEFINE row == [req[r].order EXCEPT !.order_status = 4, !.trade_no = o]
    <3>1. o \in Orders /\ trade[o] = "TRADE_SUCCESS" /\ req[r].pc # "done"
      BY <2>6, <2>0 DEF CheckSave, Held, HeldRowIsSafe
    <3>2. req[r].order \in Row
      BY <2>0 DEF Request
    <3>3. row \in Row /\ row.trade_no = o /\ row.order_status = 4
      <4> DEFINE paid == [req[r].order EXCEPT !.order_status = 4]
      <4>1. paid \in Row /\ paid.order_status = 4
        BY <3>2 DEF Row
      <4>2. row = [paid EXCEPT !.trade_no = o]
        OBVIOUS
      <4> HIDE DEF paid, row
      <4> QED BY <3>1, <4>1, <4>2 DEF Row
    <3>4. /\ order' = [order EXCEPT ![o] = row]
          /\ Reply(r, 3)
          /\ UNCHANGED <<comment, trade, url>>
      BY <2>6 DEF CheckSave
    <3>5. row.order_status >= 4 /\ row.order_status # 5 /\ 3 \in 0..5
      BY <3>3
    <3> HIDE DEF row
    <3> QED BY <3>1, <3>3, <3>4, <3>5, SaveStep
  <2>7. CASE CommentGet(r)
    <3> DEFINE l == [req[r] EXCEPT !.pc = "lines", !.left = Lines, !.order = order[o]]
    <3>1. o \in Orders /\ req[r].res = Nil /\ req[r].kind = "comment"
      BY <2>7, <2>0 DEF CommentGet, Held, HeldRowIsSafe
    <3>2. l \in Request /\ l.pc = "lines" /\ l.kind = "comment" /\ l.order_id = o
            /\ l.res = Nil /\ l.left = Lines /\ l.order = order[o]
      BY <2>0, <3>1 DEF Request, IndInv, TypeOK
    <3>3. order[o].order_status >= 4 =>
            /\ Settled(o)
            /\ \/ trade[o] = "TRADE_SUCCESS" /\ order[o].trade_no = o
               \/ EarlyComments(o) # {}
      BY <3>1 DEF IndInv, SettledMeansPaid, Settled
    <3>4. Held(l)
      BY <3>1, <3>2, <3>3 DEF Held, HeldRowIsSafe
    <3>5. /\ req' = [req EXCEPT ![r] = l]
          /\ url' \in SUBSET AlipayOrders
          /\ req[r].pc # "done"
          /\ UNCHANGED <<order, comment, trade>>
      BY <2>7 DEF CommentGet, IndInv, TypeOK
    <3> QED BY <3>2, <3>4, <3>5, QuietStep
  <2>8. CASE CommentLine(r)
    <3> PICK x \in req[r].left :
           /\ comment' = [comment EXCEPT ![o] = @ \cup {x}]
           /\ req' = [req EXCEPT ![r].left = @ \ {x}]
      BY <2>8 DEF CommentLine
    <3>1. /\ o \in Orders /\ x \in Lines /\ req[r].pc = "lines"
          /\ UNCHANGED <<order, trade, url>>
      BY <2>8, <2>0 DEF CommentLine, Held, HeldRowIsSafe, Request
    <3>2. TypeOK'
      BY <3>1 DEF IndInv, TypeOK, Request
    <3>3. \A p \in Orders : comment[p] \subseteq comment'[p]
      BY <3>1 DEF IndInv, TypeOK
    <3>5. \A q \in Requests : q # r => req'[q] = req[q]
      BY DEF IndInv, TypeOK
    <3>4. SettledMeansPaid' /\ FinishedMeansCommented'
      <4>1. \A p \in Orders : EarlyComments(p) # {} => EarlyComments(p)' # {}
        BY <3>1, <3>5, EarlyKept
      <4> QED BY <4>1, <3>1, <3>2, <3>3 DEF IndInv, TypeOK, SettledMeansPaid,
                                            FinishedMeansCommented, Settled
    <3>6. /\ \A f \in {"pc", "kind", "order_id", "order", "res"} :
                req'[r][f] = req[r][f]
          /\ req'[r].left = req[r].left \ {x}
      BY DEF IndInv, TypeOK, Request
    <3>7. SuccessIsRecorded'
      BY <3>1, <3>5, <3>6 DEF IndInv, SuccessIsRecorded, Settled
    <3>8. ASSUME NEW q \in Requests PROVE HeldRowIsSafe(req[q])'
      <4>1. HeldRowIsSafe(req[q])
        BY DEF IndInv, HeldRowsAreSafe
      <4>4. req'[q].order_id = req[q].order_id
        BY <3>5, <3>6
      <4>5. EarlyComments(req[q].order_id) # {} => EarlyComments(req[q].order_id)' # {}
        BY <3>1, <3>5, <4>4, EarlyKept
      <4>2. CASE q # r
        BY <4>1, <4>2, <4>5, <3>1, <3>3, <3>5 DEF HeldRowIsSafe, Settled
      <4>3. CASE q = r
        <5>1. Lines \subseteq comment'[o] \cup req'[r].left
          BY <4>1, <4>3, <3>1, <3>6 DEF HeldRowIsSafe, IndInv, TypeOK
        <5> QED BY <4>1, <4>3, <4>5, <5>1, <3>1, <3>6 DEF HeldRowIsSafe, Settled
      <4> QED BY <4>2, <4>3
    <3> QED BY <3>2, <3>4, <3>7, <3>8 DEF IndInv, HeldRowsAreSafe
  <2>9. CASE CommentSave(r)
    <3> DEFINE row == [req[r].order EXCEPT !.order_status = 5]
    <3>1. /\ o \in Orders /\ req[r].kind = "comment" /\ req[r].order \in Row
          /\ Lines \subseteq comment[o]
          /\ req[r].order.order_status >= 4 =>
                \/ trade[o] = "TRADE_SUCCESS" /\ req[r].order.trade_no = o
                \/ EarlyComments(o) # {}
      BY <2>9, <2>0 DEF CommentSave, Held, HeldRowIsSafe, Request
    <3>2. comment[o] = Lines
      BY <3>1 DEF IndInv, TypeOK
    <3>3. row \in Row /\ row.trade_no = req[r].order.trade_no /\ row.order_status = 5
      BY <3>1 DEF Row
    <3>4. /\ order' = [order EXCEPT ![o] = row]
          /\ Reply(r, 5)
          /\ req[r].pc # "done"
          /\ UNCHANGED <<comment, trade, url>>
      BY <2>9 DEF CommentSave
    <3>5. row.order_status >= 4 /\ 5 \in 0..5
      BY <3>3
    <3>6. PICK p \in Orders : p = o
      BY <3>1
    <3>7. \/ trade[p] = "TRADE_SUCCESS" /\ row.trade_no = p
          \/ row.order_status = 5 /\ EarlyComments(p)' # {}
      <4>1. /\ req'[r].kind = "comment" /\ req'[r].order_id = p /\ req'[r].res = 5
            /\ req'[r].order = req[r].order
            /\ \A q \in Requests : q # r => req'[q] = req[q]
        BY <3>1, <3>4, <3>6, ReplyFields DEF IndInv, TypeOK
      <4>2. CASE ~(req[r].order.order_status >= 4)
        <5>1. req'[r].order.order_status < 4
          BY <3>1, <4>1, <4>2 DEF Row
        <5>2. r \in EarlyComments(p)'
          BY <4>1, <5>1 DEF EarlyComments
        <5> QED BY <3>3, <5>2
      <4>3. CASE req[r].order.order_status >= 4
        <5>1. EarlyComments(p) \subseteq EarlyComments(p)'
          BY <3>4, <4>1, EarlyKept
        <5>2. \/ trade[p] = "TRADE_SUCCESS" /\ req[r].order.trade_no = p
              \/ EarlyComments(p) # {}
          BY <3>1, <3>6, <4>3
        <5> QED BY <3>3, <5>1, <5>2
      <4> QED BY <4>2, <4>3
    <3> HIDE DEF row
    <3> QED BY <3>2, <3>3, <3>4, <3>5, <3>6, <3>7, SaveStep
  <2>10. CASE QueryFails(r)
    BY <2>10, ReplyStep DEF QueryFails
  <2>11. CASE Crash(r)
    BY <2>11, ReplyStep DEF Crash, ServerError
  <2> QED BY <1>a, <2>1, <2>2, <2>3, <2>4, <2>5, <2>6, <2>7, <2>8, <2>9, <2>10, <2>11
          DEF Step, Click, View
<1>b. CASE Buyer
  <2> PICK o \in Orders : OpenPayPage(o) \/ BuyerPays(o) \/ TradeTimesOut(o)
    BY <1>b DEF Buyer
  <2>1. CASE OpenPayPage(o)
    BY <2>1, BuyerStep DEF OpenPayPage, Trades
  <2>2. CASE BuyerPays(o)
    BY <2>2, BuyerStep DEF BuyerPays, Trades
  <2>3. CASE TradeTimesOut(o)
    BY <2>3, BuyerStep DEF TradeTimesOut, Trades
  <2> QED BY <2>1, <2>2, <2>3
<1>c. CASE UNCHANGED vars
  BY <1>c DEF vars, IndInv, TypeOK, SettledMeansPaid, SuccessIsRecorded,
              FinishedMeansCommented, HeldRowsAreSafe, HeldRowIsSafe, Settled,
              EarlyComments
<1> QED BY <1>a, <1>b, <1>c DEF Next, Finished

\* Whatever checks, comments, crashes and payments overlap, the tables, Alipay
\* and the rows that the views hold stay consistent with each other.
THEOREM RowsStaySafe == Spec => []IndInv
BY InitIndInv, NextIndInv, PTL DEF Spec

\* No order gets past "to be paid" without the money and the trade number,
\* unless a comment form that read it unpaid has finished it.
THEOREM SettledOrdersArePaid == Spec => []SettledMeansPaid
BY RowsStaySafe, PTL DEF IndInv

\* A payment that was reported as successful is never forgotten.
THEOREM SuccessIsNeverLost == Spec => []SuccessIsRecorded
BY RowsStaySafe, PTL DEF IndInv

\* A finished order has a comment on every line.
THEOREM FinishedOrdersAreCommented == Spec => []FinishedMeansCommented
BY RowsStaySafe, PTL DEF IndInv

\* A request that has been answered is left alone; the order row is written
\* by the save of a check or of a comment form and by nothing else.
LEMMA AnsweredStays ==
    ASSUME IndInv, [Next]_vars
    PROVE /\ \A c \in Requests : req[c].res # Nil => req'[c] = req[c]
          /\ \A c \in Requests : req[c].kind # Nil =>
                req'[c].kind = req[c].kind /\ req'[c].order_id = req[c].order_id
          /\ \A c \in Requests : req'[c].kind = "comment" =>
                /\ req[c].kind = "comment" \/ req'[c].order_id \in Orders
                /\ req[c].res = 5 \/ req'[c].res # 5 \/ CommentSave(c)
          /\ \/ order' = order
             \/ \E c \in Requests : CheckSave(c) \/ CommentSave(c)
<1>1. CASE UNCHANGED <<order, req>>
  BY <1>1 DEF IndInv, TypeOK, Request
<1>2. ASSUME NEW r \in Requests, Step(r)
      PROVE /\ req[r].res = Nil /\ \A c \in Requests \ {r} : req'[c] = req[c]
            /\ req[r].kind # Nil =>
                 req'[r].kind = req[r].kind /\ req'[r].order_id = req[r].order_id
            /\ req'[r].kind = "comment" =>
                 /\ req[r].kind = "comment" \/ req'[r].order_id \in Orders
                 /\ req'[r].res # 5 \/ CommentSave(r)
            /\ order' = order \/ CheckSave(r) \/ CommentSave(r)
  <2> USE <1>2
  <2>0. /\ req[r] \in Request /\ HeldRowIsSafe(req[r]) /\ req \in [Requests -> Request]
        /\ req[r].pc = "idle" => req[r].kind = Nil /\ req[r].res = Nil
        /\ req[r].pc \notin {"idle", "done"} => req[r].res = Nil
    BY DEF IndInv, TypeOK, HeldRowsAreSafe, HeldRowIsSafe, Idle
  <2>1. CASE Refuse(r)
    BY <2>0, <2>1, PaymentAssumption DEF Refuse, Reply, Request
  <2>2. CASE \E o \in Orders : Pay(r, o)
    <3>1. PICK o \in Orders : Pay(r, o)
      BY <2>2
    <3>2. /\ req[r].kind = Nil /\ req[r].res = Nil /\ order' = order
      BY <2>0, <3>1 DEF Pay
    <3>3. /\ req'[r].kind # "comment"
          /\ \A c \in Requests \ {r} : req'[c] = req[c]
      <4>1. CASE Payable(o)
        <5>1. req' = [req EXCEPT ![r] = [@ EXCEPT !.pc = "check", !.kind = "check",
                                                   !.order_id = o]]
          BY <3>1, <4>1 DEF Pay
        <5> QED BY <2>0, <5>1 DEF Request
      <4>2. CASE ~Payable(o)
        <5>1. req' = [req EXCEPT ![r] = [@ EXCEPT !.pc = "done", !.res = 2]]
          BY <3>1, <4>2 DEF Pay, Reply
        <5> QED BY <2>0, <3>2, <5>1, PaymentAssumption DEF Request
      <4> QED BY <4>1, <4>2
    <3> QED BY <3>2, <3>3
  <2>3. CASE \E o \in Orders : CommentForm(r, o)
    BY <2>0, <2>3, PaymentAssumption DEF CommentForm, Request
  <2>4. CASE CheckGet(r) \/ CheckQuery(r) \/ QueryFails(r) \/ CheckSave(r)
    <3>1. req[r].kind = "check" /\ req[r].pc \notin {"idle", "done"}
      BY <2>0, <2>4 DEF CheckGet, CheckQuery, QueryFails, CheckSave, HeldRowIsSafe
    <3>2. /\ req'[r].kind = req[r].kind /\ req'[r].order_id = req[r].order_id
          /\ \A c \in Requests \ {r} : req'[c] = req[c]
      <4>1. CASE CheckGet(r)
        <5>1. CASE Payable(req[r].order_id)
          BY <2>0, <4>1, <5>1 DEF CheckGet, Request
        <5>2. CASE ~Payable(req[r].order_id)
          BY <2>0, <4>1, <5>2, ReplyFields DEF CheckGet
        <5> QED BY <5>1, <5>2
      <4>2. CASE CheckQuery(r)
        <5>1. CASE req' = [req EXCEPT ![r].pc = "save"]
          BY <2>0, <5>1 DEF Request
        <5>2. CASE Reply(r, 4)
          BY <2>0, <5>2, ReplyFields
        <5> QED BY <4>2, <5>1, <5>2 DEF CheckQuery
      <4>3. CASE QueryFails(r)
        BY <2>0, <4>3, ReplyFields DEF QueryFails
      <4>4. CASE CheckSave(r)
        BY <2>0, <4>4, ReplyFields DEF CheckSave
      <4> QED BY <2>4, <4>1, <4>2, <4>3, <4>4
    <3>3. order' = order \/ CheckSave(r)
      BY <2>4 DEF CheckGet, CheckQuery, QueryFails
    <3> QED BY <2>0, <3>1, <3>2, <3>3
  <2>5. CASE CommentGet(r) \/ CommentLine(r) \/ CommentSave(r)
    <3>1. req[r].kind = "comment" /\ req[r].pc \notin {"idle", "done"}
      BY <2>0, <2>5 DEF CommentGet, CommentLine, CommentSave, HeldRowIsSafe
    <3>2. CASE CommentGet(r)
      BY <2>0, <3>1, <3>2, PaymentAssumption DEF CommentGet, Request
    <3>3. CASE CommentLine(r)
      BY <2>0, <3>1, <3>3, PaymentAssumption DEF CommentLine, Request
    <3>4. CASE CommentSave(r)
      BY <2>0, <3>1, <3>4 DEF CommentSave, Reply, Request
    <3> QED BY <2>5, <3>2, <3>3, <3>4
  <2>6. CASE Crash(r)
    BY <2>0, <2>6 DEF Crash, Reply, Request, ServerError
  <2> QED BY <2>1, <2>2, <2>3, <2>4, <2>5, <2>6 DEF Step, Click, View
<1>3. CASE \E r \in Requests : Step(r)
  <2> PICK r \in Requests : Step(r)
    BY <1>3
  <2>1. \A c \in Requests \ {r} : req'[c] = req[c]
    BY <1>2 DEF IndInv, TypeOK
  <2> QED BY <1>2, <2>1
<1>4. Buyer \/ Finished \/ UNCHANGED vars => UNCHANGED <<order, req>>
  BY DEF Buyer, OpenPayPage, BuyerPays, TradeTimesOut, Finished, vars
<1> QED BY <1>1, <1>3, <1>4 DEF Next

\* A check that was answered with success stays so.
LEMMA SucceededGrows ==
    ASSUME IndInv, [Next]_vars, NEW o
    PROVE Succeeded(o) \subseteq Succeeded(o)'
BY AnsweredStays, PaymentAssumption DEF Succeeded

\* An early comment stays one.
LEMMA EarlyGrows ==
    ASSUME IndInv, [Next]_vars, NEW o
    PROVE EarlyComments(o) \subseteq EarlyComments(o)'
BY AnsweredStays, PaymentAssumption DEF EarlyComments

\* The save of a check adds a success to those there are.
LEMMA CheckSaveAdds ==
    ASSUME IndInv, NEW c \in Requests, CheckSave(c), NEW o, o = req[c].order_id
    PROVE /\ o \in Orders /\ c \in Succeeded(o)'
          /\ c \notin Succeeded(o) \cup EarlyComments(o)
          /\ \A x \in Orders \ {o} : order'[x] = order[x]
<1>1. /\ req[c] \in Request /\ HeldRowIsSafe(req[c]) /\ req[c].pc = "save"
      /\ req \in [Requests -> Request] /\ order \in [Orders -> Row]
  BY DEF IndInv, TypeOK, HeldRowsAreSafe, CheckSave
<1>2. req[c].kind = "check" /\ o \in Orders /\ req[c].res = Nil
  BY <1>1 DEF HeldRowIsSafe
<1>3. req'[c].kind = "check" /\ req'[c].res = 3 /\ req'[c].order_id = o
  BY <1>1, <1>2 DEF CheckSave, Reply, Request
<1>4. \A x \in Orders \ {o} : order'[x] = order[x]
  BY <1>1, <1>2 DEF CheckSave
<1> QED BY <1>2, <1>3, <1>4, PaymentAssumption DEF Succeeded, EarlyComments

\* The save of a comment form finishes its order, which was settled before
\* unless the form is an early one.
LEMMA CommentSaveFinishes ==
    ASSUME IndInv, NEW c \in Requests, CommentSave(c), NEW o, o = req[c].order_id
    PROVE /\ o \in Orders /\ order'[o].order_status = 5
          /\ Settled(o) \/ c \in EarlyComments(o)'
          /\ \A x \in Orders \ {o} : order'[x] = order[x]
<1>1. /\ req[c] \in Request /\ HeldRowIsSafe(req[c]) /\ req[c].pc = "lines"
      /\ req \in [Requests -> Request]
      /\ order \in [Orders -> Row] /\ req[c].order \in Row
  BY DEF IndInv, TypeOK, HeldRowsAreSafe, CommentSave, Request
<1>2. /\ o \in Orders /\ req[c].kind = "comment"
      /\ req[c].order.order_status >= 4 => Settled(o)
  BY <1>1 DEF HeldRowIsSafe
<1>3. order' = [order EXCEPT ![o] = [req[c].order EXCEPT !.order_status = 5]]
  BY DEF CommentSave
<1>4. /\ req'[c].kind = "comment" /\ req'[c].order_id = o /\ req'[c].res = 5
      /\ req'[c].order = req[c].order
  <2>1. Reply(c, 5) /\ 5 \in (0..5) \cup {ServerError}
    BY DEF CommentSave
  <2> QED BY <1>1, <1>2, <2>1, ReplyFields
<1>6. order'[o].order_status = 5 /\ \A x \in Orders \ {o} : order'[x] = order[x]
  BY <1>1, <1>2, <1>3 DEF Row
<1>5. CASE ~(req[c].order.order_status >= 4)
  <2>1. req'[c].order.order_status < 4
    BY <1>1, <1>4, <1>5 DEF Row
  <2>2. c \in EarlyComments(o)'
    BY <1>4, <2>1 DEF EarlyComments
  <2> QED BY <1>2, <1>6, <2>2
<1> QED BY <1>2, <1>5, <1>6

\* Every step keeps it that a finished order is reopened by a late check only.
LEMMA ReopenedStep ==
    ASSUME IndInv, ReopenedOnlyByLateCheck, [Next]_vars
    PROVE ReopenedOnlyByLateCheck'
<1>a. ASSUME NEW o \in Orders, Settled(o)'
      PROVE  Succeeded(o)' \cup EarlyComments(o)' # {}
  <2>1. CASE Settled(o)
    BY <2>1, SucceededGrows, EarlyGrows DEF ReopenedOnlyByLateCheck
  <2>2. CASE ~Settled(o)
    <3>1. order' # order
      BY <1>a, <2>2 DEF Settled
    <3>2. PICK c \in Requests : CheckSave(c) \/ CommentSave(c)
      BY <3>1, AnsweredStays
    <3>3. PICK x : x = req[c].order_id
      OBVIOUS
    <3>4. CASE CheckSave(c)
      <4>1. o = x
        BY <1>a, <2>2, <3>3, <3>4, CheckSaveAdds DEF Settled
      <4> QED BY <3>3, <3>4, <4>1, CheckSaveAdds
    <3>5. CASE CommentSave(c)
      BY <1>a, <2>2, <3>3, <3>5, CommentSaveFinishes DEF Settled
    <3> QED BY <3>2, <3>4, <3>5
  <2> QED BY <2>1, <2>2
<1>b. ASSUME NEW r \in Requests, req'[r].kind = "comment" PROVE req'[r].order_id \in Orders
  BY <1>b, AnsweredStays, PaymentAssumption DEF ReopenedOnlyByLateCheck
<1>c. ASSUME NEW r \in Requests, req'[r].kind = "comment", req'[r].res = 5,
             NEW o \in Orders, o = req'[r].order_id
      PROVE order'[o].order_status = 5 \/ SettledTwice(o)'
  <2>1. CASE CommentSave(r)
    <3>1. req[r].order_id = o
      BY <1>c, <2>1 DEF CommentSave, Reply, IndInv, TypeOK, Request
    <3> QED BY <2>1, <3>1, CommentSaveFinishes
  <2>2. CASE ~CommentSave(r)
    <3>1. req[r].res = 5 /\ req'[r] = req[r]
      BY <1>c, <2>2, AnsweredStays, PaymentAssumption
    <3>2. order[o].order_status = 5 \/ SettledTwice(o)
      BY <1>c, <3>1 DEF ReopenedOnlyByLateCheck
    <3>3. CASE SettledTwice(o)
      BY <3>3, SucceededGrows, EarlyGrows DEF SettledTwice
    <3>4. CASE order[o].order_status = 5 /\ order'[o] # order[o]
      <4>1. PICK c \in Requests : CheckSave(c) \/ CommentSave(c)
        BY <3>4, AnsweredStays
      <4>2. PICK x : x = req[c].order_id
        OBVIOUS
      <4>3. CASE CheckSave(c)
        <5>1. x = o
          BY <3>4, <4>2, <4>3, CheckSaveAdds
        <5>2. c \in Succeeded(o)' /\ c \notin Succeeded(o) \cup EarlyComments(o)
          BY <4>2, <4>3, <5>1, CheckSaveAdds
        <5>3. PICK p : p \in Succeeded(o) \cup EarlyComments(o)
          BY <1>b, <1>c, <3>4 DEF ReopenedOnlyByLateCheck, Settled
        <5>4. p \in Succeeded(o)' \cup EarlyComments(o)' /\ p # c
          BY <5>2, <5>3, SucceededGrows, EarlyGrows
        <5> QED BY <5>2, <5>4 DEF SettledTwice
      <4>4. CASE CommentSave(c)
        BY <3>4, <4>2, <4>4, CommentSaveFinishes
      <4> QED BY <4>1, <4>3, <4>4
    <3> QED BY <3>2, <3>3, <3>4
  <2> QED BY <2>1, <2>2
<1>d. ASSUME NEW r \in Requests, req'[r].kind = "comment", req'[r].res = 5
      PROVE \/ order'[req'[r].order_id].order_status = 5
            \/ SettledTwice(req[r].order_id)'
  <2>1. PICK o \in Orders : o = req'[r].order_id
    BY <1>b, <1>d
  <2>2. order'[o].order_status = 5 \/ SettledTwice(o)'
    BY <1>c, <1>d, <2>1
  <2> QED BY <2>1, <2>2 DEF SettledTwice, Succeeded, EarlyComments
<1> QED BY <1>a, <1>b, <1>d DEF ReopenedOnlyByLateCheck

\* An order whose comments were accepted stays finished but for a late check
\* of it that follows another check or an early comment, whatever number of
\* checks, forms and crashes overlap.
THEOREM FinishedOrdersStayFinished == Spec => []ReopenedOnlyByLateCheck
<1>1. Init => ReopenedOnlyByLateCheck
  BY PaymentAssumption DEF Init, Idle, ReopenedOnlyByLateCheck, Settled
<1> QED BY <1>1, ReopenedStep, RowsStaySafe, PTL DEF Spec
==============================================================================
