----------------------------- MODULE OrderPayment -----------------------------
(****************************************************************************)
(* From a committed order to a finished one: POST /order/pay, the polling   *)
(* POST /order/check that the browser sends right after it, and the comment *)
(* form.  A click on the order page runs pay and then check; several clicks *)
(* (tabs, reloads) are served at once, and each keeps the order row it read *)
(* until it saves all columns of it again.  Alipay is external: the shop    *)
(* gets no notification (notify_url=None) and only sees it by asking.       *)
(****************************************************************************)
EXTENDS Integers

CONSTANTS
    Orders,         \* committed orders of one customer
    AlipayOrders,   \* the ones with pay_method 3
    Lines,          \* df_order_goods rows of every order
    Requests,       \* one identity per click
    Nil             \* no value; an empty trade_no

ASSUME PaymentAssumption ==
    /\ AlipayOrders \subseteq Orders
    /\ Nil \notin Orders /\ Nil \notin Int /\ Nil \notin {"check", "comment"}

\* The columns order_status and trade_no of df_order_info; a trade number is
\* named by the order it pays.
Row == [order_status: 1..5, trade_no: Orders \cup {Nil}]

Trades == {"none", "WAIT_BUYER_PAY", "TRADE_SUCCESS", "TRADE_CLOSED"}

ServerError == 500

VARIABLES
    order,          \* df_order_info
    comment,        \* lines of each order whose comment has been saved
    trade,          \* Alipay's state of the trade of each order
    url,            \* orders whose pay_url a browser has been given
    req             \* local variables of the views, per click

vars == <<order, comment, trade, url, req>>

Idle == [pc |-> "idle", kind |-> Nil, order_id |-> Nil,
         order |-> [order_status |-> 1, trade_no |-> Nil], left |-> {}, res |-> Nil]

Init ==
    /\ order = [o \in Orders |-> [order_status |-> 1, trade_no |-> Nil]]
    /\ comment = [o \in Orders |-> {}]
    /\ trade = [o \in Orders |-> "none"]
    /\ url = {}
    /\ req = [r \in Requests |-> Idle]

------------------------------------------------------------------------------
(* The views.                                                               *)

Reply(r, res) ==
    req' = [req EXCEPT ![r] = [@ EXCEPT !.pc = "done", !.res = res]]

\* OrderInfo.objects.get(..., pay_method=3, order_status=1) finds the row.
Payable(o) == o \in AlipayOrders /\ order[o].order_status = 1

\* Not logged in, or no order_id: replies 0 and 1.
Refuse(r) ==
    /\ req[r].pc = "idle"
    /\ \E res \in {0, 1} : Reply(r, res)
    /\ UNCHANGED <<order, comment, trade, url>>

\* OrderPayView: the signed address of Alipay's payment page, or reply 2.
\* On reply 3 the browser opens the page and posts /order/check.
Pay(r, o) ==
    /\ req[r].pc = "idle"
    /\ IF Payable(o)
       THEN /\ url' = url \cup {o}
            /\ req' = [req EXCEPT ![r] = [@ EXCEPT !.pc = "check", !.kind = "check",
                                                   !.order_id = o]]
       ELSE /\ Reply(r, 2)
            /\ UNCHANGED url
    /\ UNCHANGED <<order, comment, trade>>

\* OrderCheckView reads the order once, before it starts to poll.
CheckGet(r) ==
    LET o == req[r].order_id IN
    /\ req[r].pc = "check"
    /\ IF Payable(o)
       THEN req' = [req EXCEPT ![r] = [@ EXCEPT !.pc = "query", !.order = order[o]]]
       ELSE Reply(r, 2)
    /\ UNCHANGED <<order, comment, trade, url>>

\* Mutant: a code of 10000 is taken for a payment.
CheckQueryAnyTrade(r) ==
    LET o == req[r].order_id IN
    /\ req[r].pc = "query"
    /\ trade[o] # "none"
    /\ req' = [req EXCEPT ![r].pc = "save"]
    /\ UNCHANGED <<order, comment, trade, url>>

\* Mutant: the loop goes on after a payment.
CheckQueryGoesOn(r) ==
    /\ req[r].pc = "query"
    /\ trade[req[r].order_id] = "TRADE_CLOSED"
    /\ Reply(r, 4)
    /\ UNCHANGED <<order, comment, trade, url>>

\* alipay.api_alipay_trade_query: a payment leads to the save, anything but
\* an unknown (40004) or unpaid trade ends with reply 4.  In those two cases
\* the view sleeps and asks again: nothing changes.
CheckQuery(r) ==
    LET o == req[r].order_id IN
    /\ req[r].pc = "query"
    /\ \/ /\ trade[o] = "TRADE_SUCCESS"
          /\ req' = [req EXCEPT ![r].pc = "save"]
       \/ /\ trade[o] = "TRADE_CLOSED"
          /\ Reply(r, 4)
    /\ UNCHANGED <<order, comment, trade, url>>

\* Alipay answers the query with another error code.
QueryFails(r) ==
    /\ req[r].pc = "query"
    /\ Reply(r, 4)
    /\ UNCHANGED <<order, comment, trade, url>>

\* Mutant: the trade number is saved, the status is not.
CheckSaveUnset(r) ==
    LET o == req[r].order_id IN
    /\ req[r].pc = "save"
    /\ order' = [order EXCEPT ![o] = [req[r].order EXCEPT !.trade_no = o]]
    /\ Reply(r, 3)
    /\ UNCHANGED <<comment, trade, url>>

\* order.save() writes the row read by CheckGet, with the trade number and
\* status 4.
CheckSave(r) ==
    LET o == req[r].order_id IN
    /\ req[r].pc = "save"
    /\ order' = [order EXCEPT ![o] = [req[r].order EXCEPT !.order_status = 4,
                                                          !.trade_no = o]]
    /\ Reply(r, 3)
    /\ UNCHANGED <<comment, trade, url>>

\* CommentView.get: the form, with a field for every line of the order.  The
\* order page links it for status 4 only, but the view takes any order: an
\* address typed, bookmarked or opened in an old tab gets the form as well.
CommentForm(r, o) ==
    /\ req[r].pc = "idle"
    /\ req' = [req EXCEPT ![r] = [@ EXCEPT !.pc = "form", !.kind = "comment",
                                           !.order_id = o]]
    /\ UNCHANGED <<order, comment, trade, url>>

\* CommentView.post reads the order; it does not look at its status.
CommentGet(r) ==
    /\ req[r].pc = "form"
    /\ req' = [req EXCEPT ![r] = [@ EXCEPT !.pc = "lines", !.left = Lines,
                                           !.order = order[req[r].order_id]]]
    /\ UNCHANGED <<order, comment, trade, url>>

\* order_goods.save() for one line of the form.
CommentLine(r) ==
    /\ req[r].pc = "lines"
    /\ \E l \in req[r].left :
          /\ comment' = [comment EXCEPT ![req[r].order_id] = @ \cup {l}]
          /\ req' = [req EXCEPT ![r].left = @ \ {l}]
    /\ UNCHANGED <<order, trade, url>>

\* Mutant: the order is finished while lines are still to be saved.
CommentSaveEarly(r) ==
    LET o == req[r].order_id IN
    /\ req[r].pc = "lines"
    /\ order' = [order EXCEPT ![o] = [req[r].order EXCEPT !.order_status = 5]]
    /\ Reply(r, 5)
    /\ UNCHANGED <<comment, trade, url>>

\* Mutant: the form saves the lines, and the order as it read it.
CommentSaveUnset(r) ==
    /\ req[r].pc = "lines"
    /\ req[r].left = {}
    /\ order' = [order EXCEPT ![req[r].order_id] = req[r].order]
    /\ Reply(r, 5)
    /\ UNCHANGED <<comment, trade, url>>

\* order.save() with status 5, after the last line.
CommentSave(r) ==
    LET o == req[r].order_id IN
    /\ req[r].pc = "lines"
    /\ req[r].left = {}
    /\ order' = [order EXCEPT ![o] = [req[r].order EXCEPT !.order_status = 5]]
    /\ Reply(r, 5)
    /\ UNCHANGED <<comment, trade, url>>

\* The worker dies, or MySQL or the query fails with an exception.
Crash(r) ==
    /\ req[r].pc \notin {"idle", "done"}
    /\ Reply(r, ServerError)
    /\ UNCHANGED <<order, comment, trade, url>>

------------------------------------------------------------------------------
(* The buyer at Alipay.                                                     *)

OpenPayPage(o) ==
    /\ o \in url
    /\ trade[o] = "none"
    /\ trade' = [trade EXCEPT ![o] = "WAIT_BUYER_PAY"]
    /\ UNCHANGED <<order, comment, url, req>>

BuyerPays(o) ==
    /\ trade[o] = "WAIT_BUYER_PAY"
    /\ trade' = [trade EXCEPT ![o] = "TRADE_SUCCESS"]
    /\ UNCHANGED <<order, comment, url, req>>

TradeTimesOut(o) ==
    /\ trade[o] = "WAIT_BUYER_PAY"
    /\ trade' = [trade EXCEPT ![o] = "TRADE_CLOSED"]
    /\ UNCHANGED <<order, comment, url, req>>

------------------------------------------------------------------------------

\* The steps of a worker that serves a request.
View(r) ==
    \/ CheckGet(r)
    \/ CheckQuery(r)
    \/ CheckSave(r)
    \/ CommentGet(r)
    \/ CommentLine(r)
    \/ CommentSave(r)

Click(r) == Refuse(r) \/ \E o \in Orders : Pay(r, o) \/ CommentForm(r, o)

Buyer == \E o \in Orders : OpenPayPage(o) \/ BuyerPays(o) \/ TradeTimesOut(o)

Step(r) == Click(r) \/ View(r) \/ QueryFails(r) \/ Crash(r)

\* Every click has been answered.
Finished ==
    /\ \A r \in Requests : req[r].pc = "done"
    /\ UNCHANGED vars

Next == (\E r \in Requests : Step(r)) \/ Buyer \/ Finished

Spec == Init /\ [][Next]_vars

\* A worker that serves a request keeps running.
FairSpec == Spec /\ \A r \in Requests : WF_vars(View(r))

------------------------------------------------------------------------------
(* Properties.                                                              *)

Request == [pc: {"idle", "check", "query", "save", "form", "lines", "done"},
            kind: {"check", "comment", Nil}, order_id: Orders \cup {Nil},
            order: Row, left: SUBSET Lines, res: (0..5) \cup {ServerError, Nil}]

\* Every variable stays in the set of values the tables, Alipay and the
\* views' local variables can hold.
TypeOK ==
    /\ order \in [Orders -> Row]
    /\ comment \in [Orders -> SUBSET Lines]
    /\ trade \in [Orders -> Trades]
    /\ url \in SUBSET AlipayOrders
    /\ req \in [Requests -> Request]

Settled(o) == order[o].order_status >= 4

\* The accepted comment forms of order o whose post had read an order that was
\* still to be paid: the view finishes such an order all the same.
EarlyComments(o) ==
    {r \in Requests : /\ req[r].kind = "comment" /\ req[r].order_id = o
                      /\ req[r].res = 5 /\ req[r].order.order_status < 4}

\* No order gets past "to be paid" unless Alipay has the money, and it keeps
\* the number of the trade although checks and comments save whole rows they
\* read earlier.  The one exception is an order that such an early comment has
\* finished; a check that succeeds afterwards records the payment again.
SettledMeansPaid ==
    \A o \in Orders : Settled(o) =>
        \/ trade[o] = "TRADE_SUCCESS" /\ order[o].trade_no = o
        \/ order[o].order_status = 5 /\ EarlyComments(o) # {}

\* What the names of the states say: an order that is finished ("5: done")
\* went through "4: to be commented", that is, it was paid.  The form of an
\* unpaid order breaks it.
FinishedMeansPaid ==
    \A o \in Orders : order[o].order_status = 5 => trade[o] = "TRADE_SUCCESS"

\* A customer who was told that the payment succeeded does not find the
\* order unpaid again.
SuccessIsRecorded ==
    \A r \in Requests :
        req[r].kind = "check" /\ req[r].res = 3 => Settled(req[r].order_id)

\* A finished order has all its comments, also after a crash in the middle of
\* the form or when it is sent twice.
FinishedMeansCommented ==
    \A o \in Orders : order[o].order_status = 5 => comment[o] = Lines

\* The local variables l of a click make its coming saves safe.
HeldRowIsSafe(l) ==
    LET o == l.order_id IN
    /\ l.pc \notin {"idle", "done"} => o \in Orders /\ l.res = Nil
    /\ l.pc = "idle" => l = Idle
    /\ l.pc = "save" => trade[o] = "TRADE_SUCCESS"
    /\ l.pc \in {"check", "query", "save"} => l.kind = "check"
    /\ l.pc \in {"form", "lines"} => l.kind = "comment"
    /\ l.pc = "lines" =>
          /\ Lines \subseteq comment[o] \cup l.left
          /\ l.order.order_status >= 4 =>
                /\ Settled(o)
                /\ \/ trade[o] = "TRADE_SUCCESS" /\ l.order.trade_no = o
                   \/ EarlyComments(o) # {}
    /\ l.res = 3 => o \in Orders

\* What makes the rows that the views hold safe to save: a check saves only
\* after Alipay confirmed the payment, and a comment form that read a settled
\* order holds the trade number, unless an early comment had settled it.
HeldRowsAreSafe == \A r \in Requests : HeldRowIsSafe(req[r])

\* The inductive invariant behind the safety properties.
IndInv ==
    /\ TypeOK
    /\ SettledMeansPaid
    /\ SuccessIsRecorded
    /\ FinishedMeansCommented
    /\ HeldRowsAreSafe

\* Once the trade is decided at Alipay, a request that polls for it ends.
DecidedIsAnswered ==
    \A r \in Requests :
        req[r].pc = "query"
          /\ trade[req[r].order_id] \in {"TRADE_SUCCESS", "TRADE_CLOSED"}
        ~> req[r].pc = "done"

\* The checks of an order that were answered with success.
Succeeded(o) ==
    {c \in Requests : req[c].kind = "check" /\ req[c].res = 3 /\ req[c].order_id = o}

\* A check has succeeded, and another check or an early comment did as well.
SettledTwice(o) ==
    \E p \in Succeeded(o), q \in Succeeded(o) \cup EarlyComments(o) : p # q

\* "save the order status as finished": an order whose comments were accepted
\* stays finished, unless a check of it saved last although it had read the
\* order before it was paid: then another check, or an early comment, had
\* settled the order in between.  Nothing else takes an order past "to be
\* paid".
ReopenedOnlyByLateCheck ==
    /\ \A o \in Orders : Settled(o) => Succeeded(o) \cup EarlyComments(o) # {}
    /\ \A r \in Requests : req[r].kind = "comment" =>
          /\ req[r].order_id \in Orders
          /\ req[r].res = 5 =>
                \/ order[req[r].order_id].order_status = 5
                \/ SettledTwice(req[r].order_id)
==============================================================================
