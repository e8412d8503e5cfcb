-------------------------------- MODULE Site --------------------------------
(****************************************************************************)
(* The user centre and the item pages together.  A request is served by one *)
(* view; the views share the session, the addresses and the rows of         *)
(* df_goods_sku: an account that is not active has no history and no        *)
(* address form, and the page of the user centre fails when the addresses   *)
(* or the history of the customer are in a state it does not expect.        *)
(****************************************************************************)
EXTENDS History, Address

siteVars == <<accountVars, historyVars, addressVars>>

SiteInit == AccountInit /\ HistoryInit /\ AddressInit

Unused(r) == "idle" = areq[r].pc /\ "idle" = hreq[r].pc /\ "idle" = dreq[r].pc

AccountStep ==
    /\ \/ \E r \in Requests : Unused(r) /\ AccountStart(r)
       \/ \E r \in Requests : AccountView(r)
       \/ AccountWorld
    /\ UNCHANGED <<historyVars, addressVars>>

\* LoginRequiredMixin sends a visitor without a session to the login page.
HistoryStep ==
    /\ \/ \E r \in Requests :
             /\ Unused(r)
             /\ \/ \E u \in Names : Detail(r, u, LoggedIn(u))
                \/ \E u \in Names : LoggedIn(u) /\ Info(r, u, Cardinality(Defaults(u)))
                \/ ListPage(r)
       \/ \E r \in Requests : HistoryView(r)
       \/ \E s \in Skus : DeleteSku(s)
    /\ UNCHANGED <<accountVars, addressVars>>

AddressStep ==
    /\ \/ \E r \in Requests : /\ Unused(r)
                              /\ \E u \in Names : LoggedIn(u) /\ AddressStart(r, u)
       \/ \E r \in Requests : AddressView(r)
    /\ UNCHANGED <<accountVars, historyVars>>

SiteNext == AccountStep \/ HistoryStep \/ AddressStep

SiteSpec == SiteInit /\ [][SiteNext]_siteVars

------------------------------------------------------------------------------
(* Properties.                                                              *)

\* Every table, Redis list and local variable keeps its type.
TypeOK == AccountTypeOK /\ HistoryTypeOK /\ AddressTypeOK

\* An account that was active at some time: started by a token, by the
\* administrator, or in the gap that a registration leaves open.
OpenedBy(l, u) ==
    /\ l.name = u
    /\ \/ TokenAccepted(l)
       \/ l.kind = "register" /\ l.pc # "create" /\ l.res \notin {"taken", "create"}

Opened(u) == u \in Customers \/ \E r \in Requests : OpenedBy(areq[r], u)

\* An entry in a history or an address belongs to an account that was active
\* when the view began, and so does what a view is about to write.
OnlyActiveUsersLeaveTraces ==
    /\ \A u \in Names : history[u] # <<>> \/ Rows(u) # {} => Opened(u)
    /\ \A r \in Requests : hreq[r].pc \in {"lrem", "lpush", "ltrim"} => Opened(hreq[r].user)
    /\ \A r \in Requests : dreq[r].pc = "create" => Opened(dreq[r].user)

\* Accounts, their names and what they leave behind stay consistent however
\* registrations overlap or break off.
AccountsAreSound ==
    /\ TypeOK /\ \A r \in Requests : AccountLocal(areq[r])
    /\ ActivatedByToken /\ NameRegisteredOnce /\ OnlyActiveUsersLeaveTraces
==============================================================================
