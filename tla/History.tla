------------------------------- MODULE History -------------------------------
(****************************************************************************)
(* The browsing history: DetailView.get pushes the item on the Redis list   *)
(* history_<user id> with lrem, lpush and ltrim, three commands that views  *)
(* of the same customer interleave; UserInfoView.get shows what is there.   *)
(* ListView pages through the same rows of df_goods_sku.                    *)
(****************************************************************************)
EXTENDS Account, Sequences, SequencesExt, FiniteSets, Pagination

CONSTANTS
    Skus,           \* items that customers look at and that may be deleted
    Others,         \* number of further items of the type
    Keep,           \* how many entries ltrim leaves: 5 in the code
    MaxPage         \* bound on the page number a client asks for

ASSUME HistoryAssumption ==
    /\ Keep \in Nat \ {0} /\ MaxPage \in Nat /\ Others \in Nat
    /\ IsFiniteSet(Skus) /\ Nil \notin {"list", "ltrim", "page", "EmptyPage"}

VARIABLES
    rows,           \* the ids of df_goods_sku
    history,        \* the Redis list of each customer
    hreq            \* local variables of each request

historyVars == <<rows, history, hreq>>

HistoryIdle == [pc |-> "idle", kind |-> Nil, user |-> Nil, goods_id |-> Nil,
                sku_ids |-> <<>>, page |-> 0, num_pages |-> 0, res |-> Nil,
                overlap |-> {}]    \* for the properties: pushes in progress at lrem

HistoryInit ==
    /\ rows = Skus
    /\ history = [u \in Names |-> <<>>]
    /\ hreq = [r \in Requests |-> HistoryIdle]

\* Mutant: the count and the value are swapped, and nothing is removed.
LRemSwapped(list, s) == list

\* Redis: lrem with count 0, and ltrim 0 n-1.
LRem(list, s) ==
    LET kept[i \in 0..Len(list)] ==
          IF i = 0 THEN <<>>
          ELSE IF list[i] = s THEN kept[i - 1] ELSE Append(kept[i - 1], list[i])
    IN kept[Len(list)]
LTrim(list, n) == SubSeq(list, 1, IF Len(list) < n THEN Len(list) ELSE n)

HAnswer(r, res) == hreq' = [hreq EXCEPT ![r] = [@ EXCEPT !.pc = "done", !.res = res]]

\* DetailView: an item without a row, or a visitor without a session, leaves
\* no entry.
Detail(r, u, loggedIn) ==
    /\ hreq[r].pc = "idle"
    /\ \E s \in Skus :
          hreq' = [hreq EXCEPT ![r] =
            [@ EXCEPT !.kind = "detail", !.user = u, !.goods_id = s,
                      !.pc = IF s \in rows /\ loggedIn THEN "lrem" ELSE "done",
                      !.res = IF s \notin rows THEN "redirect"
                              ELSE IF loggedIn THEN Nil ELSE "page"]]
    /\ UNCHANGED <<rows, history>>

\* The views of the same customer and item that are between lrem and lpush.
Pushing(r) ==
    {q \in Requests : /\ hreq[q].pc = "lpush" /\ hreq[q].user = hreq[r].user
                      /\ hreq[q].goods_id = hreq[r].goods_id}

\* conn.lrem(history_key, 0, goods_id)
Lrem(r) ==
    LET u == hreq[r].user
        pushing == Pushing(r) IN
    /\ hreq[r].pc = "lrem"
    /\ history' = [history EXCEPT ![u] = LRem(@, hreq[r].goods_id)]
    /\ hreq' = [q \in Requests |->
         IF q = r THEN [hreq[r] EXCEPT !.pc = "lpush", !.overlap = @ \cup pushing]
         ELSE IF q \in pushing THEN [hreq[q] EXCEPT !.overlap = @ \cup {r}]
         ELSE hreq[q]]
    /\ UNCHANGED rows

\* conn.lpush(history_key, goods_id)
Lpush(r) ==
    /\ hreq[r].pc = "lpush"
    /\ history' = [history EXCEPT ![hreq[r].user] = <<hreq[r].goods_id>> \o @]
    /\ hreq' = [hreq EXCEPT ![r].pc = "ltrim"]
    /\ UNCHANGED rows

\* Mutant: the list loses the entry at index 4 too.
LtrimEarly(r) ==
    /\ hreq[r].pc = "ltrim"
    /\ history' = [history EXCEPT ![hreq[r].user] = LTrim(@, Keep - 1)]
    /\ HAnswer(r, "page")
    /\ UNCHANGED rows

\* conn.ltrim(history_key, 0, 4) and the page.
Ltrim(r) ==
    /\ hreq[r].pc = "ltrim"
    /\ history' = [history EXCEPT ![hreq[r].user] = LTrim(@, Keep)]
    /\ HAnswer(r, "page")
    /\ UNCHANGED rows

\* UserInfoView: get_default_address raises when there are two, then comes
\* lrange 0 4, then one query per entry.
Info(r, u, defaults) ==
    /\ hreq[r].pc = "idle"
    /\ hreq' = [hreq EXCEPT ![r] =
         [@ EXCEPT !.kind = "info", !.user = u,
                   !.pc = IF defaults > 1 THEN "done" ELSE "lrange",
                   !.res = IF defaults > 1 THEN "MultipleObjectsReturned" ELSE Nil]]
    /\ UNCHANGED <<rows, history>>

Lrange(r) ==
    /\ hreq[r].pc = "lrange"
    /\ hreq' = [hreq EXCEPT ![r] = [@ EXCEPT !.pc = "rows",
                                             !.sku_ids = LTrim(history[hreq[r].user], Keep)]]
    /\ UNCHANGED <<rows, history>>

InfoItem(r) ==
    /\ hreq[r].pc = "rows"
    /\ IF hreq[r].sku_ids = <<>> THEN HAnswer(r, "page")
       ELSE IF Head(hreq[r].sku_ids) \notin rows THEN HAnswer(r, "DoesNotExist")
       ELSE hreq' = [hreq EXCEPT ![r].sku_ids = Tail(@)]
    /\ UNCHANGED <<rows, history>>

\* The answer to a request for a list, with the page and the number of pages.
ListAnswer(r, page, num, res) ==
    hreq' = [hreq EXCEPT ![r] = [@ EXCEPT !.kind = "list", !.pc = "done", !.page = page,
                                          !.num_pages = num, !.res = res]]

\* ListView: an unknown type is answered with a template named after the url of
\* the index page; otherwise come (as in UserOrderView, which has the same code)
\* the count, the checks of the page number and the links.
ListPage(r) ==
    /\ hreq[r].pc = "idle"
    /\ \/ ListAnswer(r, 0, 0, "TemplateDoesNotExist")
       \/ \E page \in 0..MaxPage :
             LET num == NumPages(Others + Cardinality(rows))
                 checked == CheckedPage(page, num) IN
             ListAnswer(r, checked, num,
                        IF PageExists(checked, num) THEN "page" ELSE "EmptyPage")
    /\ UNCHANGED <<rows, history>>

HistoryCrash(r) ==
    /\ hreq[r].pc \in {"lrem", "lpush", "ltrim", "lrange", "rows"}
    /\ hreq' = [hreq EXCEPT ![r] = [@ EXCEPT !.pc = "dead", !.res = hreq[r].pc]]
    /\ UNCHANGED <<rows, history>>

\* The administrator deletes an item.
DeleteSku(s) ==
    /\ s \in rows
    /\ rows' = rows \ {s}
    /\ UNCHANGED <<history, hreq>>

HistoryView(r) ==
    Lrem(r) \/ Lpush(r) \/ Ltrim(r) \/ Lrange(r) \/ InfoItem(r) \/ HistoryCrash(r)

------------------------------------------------------------------------------
(* Properties.                                                              *)

HistoryPCs == {"idle", "lrem", "lpush", "ltrim", "lrange", "rows", "done", "dead"}
HistoryKinds == {Nil, "detail", "info", "list"}
HistoryResults == {Nil, "page", "redirect", "MultipleObjectsReturned", "DoesNotExist", "EmptyPage",
                   "TemplateDoesNotExist",
                   "lrem", "lpush", "ltrim", "lrange", "rows"}
HistoryRequest ==
    [pc: HistoryPCs, kind: HistoryKinds, user: Names \cup {Nil},
     goods_id: Skus \cup {Nil}, sku_ids: Seq(Skus), page: Nat, num_pages: Nat,
     res: HistoryResults, overlap: SUBSET Requests]

HistoryTypeOK ==
    /\ rows \subseteq Skus
    /\ history \in [Names -> Seq(Skus)]
    /\ hreq \in [Requests -> HistoryRequest]

\* What the local variables l of a request say of each other at each step.
HistoryLocal(l) ==
    /\ l.pc = "idle" => l = HistoryIdle
    /\ l.pc \in {"lrem", "lpush", "ltrim", "lrange", "rows"} => l.user \in Names /\ l.res = Nil
    /\ l.pc \in {"lrem", "lpush", "ltrim"} => l.goods_id \in Skus
    /\ l.kind = "list" => l.pc \in {"idle", "done"}
    /\ l.res = "EmptyPage" => l.kind = "list"

\* Views that have pushed and not trimmed, or died there.
Untrimmed(u) ==
    {r \in Requests : hreq[r].user = u /\ "ltrim" \in {hreq[r].pc, hreq[r].res}}

\* "keep only five entries": the list is longer only by what views in
\* progress, or dead in between, have pushed.
HistoryBounded ==
    \A u \in Names : Len(history[u]) =< Keep + Cardinality(Untrimmed(u))

\* Two views of an item by a customer were between lrem and lpush at once.
Overlapped(u, s) ==
    \E q, r \in Requests :
        q \in hreq[r].overlap /\ hreq[r].user = u /\ hreq[r].goods_id = s

\* "first remove this entry": an item is in the history twice only when two
\* views of it overlapped; so it is there before a view pushes it, and two
\* views that are about to push it know of each other.
TwiceOnlyByRace ==
    /\ \A u \in Names : \A i, j \in DOMAIN history[u] :
          i # j /\ history[u][i] = history[u][j] => Overlapped(u, history[u][i])
    /\ \A r \in Requests : hreq[r].pc = "lpush" =>
          /\ \A i \in DOMAIN history[hreq[r].user] :
                history[hreq[r].user][i] = hreq[r].goods_id =>
                    Overlapped(hreq[r].user, hreq[r].goods_id)
          /\ \A q \in Pushing(r) : q # r => q \in hreq[r].overlap

\* An entry leaves the history when its item is viewed again or when Keep
\* newer ones have pushed it out, and not when its row is deleted: until then
\* the page of the user centre fails with DoesNotExist.
KeptUntilPushedOut ==
    [][\A u \in Names : \A s \in ToSet(history[u]) :
          \/ s \in ToSet(history'[u])
          \/ Len(history'[u]) >= Keep
          \/ \E r \in Requests : hreq[r].pc = "lrem" /\ hreq'[r].pc = "lpush"
                                   /\ hreq[r].goods_id = s]_history

\* A list page that is answered shows a window of links around a page that
\* exists, whatever the client asked for and however many items are left.
LinksAreAWindow ==
    \A r \in Requests :
        hreq[r].kind = "list" /\ hreq[r].res = "page" =>
            WindowOf(Pages(hreq[r].page, hreq[r].num_pages), hreq[r].page, hreq[r].num_pages)

\* Only a client that asks for page 0 gets the EmptyPage error: a list that
\* shrinks, even to nothing, gives no page that does not exist.
OnlyPageZeroFails ==
    \A r \in Requests : hreq[r].res = "EmptyPage" => hreq[r].page = 0

\* The history holds the last items, each once, but for overlapping views.
HistoryIsRecent ==
    (\A r \in Requests : HistoryLocal(hreq[r])) /\ HistoryBounded /\ TwiceOnlyByRace

\* A list page exists and has its window of links, unless page 0 is asked for.
ListPagesExist == LinksAreAWindow /\ OnlyPageZeroFails
==============================================================================
