-------------------------------- MODULE Router --------------------------------
(****************************************************************************)
(* The subscription system (core/subscription.c) in a router                *)
(* (plugins/corerouter): backends announce themselves for a key, the router *)
(* keeps them in a list and picks one for each session, with one of three   *)
(* algorithms.  A backend that is gone is marked dead, and removed when no  *)
(* session refers to it any more.                                           *)
(*                                                                          *)
(* One process, one key and no fallback; the hash table of keys, signatures *)
(* and SNI are left out.  How many requests a backend had last time only    *)
(* breaks ties, either way.  Time is external: a backend becomes silent     *)
(* when subscription_tolerance seconds pass without an announcement.        *)
(****************************************************************************)
EXTENDS Integers, Sequences, FiniteSets

CONSTANTS
    Backend, NoBackend,
    Session,
    Heavy,              \* the backends that announce weight 2, the others 1
    Watched,            \* the backend whose turns are counted
    MaxRetries          \* ucr->max_retries

ASSUME RouterAssumption ==
    /\ IsFiniteSet(Backend) /\ NoBackend \notin Backend /\ IsFiniteSet(Session)
    /\ Heavy \subseteq Backend /\ Watched \in Backend /\ MaxRetries \in Nat

VARIABLES
    algo,           \* uwsgi.subscription_algo
    nodes,          \* the list of nodes of the slot
    session,        \* the peers: the node of each, and its retries
    cheap,          \* ucr->i_am_cheap, in a router with ucr->cheap
    passed,         \* how many picks in a row passed over Watched, with wrr
    least           \* the last pick was a live node with the least references

routerVars == <<algo, nodes, session, cheap, passed, least>>

Idle == [at |-> "idle", un |-> NoBackend, retries |-> 0]

RouterInit ==
    /\ algo \in {"wrr", "lrc", "wlrc"}
    /\ nodes = <<>>
    /\ session = [s \in Session |-> Idle]
    /\ cheap = TRUE
    /\ passed = 0 /\ least = TRUE

Names(list) == {list[i].name : i \in 1..Len(list)}
IndexOf(list, b) == CHOOSE i \in 1..Len(list) : list[i].name = b
LiveIn(list) == {i \in 1..Len(list) : list[i].life # "dead"}

\* The list without the node of b: those behind it move up.
Without(list, b) ==
    [i \in 1..(Len(list) - 1) |-> list[IF i < IndexOf(list, b) THEN i ELSE i + 1]]

\* References divided by weight, without fractions.
Cost(n) == IF algo = "wlrc" THEN (2 * n.ref) \div n.weight ELSE 2 * n.ref

------------------------------------------------------------------------------
(* uwsgi_get_subscribe_node: the list afterwards and the index picked, or 0. *)

\* A node that has been silent is marked; one that is marked and not in use is
\* removed.  The loop over the list does this to its first n nodes.
Marked(n) == [n EXCEPT !.life = IF @ = "silent" THEN "dead" ELSE @]
Kept(list, n) == {i \in 1..Len(list) : i > n \/ Marked(list[i]).life # "dead" \/ list[i].ref > 0}

\* The rank of i in S: its place once only the members of S are left.
Rank(S, i) == Cardinality({j \in S : j =< i})

Swept(list, n) ==
    LET kept == Kept(list, n)
    IN [k \in 1..Cardinality(kept) |->
          LET i == CHOOSE i \in kept : Rank(kept, i) = k
          IN IF i > n THEN list[i] ELSE Marked(list[i])]

\* Mutant: the minimum is not kept, so the last live node is picked.
LeastForgets(list, fewer) == CHOOSE i \in LiveIn(list) : \A j \in LiveIn(list) : j =< i

\* uwsgi_subscription_algo_lrc and _wlrc, second step: the loop over the list,
\* which stops early at a node without references.  A turn of the loop, at node
\* i, from what it was before.
Looked(list, fewer, was, i) ==
    LET c == Cost(list[i])
        goOn == i < Len(list) /\ Cost(list[i + 1]) =< c /\ i \in fewer
    IN IF was.stop \/ i \notin LiveIn(list) \/ (was.min # 0 /\ c >= was.min) THEN was
       ELSE [min |-> c, at |-> i, stop |-> c = 0 /\ ~goOn]

Least(list, fewer) ==
    LET scan[i \in 0..Len(list)] ==
          IF i = 0 THEN [min |-> 0, at |-> 0, stop |-> FALSE]
          ELSE Looked(list, fewer, scan[i - 1], i)
    IN scan[Len(list)].at

\* uwsgi_subscription_algo_wrr, second step: every live node gets its share.
Refilled(list) ==
    LET weights == {list[i].weight : i \in LiveIn(list)}
        min == CHOOSE w \in weights : \A v \in weights : w =< v
    IN [i \in 1..Len(list) |-> IF i \notin LiveIn(list) THEN list[i]
                               ELSE [list[i] EXCEPT !.wrr = list[i].weight \div min]]

LastOf(S) == CHOOSE i \in S : \A j \in S : j =< i
FirstOf(S) == CHOOSE i \in S : \A j \in S : i =< j
NoneIn(list) == [list |-> list, at |-> 0]

\* Both steps.  In the first one the list is swept up to the node picked.
Pick(list, fewer) ==
    LET ready == {i \in 1..Len(list) :
                    algo = "wrr" /\ Marked(list[i]).life # "dead" /\ list[i].wrr > 0}
        first == FirstOf(ready)
        swept == Swept(list, Len(list))
        live == LiveIn(swept)
    IN IF ready # {} THEN [list |-> Swept(list, first - 1), at |-> Rank(Kept(list, first - 1), first)]
       ELSE IF live = {} THEN NoneIn(swept)
       ELSE IF algo = "wrr" THEN [list |-> Refilled(swept), at |-> LastOf(live)]
       ELSE [list |-> swept, at |-> Least(swept, fewer)]

\* The node picked gets a reference, and loses one of its turns.
Taken(n) == [n EXCEPT !.ref = @ + 1, !.wrr = IF algo = "wrr" THEN @ - 1 ELSE @]

\* uwsgi_cr_map_use_subscription for session s, with the list as it is now; a
\* session that gets no backend is closed, and a router without nodes goes
\* cheap.
Map(s, list, retries) ==
    \E fewer \in IF algo = "wrr" THEN {{}} ELSE SUBSET (1..Len(list) - 1) :
        LET p == Pick(list, fewer)
            i == p.at
            b == p.list[i].name
            turn == Watched # b /\ \E j \in LiveIn(p.list) :
                        p.list[j].name = Watched /\ p.list[j].life = "live"
        IN IF i = 0
           THEN /\ nodes' = p.list
                /\ session' = [session EXCEPT ![s] = Idle]
                /\ cheap' = (p.list = <<>>)
                /\ UNCHANGED <<passed, least>>
           ELSE /\ nodes' = [p.list EXCEPT ![i] = Taken(p.list[i])]
                /\ session' = [session EXCEPT ![s] =
                                [at |-> "connecting", un |-> b, retries |-> retries]]
                /\ passed' = IF algo = "wrr" /\ turn THEN passed + 1 ELSE 0
                /\ least' = (i \in LiveIn(p.list) /\
                             (algo # "wrr" => \A j \in LiveIn(p.list) : Cost(p.list[i]) =< Cost(p.list[j])))
                /\ UNCHANGED cheap

------------------------------------------------------------------------------

\* The first request of a session.
Request(s) ==
    /\ session[s].at = "idle" /\ ~cheap
    /\ Map(s, nodes, 0)
    /\ UNCHANGED algo

\* A peer that is connected does not try again.
Connect(s) ==
    /\ session[s].at = "connecting"
    /\ session' = [session EXCEPT ![s] = [@ EXCEPT !.at = "connected", !.retries = 0]]
    /\ UNCHANGED <<algo, nodes, cheap, passed, least>>

\* corerouter_close_session, and corerouter_close_peer without an error.
Close(s) ==
    /\ session[s].at # "idle"
    /\ nodes' = [nodes EXCEPT ![IndexOf(nodes, session[s].un)].ref = @ - 1]
    /\ session' = [session EXCEPT ![s] = Idle]
    /\ UNCHANGED <<algo, cheap, passed, least>>

\* Mutant: a node that fails is removed although others use it.
FailedEarly(list, b) == Without(list, b)

\* A node that fails is marked, and removed if nobody uses it.
Failed(list, b) ==
    IF list[IndexOf(list, b)].ref = 0 THEN Without(list, b)
    ELSE [list EXCEPT ![IndexOf(list, b)].life = "dead"]

\* corerouter_close_peer when the connection fails or times out, or when a
\* connected peer has an error: the node is marked, and a peer that was still
\* connecting tries again with another one.
PeerFails(s) ==
    LET b == session[s].un
        list == Failed([nodes EXCEPT ![IndexOf(nodes, b)].ref = @ - 1], b)
        retries == session[s].retries
    IN /\ session[s].at # "idle"
       /\ IF session[s].at = "connecting" /\ retries < MaxRetries
          THEN Map(s, list, retries + 1)
          ELSE /\ nodes' = list
               /\ session' = [session EXCEPT ![s] = Idle]
               /\ cheap' = (cheap \/ list = <<>>)
               /\ UNCHANGED <<passed, least>>
       /\ UNCHANGED algo

\* uwsgi_add_subscribe_node for an announcement; the router leaves cheap mode.
Subscribe(b) ==
    LET weight == IF b \in Heavy THEN 2 ELSE 1
        known == b \in Names(nodes) /\ nodes[IndexOf(nodes, b)].life # "dead"
    IN /\ nodes' = IF b \in Names(nodes)
                   THEN [nodes EXCEPT ![IndexOf(nodes, b)] =
                           [@ EXCEPT !.life = "live", !.weight = weight]]
                   ELSE Append(nodes, [name |-> b, weight |-> weight, wrr |-> 0, ref |-> 0,
                                       life |-> "live"])
       /\ cheap' = FALSE
       /\ passed' = IF b = Watched /\ ~known THEN 0 ELSE passed
       /\ UNCHANGED <<algo, session, least>>

\* The other command of uwsgi_corerouter_manage_subscription.
Unsubscribe(b) ==
    /\ b \in Names(nodes)
    /\ nodes' = Failed(nodes, b)
    /\ cheap' = (nodes' = <<>>)
    /\ UNCHANGED <<algo, session, passed, least>>

\* A backend has not announced itself for too long; nothing changes for one
\* that is marked already.
Silence(b) ==
    /\ b \in Names(nodes)
    /\ nodes[IndexOf(nodes, b)].life = "live"
    /\ nodes' = [nodes EXCEPT ![IndexOf(nodes, b)].life = "silent"]
    /\ UNCHANGED <<algo, session, cheap, passed, least>>

RouterNext ==
    \/ \E s \in Session : Request(s) \/ Connect(s) \/ Close(s) \/ PeerFails(s)
    \/ \E b \in Backend : Unsubscribe(b) \/ Silence(b) \/ Subscribe(b)

------------------------------------------------------------------------------
(* Properties.                                                              *)

RouterTypeOK ==
    /\ algo \in {"wrr", "lrc", "wlrc"} /\ cheap \in BOOLEAN /\ least \in BOOLEAN
    /\ nodes \in Seq([name: Backend, weight: {1, 2}, wrr: 0..2, ref: 0..Cardinality(Session),
                      life: {"live", "silent", "dead"}])
    /\ session \in [Session -> [at: {"idle", "connecting", "connected"},
                                un: Backend \cup {NoBackend}, retries: 0..MaxRetries]]

\* Every session that has a backend finds its node in the list, once, and the
\* references of a node are the sessions that use it: no node is freed while a
\* session points to it, and none is kept for ever.
ReferencesMatchSessions ==
    /\ Cardinality(Names(nodes)) = Len(nodes)
    /\ \A s \in Session : session[s].un \in Names(nodes) \cup {NoBackend}
    /\ \A i \in 1..Len(nodes) :
         nodes[i].ref = Cardinality({s \in Session : session[s].un = nodes[i].name})

\* A node that is marked dead is not picked, and by lrc and wlrc no other live
\* node has fewer references (for its weight), although their loop takes a
\* minimum of 0 for no minimum.
PicksTheLeast == least

\* Round robin starves nobody: whatever nodes come and go, a live node is passed
\* over at most as often as the others have turns left and get new ones, which
\* is twice the shares of the others.
NobodyStarves == passed =< 2 * (Cardinality(Backend \ {Watched}) + Cardinality(Heavy \ {Watched}))

\* The router sleeps exactly when it has no node at all.
CheapIffNoNodes == cheap = (nodes = <<>>)

\* The list of nodes agrees with the sessions and with the sleep of the router.
NodesAreSound == RouterTypeOK /\ ReferencesMatchSessions /\ CheapIffNoNodes

\* Sessions go to live nodes, the least loaded or the next in turn.
FairPicks == PicksTheLeast /\ NobodyStarves
===============================================================================
