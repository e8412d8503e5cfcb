-------------------------------- MODULE Legion --------------------------------
(****************************************************************************)
(* The Legion (core/legion.c): instances that announce themselves to each   *)
(* other over UDP and agree on a Lord, the one with the greatest valor.  A  *)
(* node elects itself when everybody it knows knows the same nodes and      *)
(* votes for it, and they make a quorum.                                    *)
(*                                                                          *)
(* An action is one turn of legion_loop.  Packets are external: a packet    *)
(* that is announced arrives at once, at each of the others or not, so it   *)
(* says what its sender holds now.  A checksum is the set of nodes it was   *)
(* computed from: uwsgi_legion_checksum adds up valors and the bytes of     *)
(* uuids, so two sets can have the same sum, which is left out.  A node     *)
(* that is started again has a new uuid and is another node; hooks and      *)
(* scrolls are left out, but for a lord hook that fails.                    *)
(****************************************************************************)
EXTENDS Integers, FiniteSets

CONSTANTS
    Member,             \* the nodes, numbered in the order of valor and uuid
    Arbiter,            \* those with valor 0
    Quorum,             \* ul->quorum
    None,               \* no node, no packet
    MaxFaults           \* bound: nodes lost from sight, killed, or failing as Lord

ASSUME LegionAssumption ==
    /\ Member \subseteq Nat \ {0} /\ IsFiniteSet(Member) /\ Arbiter \subseteq Member
    /\ None \notin Member /\ Quorum \in Nat /\ MaxFaults \in Nat
    /\ \A a \in Arbiter, n \in Member \ Arbiter : a < n

VARIABLES
    node,           \* the struct uwsgi_legion of each node
    faults

legionVars == <<node, faults>>

\* uwsgi_start_legions.  Nobody knows anybody, as when they start one by one.
\* known: for each other node, the checksum and the vote it announced last.
LegionInit ==
    /\ node = [n \in Member |->
                [up |-> TRUE, known |-> [m \in {} |-> None], chk |-> {}, lord |-> None,
                 is_lord |-> FALSE, dead |-> FALSE, suspended |-> FALSE]]
    /\ faults = 0

\* uwsgi_legion_get_lord: the best node of those it knows and itself.
Best(m, n) ==
    LET able == ({m} \cup DOMAIN n.known) \ Arbiter
    IN IF able = {} THEN m ELSE CHOOSE x \in able : \A y \in able : y =< x

\* legions_check_nodes_step2 up to the votes: one, and one for each node when
\* all of them agree, otherwise none.
Counted(m, n) ==
    LET best == Best(m, n)
        vote == IF best # m \/ (m \notin Arbiter /\ ~n.suspended) THEN best ELSE None
        view == {m} \cup DOMAIN n.known
    IN IF \A k \in DOMAIN n.known : n.known[k] = [chk |-> view, lord |-> vote]
       THEN Cardinality(view) ELSE 0
Candidate(m, n) == Best(m, n) = m /\ m \notin Arbiter /\ ~n.suspended

\* There is a quorum.
HasQuorum(m, n) == Counted(m, n) > 0 /\ Counted(m, n) >= Quorum

\* Mutant: a Lord stays one when there is a better node.
Step2Stays(m, n, warning) ==
    [n EXCEPT !.chk = {m} \cup DOMAIN n.known, !.lord = Best(m, n),
              !.is_lord = IF HasQuorum(m, n) THEN @ \/ Candidate(m, n)
                          ELSE @ /\ (Counted(m, n) = 0 \/ ~warning)]

\* The rest of step 2: the best node is the Lord when there is a quorum; without
\* one a Lord leaves when a minute has passed since the last warning, and when
\* the nodes do not agree nothing changes.
Step2(m, n, warning) ==
    [n EXCEPT !.chk = {m} \cup DOMAIN n.known, !.lord = Best(m, n),
              !.is_lord = IF HasQuorum(m, n) THEN Candidate(m, n)
                          ELSE @ /\ (Counted(m, n) = 0 \/ ~warning)]

Forget(known, x) == [k \in DOMAIN known \ {x} |-> known[k]]

\* The others when m has announced that it is dead; some hear it.
DeathHeard(m, heard, self) ==
    [k \in Member |-> IF k = m THEN self
                      ELSE IF k \in heard THEN [node[k] EXCEPT !.known = Forget(@, m)]
                      ELSE node[k]]

\* The end of a turn.  When a lord hook fails, the instance declares itself
\* dead and is suspended instead of becoming the Lord.
Settle(m, n, warning, fault) ==
    \/ /\ node' = [node EXCEPT ![m] = Step2(m, n, warning)]
       /\ faults' = faults + fault
    \/ /\ HasQuorum(m, n) /\ Candidate(m, n) /\ ~n.is_lord
       /\ \E heard \in SUBSET Member :
            node' = DeathHeard(m, heard, [Step2(m, n, warning) EXCEPT
                        !.is_lord = FALSE, !.dead = TRUE, !.suspended = TRUE])
       /\ faults' = faults + fault + 1

\* A turn after legion_freq seconds without a packet.
Turn(m) ==
    /\ node[m].up
    /\ \E warning \in BOOLEAN : Settle(m, node[m], warning, 0)

\* legions_check_nodes: a node not seen for legion_tolerance seconds is
\* dropped; a live one only if its packets are lost that long.
Expire(m, k) ==
    /\ node[m].up /\ k \in DOMAIN node[m].known
    /\ Settle(m, [node[m] EXCEPT !.known = Forget(@, k)], FALSE,
              IF node[k].up /\ ~node[k].dead THEN 1 ELSE 0)

\* uwsgi_legion_announce, silent while the node is suspended, and a packet that
\* arrives.  The dead are not taken in; a known one is dropped, and the turn
\* ends there.
Receive(m, k) ==
    /\ node[m].up /\ k # m /\ node[k].up /\ ~node[k].suspended
    /\ IF node[k].dead
       THEN /\ node' = [node EXCEPT ![m].known = Forget(@, k)]
            /\ UNCHANGED faults
       ELSE Settle(m, [node[m] EXCEPT !.known =
                        [x \in DOMAIN @ \cup {k} |->
                            IF x = k THEN [chk |-> node[k].chk, lord |-> node[k].lord] ELSE @[x]]],
                   FALSE, 0)

\* The suspension is over.  dead stays set.
SuspensionEnds(m) ==
    /\ node[m].up /\ node[m].suspended
    /\ node' = [node EXCEPT ![m].suspended = FALSE]
    /\ UNCHANGED faults

\* The instance is killed, or says that it ends and some hear it.
LegionStop(m) ==
    /\ node[m].up
    /\ \E heard \in SUBSET Member :
         node' = DeathHeard(m, heard, [node[m] EXCEPT !.up = FALSE, !.is_lord = FALSE])
    /\ faults' = faults + 1

LegionBound == faults' =< MaxFaults

LegionNext ==
    /\ \E m \in Member :
        \/ Turn(m)
        \/ \E k \in Member : Expire(m, k) \/ Receive(m, k)
        \/ SuspensionEnds(m) \/ LegionStop(m)
    /\ LegionBound

------------------------------------------------------------------------------
(* Properties.                                                              *)

Lords == {m \in Member : node[m].up /\ node[m].is_lord}
Alive == {m \in Member : node[m].up /\ ~node[m].dead}

Announced == [chk: SUBSET Member, lord: Member \cup {None}]
LegionNode ==
    [up: BOOLEAN, is_lord: BOOLEAN, dead: BOOLEAN, suspended: BOOLEAN, chk: SUBSET Member,
     lord: Member \cup {None}, known: UNION {[K -> Announced] : K \in SUBSET Member}]

LegionTypeOK ==
    /\ faults \in 0..MaxFaults /\ node \in [Member -> LegionNode]
    /\ \A m \in Member : m \notin DOMAIN node[m].known

\* "There can only be one (and only one) Lord": as long as no packets were lost
\* for long and no node has stopped, a second Lord is a successor that the
\* first one votes for itself, unless it votes for a still better node by now,
\* and the first one has not yet been told of the agreement.
TwoLordsOnlyInHandover ==
    faults = 0 => \A a, b \in Lords : a < b => b =< node[a].lord

\* Nothing is left to happen: no suspension runs, every node has heard the
\* present announcement of all the others and forgotten those that are gone,
\* and one more turn changes nothing.
AtRest ==
    /\ \A m \in Member : ~node[m].suspended
    /\ \A m \in Alive :
        /\ node[m].known = [k \in Alive \ {m} |-> [chk |-> node[k].chk, lord |-> node[k].lord]]
        /\ Step2(m, node[m], TRUE) = node[m]

\* A Legion at rest whose live nodes make a quorum has one Lord, the best of
\* them, whatever was lost, and whoever was Lord, before.  The exception is a
\* node that has declared itself dead after a failed hook: dead is never reset,
\* so the others do not take it in again when its suspension is over, but it
\* may make itself Lord with the votes it remembers, beside the new one.
AtRestOneLord ==
    LET able == Alive \ Arbiter IN
    AtRest /\ Cardinality(Alive) >= Quorum /\ able # {} =>
        Lords \cap Alive = {CHOOSE x \in able : \A y \in able : y =< x}

\* One Lord, but for the moment of a handover.
OneLord == LegionTypeOK /\ TwoLordsOnlyInHandover /\ AtRestOneLord
==============================================================================
