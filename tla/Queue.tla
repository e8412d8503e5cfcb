-------------------------------- MODULE Queue --------------------------------
(****************************************************************************)
(* The queue in shared memory (core/queue.c): a ring of slots with two      *)
(* positions.  A slot is empty when its size is 0.  The callers hold the    *)
(* write lock, so a call is one step; but a worker can be killed in the     *)
(* middle of any call, and as the lock is released for it (see Lock) the    *)
(* others go on with what it left.  A message without content, or too big   *)
(* for a slot, is refused and changes nothing.                              *)
(****************************************************************************)
EXTENDS Integers, Sequences

CONSTANTS
    Message, Nothing,
    QueueSize           \* uwsgi.queue_size

ASSUME QueueAssumption == QueueSize \in Nat \ {0} /\ Nothing \notin Message

VARIABLES
    slots,          \* the message in each slot
    pos,            \* queue_header->pos, where the next push goes
    pull_pos,       \* queue_header->pull_pos
    answer,         \* what the last pull or pop returned
    misused         \* what the callers have done that a deque does not do

queueVars == <<slots, pos, pull_pos, answer, misused>>

Slot0 == 0..(QueueSize - 1)

\* Where a position can be.  A worker that is killed before it wraps the
\* position around leaves it behind the last slot, which is QueueSize; that a
\* second one is killed at the same place, leaving it further away, is left out.
Position == 0..QueueSize

\* What a call may find at position p, and what the slots are after it has
\* written x there.  Behind the last slot is memory that is no part of the ring.
Found(p) == IF p \in Slot0 THEN {slots[p]} ELSE Message \cup {Nothing}
Written(p, x) == IF p \in Slot0 THEN [slots EXCEPT ![p] = x] ELSE slots

Misuses == {"overflow", "emptypop", "set", "killed"}

QueueInit ==
    /\ slots = [i \in Slot0 |-> Nothing]
    /\ pos = 0 /\ pull_pos = 0
    /\ answer = Nothing /\ misused = {}

\* A position wraps around at the end of the ring.
After(i) == IF i + 1 >= QueueSize THEN 0 ELSE i + 1

\* Mutant: the position stops at the last slot.
QueuePushStuck ==
    /\ \E m \in Message : slots' = Written(pos, m)
    /\ pos' = IF pos + 1 < QueueSize THEN pos + 1 ELSE pos
    /\ misused' = IF Found(pos) # {Nothing} THEN misused \cup {"overflow"} ELSE misused
    /\ UNCHANGED <<pull_pos, answer>>

\* uwsgi_queue_push; nobody looks whether the slot is empty.
QueuePush ==
    /\ \E m \in Message : slots' = Written(pos, m)
    /\ pos' = After(pos)
    /\ misused' = IF Found(pos) # {Nothing} THEN misused \cup {"overflow"} ELSE misused
    /\ UNCHANGED <<pull_pos, answer>>

\* The worker is killed after it has written the slot, or has also moved the
\* position but not yet compared it with the size of the ring.
QueuePushKilled ==
    /\ \E m \in Message : slots' = Written(pos, m)
    /\ pos' \in {pos, pos + 1} \cap Position
    /\ misused' = misused \cup {"killed"}
    /\ UNCHANGED <<pull_pos, answer>>

\* uwsgi_queue_pull.
QueuePull ==
    /\ answer' \in Found(pull_pos)
    /\ IF answer' = Nothing THEN UNCHANGED <<slots, pull_pos>>
       ELSE /\ pull_pos' = After(pull_pos)
            /\ slots' = Written(pull_pos, Nothing)
    /\ UNCHANGED <<pos, misused>>

\* The worker is killed after it has moved the position: the slot is still
\* full; or after it has emptied the slot: nobody gets the message.
QueuePullKilled ==
    /\ Found(pull_pos) # {Nothing}
    /\ \/ /\ pull_pos' \in {pull_pos + 1, After(pull_pos)} \cap Position
          /\ UNCHANGED slots
       \/ /\ pull_pos' = After(pull_pos)
          /\ slots' = Written(pull_pos, Nothing)
    /\ misused' = misused \cup {"killed"}
    /\ UNCHANGED <<pos, answer>>

\* Where a pop finds the newest message.
Last == (pos + QueueSize - 1) % QueueSize

\* uwsgi_queue_pop, which moves the position even when there is nothing.
QueuePop ==
    /\ pos' = Last
    /\ answer' = slots[Last]
    /\ slots' = [slots EXCEPT ![Last] = Nothing]
    /\ misused' = IF slots[Last] = Nothing THEN misused \cup {"emptypop"} ELSE misused
    /\ UNCHANGED pull_pos

\* The worker is killed before, or after, it has emptied the slot.
QueuePopKilled ==
    /\ pos' = Last
    /\ slots' \in {slots, [slots EXCEPT ![Last] = Nothing]}
    /\ misused' = misused \cup {"killed"}
    /\ UNCHANGED <<pull_pos, answer>>

\* uwsgi_queue_set; one that is killed has written the slot as well.  It also
\* accepts messages that run over into the next slot, which is left out.
QueueSet ==
    /\ \E i \in Slot0, m \in Message : slots' = [slots EXCEPT ![i] = m]
    /\ misused' = misused \cup {"set"}
    /\ UNCHANGED <<pos, pull_pos, answer>>

QueueNext ==
    \/ QueuePush \/ QueuePull \/ QueuePop \/ QueueSet
    \/ QueuePushKilled \/ QueuePullKilled \/ QueuePopKilled

------------------------------------------------------------------------------
(* Properties.                                                              *)

QueueTypeOK ==
    /\ slots \in [Slot0 -> Message \cup {Nothing}]
    /\ pos \in Position /\ pull_pos \in Position
    /\ answer \in Message \cup {Nothing} /\ misused \subseteq Misuses

\* The slot i places after slot p.
Place(p, i) == (p + i) % QueueSize

\* The messages in the slots s from p on, up to the first empty slot.
RingLength(s, p) ==
    LET full == {n \in 0..QueueSize : \A i \in 0..(n - 1) : s[Place(p, i)] # Nothing}
    IN CHOOSE n \in full : \A k \in full : k =< n

Ring(s, p) == [i \in 1..RingLength(s, p) |-> s[Place(p, i - 1)]]

Abstract == INSTANCE Deque WITH deque <- Ring(slots, pull_pos), broken <- (misused # {})

\* A message that was pushed can be pulled: as long as the queue has not been
\* misused, every full slot is between the two positions.  A pop of an empty
\* queue is enough to hide what is pushed afterwards.
NothingHidden ==
    misused = {} => \A i \in Slot0 : slots[i] # Nothing =>
        \E n \in 0..(RingLength(slots, pull_pos) - 1) : i = Place(pull_pos, n)

\* The n slots from p on are full and the others are not.
Stretch(s, p, n) == \A i \in Slot0 : s[Place(p, i)] # Nothing <=> i < n

\* The inductive invariant: as long as the queue has not been misused, the full
\* slots are one stretch of the ring, and the next push goes behind it.
QueueInv ==
    /\ QueueTypeOK
    /\ misused = {} =>
          /\ pull_pos \in Slot0
          /\ \E n \in 0..QueueSize :
                Stretch(slots, pull_pos, n) /\ pos = Place(pull_pos, n)

\* The ring is a double-ended queue, until a push overwrites a message that
\* nobody has pulled, a pop finds nothing, a slot is set directly, or a worker
\* is killed in the middle of a call; and no message is hidden in it.
QueueIsDeque == Abstract!Spec /\ [](QueueInv /\ NothingHidden)
==============================================================================
