-------------------------------- MODULE Deque --------------------------------
(****************************************************************************)
(* What the queue of uWSGI promises as long as it has not been misused: a   *)
(* double-ended queue.  push appends, pull takes the oldest message, pop    *)
(* the newest; what a call returns is in answer.                            *)
(****************************************************************************)
EXTENDS Integers, Sequences

CONSTANTS Message, Nothing

VARIABLES deque, answer, broken

Init == deque = <<>> /\ answer = Nothing /\ broken = FALSE

Push ==
    /\ \E m \in Message : deque' = Append(deque, m)
    /\ UNCHANGED <<answer, broken>>

Pull ==
    /\ IF deque = <<>> THEN answer' = Nothing /\ UNCHANGED deque
       ELSE answer' = Head(deque) /\ deque' = Tail(deque)
    /\ UNCHANGED broken

Pop ==
    /\ deque # <<>>
    /\ answer' = deque[Len(deque)]
    /\ deque' = SubSeq(deque, 1, Len(deque) - 1)
    /\ UNCHANGED broken

\* A call that the promise does not cover; after it everything may happen.
Break == broken' = TRUE

Next == Break \/ Pull \/ Push \/ Pop

Spec == Init /\ [][Next]_<<deque, answer, broken>>
==============================================================================
