------------------------------ MODULE Services -------------------------------
(****************************************************************************)
(* Five services of uWSGI that several processes or instances share: the    *)
(* locks with their deadlock detector, the queue, the spooler, the Legion   *)
(* and the subscriptions of a router.  They have no state in common, so a   *)
(* behaviour is a behaviour of one of them, chosen at the start, while the  *)
(* others rest.                                                             *)
(****************************************************************************)
EXTENDS Lock, Queue, Spooler, Legion, Router

VARIABLE service

vars == <<service, lockVars, queueVars, spoolerVars, legionVars, routerVars>>

Init ==
    /\ service \in {"lock", "queue", "spooler", "legion", "router"}
    /\ LockInit /\ QueueInit /\ SpoolerInit /\ LegionInit /\ RouterInit
    /\ service # "lock" => kind = "mutex"
    /\ service # "router" => algo = "wrr"
    /\ service # "spooler" => \A t \in Task : ~file[t].at

restOfLock == <<service, queueVars, spoolerVars, legionVars, routerVars>>
restOfQueue == <<service, lockVars, spoolerVars, legionVars, routerVars>>
restOfSpooler == <<service, lockVars, queueVars, legionVars, routerVars>>
restOfLegion == <<service, lockVars, queueVars, spoolerVars, routerVars>>
restOfRouter == <<service, lockVars, queueVars, spoolerVars, legionVars>>

\* A step of the spooler.
InSpooler(A) == service = "spooler" /\ A /\ UNCHANGED restOfSpooler

Next ==
    \/ service = "lock" /\ LockNext /\ UNCHANGED restOfLock
    \/ service = "queue" /\ QueueNext /\ UNCHANGED restOfQueue
    \/ InSpooler(SpoolerNext)
    \/ service = "legion" /\ LegionNext /\ UNCHANGED restOfLegion
    \/ service = "router" /\ RouterNext /\ UNCHANGED restOfRouter

\* A writer that is not killed goes on, a spooler is scheduled and scans again
\* after at most spooler_frequency seconds, the master starts a dead one, and
\* the time of every task comes.
SpoolerFairness ==
    /\ \A t \in Task : WF_vars(InSpooler(WriterStep(t))) /\ WF_vars(InSpooler(Due(t)))
    /\ \A s \in Spooler : WF_vars(InSpooler(SpoolerStep(s)))

Spec == Init /\ [][Next]_vars /\ SpoolerFairness

\* Every file with a header is removed in the end: its task has been done, or
\* its arguments were missing.  The empty file of a writer that was killed
\* before the header stays for ever.
EveryTaskEnds ==
    \A t \in Task :
        service = "spooler" /\ writer[t] \in {"closed", "killed"}
        /\ file[t].linked /\ file[t].content # "empty"
            ~> ~file[t].linked
==============================================================================
