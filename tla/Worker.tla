------------------------------- MODULE Worker -------------------------------
(****************************************************************************)
(* A worker process of uWSGI and its slot in shared memory.  A worker is    *)
(* forked, loads the application, and then waits for requests and serves    *)
(* them one at a time (one thread, no async mode).  What the master knows   *)
(* of it is the record uwsgi.workers[i], which both write without a lock.   *)
(****************************************************************************)
EXTENDS Integers, FiniteSets

CONSTANTS
    NumProc,        \* uwsgi.numproc
    Configs         \* the configurations to be checked

Wid == 1..NumProc

EventKinds == {"signal", "fifo", "chain", "delta", "go_cheap", "idle", "death", "cheap",
               "load", "fork", "harakiri", "lifetime"}

ConfigType == [cheaper: BOOLEAN, lazy: BOOLEAN, others: BOOLEAN, events: SUBSET EventKinds]

ASSUME WorkerAssumption == NumProc \in Nat \ {0} /\ Configs \subseteq ConfigType

VARIABLES
    conf,           \* cheaper, lazy, other children; the events that may happen
    w,              \* uwsgi.workers: what master and workers share
    proc,           \* the processes, by slot
    seen,           \* the kinds of events that have happened
    left            \* how many more may happen

workerVars == <<conf, w, proc, seen, left>>

Signals == {"HUP", "INT", "TERM", "WINCH"}
Running == {"forked", "init", "check", "wait", "request"}
Codes == {"end", "failed", "brutal", "cheap"}

Slot == [pid: BOOLEAN, cheaped: BOOLEAN, accepting: BOOLEAN, in_request: BOOLEAN,
         manage_next_request: BOOLEAN, cursed: {"no", "cursed", "overdue"},
         harakiri: {"no", "armed", "overdue"}]

\* flags: what the process itself believes about the instance, code: how it
\* ended.
Process == [at: Running \cup {"none", "zombie"}, sig: SUBSET Signals,
            flags: SUBSET {"reloading", "dying"}, code: Codes]

NoProcess == [at |-> "none", sig |-> {}, flags |-> {}, code |-> "end"]

Alive(p) == p.at \in Running

Pids == {i \in Wid : w[i].pid}

\* Something from outside: of the kinds of this configuration, and at most
\* MaxEvents times.
Event(e) ==
    /\ left > 0 /\ e \in conf.events
    /\ left' = left - 1
    /\ seen' = seen \cup {e}

NoEvent == UNCHANGED <<left, seen>>

\* uwsgi_curse of every slot in S, and the signal that goes with it.
Cursed(slots, S) ==
    [i \in Wid |-> IF i \in S THEN [slots[i] EXCEPT !.cursed = "cursed"] ELSE slots[i]]

Signalled(procs, S, sig) ==
    [i \in Wid |-> IF i \in S /\ Alive(procs[i])
                   THEN [procs[i] EXCEPT !.sig = @ \cup {sig}] ELSE procs[i]]

Exited(p, code) == [NoProcess EXCEPT !.at = "zombie", !.code = code]

\* SIGKILL, which no process sees.
Killed(procs, S) ==
    [i \in Wid |-> IF i \in S /\ Alive(procs[i]) THEN Exited(procs[i], "end") ELSE procs[i]]

Ends(i, code) == proc' = [proc EXCEPT ![i] = Exited(@, code)]

Goes(i, place) == proc' = [proc EXCEPT ![i].at = place]

------------------------------------------------------------------------------

\* The child's half of uwsgi_respawn_worker.
StartWorker(i) ==
    /\ proc[i].at = "forked"
    /\ w' = [w EXCEPT ![i] = [@ EXCEPT !.manage_next_request = TRUE, !.in_request = FALSE]]
    /\ Goes(i, "init")
    /\ NoEvent /\ UNCHANGED conf

\* uwsgi_worker_run and uwsgi_ignition: the application is loaded, the
\* worker gets signal handlers of its own and is marked as accepting.
Ignition(i) ==
    /\ proc[i].at = "init"
    /\ w' = [w EXCEPT ![i].accepting = TRUE]
    /\ proc' = [proc EXCEPT ![i] = [@ EXCEPT !.at = "check", !.flags = {}]]
    /\ NoEvent /\ UNCHANGED conf

\* The condition of simple_loop_run, tested again by wsgi_req_accept.
LoopCheck(i) ==
    /\ proc[i].at = "check"
    /\ IF w[i].manage_next_request THEN Goes(i, "wait") ELSE Ends(i, "end")
    /\ NoEvent /\ UNCHANGED <<conf, w>>

\* wsgi_req_recv.
AcceptRequest(i) ==
    /\ proc[i].at = "wait"
    /\ w' = [w EXCEPT ![i] = [@ EXCEPT !.in_request = TRUE, !.harakiri = "armed"]]
    /\ Goes(i, "request")
    /\ NoEvent /\ UNCHANGED conf

\* uwsgi_close_request; a worker that has served max_requests, or grown too
\* big, curses itself and exits.
CloseRequest(i) ==
    /\ proc[i].at = "request"
    /\ \/ /\ w' = [w EXCEPT ![i] = [@ EXCEPT !.in_request = FALSE, !.harakiri = "no"]]
          /\ Goes(i, "check")
          /\ NoEvent
       \/ /\ w' = [w EXCEPT ![i] = [@ EXCEPT !.in_request = FALSE, !.harakiri = "no",
                                             !.cursed = "cursed",
                                             !.manage_next_request = FALSE]]
          /\ Ends(i, "end")
          /\ Event("lifetime")
    /\ UNCHANGED conf

\* The application crashes, or exits with a code the master knows.
AppDies(i) ==
    /\ proc[i].at \in {"init", "request"}
    /\ \/ Ends(i, "cheap") /\ Event("cheap")
       \/ \E code \in {"brutal", "end"} : Ends(i, code) /\ Event("death")
    /\ UNCHANGED <<conf, w>>

\* Until uwsgi_worker_run installs gracefully_kill and end_me, a child has
\* the handlers of the master: grace_them_all, kill_them_all, reap_them_all
\* run in the child and signal every worker of the instance.
InheritedHandler(i, sig) ==
    LET p == proc[i]
        deaf == CASE sig = "HUP" -> p.flags # {}
                  [] sig = "TERM" -> "reloading" \in p.flags
                  [] OTHER -> "dying" \in p.flags
        told == CASE sig = "HUP" -> IF conf.lazy THEN {} ELSE {"reloading"}
                  [] sig = "TERM" -> {"reloading"}
                  [] OTHER -> {"dying"}
        heard == [proc EXCEPT ![i] = [p EXCEPT !.sig = @ \ {sig}, !.flags = @ \cup told]]
    IN IF deaf
       THEN /\ proc' = [proc EXCEPT ![i].sig = @ \ {sig}]
            /\ UNCHANGED w
       ELSE /\ proc' = Signalled(heard, Pids, sig)
            /\ w' = Cursed(w, Pids)

\* gracefully_kill (HUP), end_me (INT, TERM), worker_wakeup (WINCH).
OwnHandler(i, sig) ==
    LET p == [proc[i] EXCEPT !.sig = @ \ {sig}] IN
    \/ /\ sig = "HUP"
       /\ w' = [w EXCEPT ![i].manage_next_request = FALSE]
       /\ proc' = [proc EXCEPT ![i] = IF w[i].in_request THEN p ELSE Exited(p, "end")]
    \/ /\ sig \in {"INT", "TERM"}
       /\ proc' = [proc EXCEPT ![i] = Exited(p, "end")]
       /\ UNCHANGED w
    \/ /\ sig = "WINCH"
       /\ proc' = [proc EXCEPT ![i] = [p EXCEPT !.at = IF @ = "wait" THEN "check" ELSE @]]
       /\ UNCHANGED w

Deliver(i) ==
    /\ \E sig \in proc[i].sig :
          \/ /\ proc[i].at \in {"forked", "init"}
             /\ IF sig = "WINCH"
                THEN /\ proc' = [proc EXCEPT ![i].sig = @ \ {sig}]
                     /\ UNCHANGED w
                ELSE InheritedHandler(i, sig)
          \/ /\ proc[i].at \notin {"forked", "init"}
             /\ OwnHandler(i, sig)
    /\ NoEvent /\ UNCHANGED conf

\* Time passes: the harakiri of a request, the mercy of a cursed worker.
HarakiriExpires(i) ==
    /\ w[i].harakiri = "armed"
    /\ w' = [w EXCEPT ![i].harakiri = "overdue"]
    /\ Event("harakiri") /\ UNCHANGED <<conf, proc>>

MercyExpires(i) ==
    /\ w[i].pid /\ w[i].cursed = "cursed"
    /\ w' = [w EXCEPT ![i].cursed = "overdue"]
    /\ NoEvent /\ UNCHANGED <<conf, proc>>

WorkerStep(i) ==
    \/ StartWorker(i) \/ Ignition(i)
    \/ LoopCheck(i) \/ AcceptRequest(i) \/ CloseRequest(i)
    \/ AppDies(i) \/ Deliver(i)
    \/ HarakiriExpires(i) \/ MercyExpires(i)
==============================================================================
