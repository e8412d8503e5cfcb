------------------------------- MODULE Master -------------------------------
(****************************************************************************)
(* The master process of uWSGI: master_loop with its checks (death, reload, *)
(* chain reload, mercy, cheaper, harakiri), the burial and respawn of       *)
(* workers, the commands of the master fifo and the signal handlers, which  *)
(* may run between any two steps of the loop.                               *)
(****************************************************************************)
EXTENDS Worker

CONSTANTS
    CheaperCount,       \* --cheaper
    CheaperOverload,    \* --cheaper-overload
    MaxEvents           \* how many things happen from outside

ASSUME MasterAssumption ==
    /\ CheaperCount \in 1..NumProc
    /\ CheaperOverload \in Nat \ {0}
    /\ MaxEvents \in Nat

VARIABLES
    mpc,            \* where the master is in its loop
    dead,           \* thewid: the worker it has just buried
    status,         \* uwsgi.status
    cheap,          \* overload_count, idle_count and cheaper_fifo_delta
    others,         \* there are other children: spoolers, gateways, daemons
    late,           \* workers spawned although the instance reloads or dies
    orphaned        \* a running worker was replaced in its slot

masterVars == <<mpc, dead, status, cheap, others, late, orphaned>>
vars == <<workerVars, masterVars>>

Final == {"exited", "reloaded"}

Leaving == status.reloading \/ status.dying

Init ==
    /\ conf \in Configs
    /\ w = [i \in Wid |->
              LET on == ~conf.cheaper \/ i =< CheaperCount IN
              [pid |-> on, cheaped |-> ~on, accepting |-> on, in_request |-> FALSE,
               manage_next_request |-> on, cursed |-> "no", harakiri |-> "no"]]
    /\ proc = [i \in Wid |-> IF w[i].pid THEN [NoProcess EXCEPT !.at = "check"] ELSE NoProcess]
    /\ seen = {} /\ left = MaxEvents
    /\ mpc = "top" /\ dead = 0
    /\ status = [reloading |-> FALSE, dying |-> FALSE, chain_reloading |-> 0,
                 is_cheap |-> FALSE, listening |-> FALSE,
                 dying_for_need_app |-> FALSE]
    /\ cheap = [overload |-> 0, idle |-> 0, delta |-> 0]
    /\ others = conf.others
    /\ late = {} /\ orphaned = FALSE

------------------------------------------------------------------------------
(* The handlers, which curse and signal every worker the master knows of.   *)

CurseAll(slots, procs, sig) ==
    LET S == {i \in Wid : slots[i].pid} IN
    /\ w' = Cursed(slots, S)
    /\ proc' = Signalled(procs, S, sig)

\* A handler that returns at once.
Ignored(slots, procs) == w' = slots /\ proc' = procs /\ UNCHANGED others

\* kill_them_all (INT) and gracefully_kill_them_all (HUP).
KillThemAll(slots, procs, sig, st) ==
    /\ status' = [st EXCEPT !.dying = TRUE]
    /\ IF status.dying THEN Ignored(slots, procs)
       ELSE CurseAll(slots, procs, sig) /\ others' = FALSE

\* Mutant: only the workers that are accepting are cursed.
GraceAccepting ==
    LET S == {i \in Pids : w[i].accepting} IN
    IF Leaving THEN Ignored(w, proc) /\ UNCHANGED status
    ELSE /\ w' = Cursed(w, S)
         /\ proc' = Signalled(proc, S, "HUP")
         /\ status' = [status EXCEPT !.reloading = ~conf.lazy]
         /\ others' = (conf.lazy /\ others)

\* grace_them_all: with --lazy only the workers are reloaded.
GraceThemAll ==
    IF Leaving THEN Ignored(w, proc) /\ UNCHANGED status
    ELSE /\ CurseAll(w, proc, "HUP")
         /\ status' = [status EXCEPT !.reloading = ~conf.lazy]
         /\ others' = (conf.lazy /\ others)

ReapThemAll(slots, procs) ==
    /\ status' = [status EXCEPT !.reloading = TRUE]
    /\ IF status.reloading THEN Ignored(slots, procs)
       ELSE CurseAll(slots, procs, "TERM") /\ others' = FALSE

Handler(sig) ==
    CASE sig = "HUP" -> GraceThemAll
      [] sig = "TERM" -> ReapThemAll(w, proc)
      [] sig = "INT" -> KillThemAll(w, proc, "INT", status)

\* A signal reaches the master, at any point of its loop.
HandleSignal ==
    /\ mpc \notin Final
    /\ Event("signal")
    /\ \E sig \in {"HUP", "TERM", "INT"} : Handler(sig)
    /\ UNCHANGED <<conf, mpc, dead, cheap, late, orphaned>>

\* A worker that finds no application, with --need-app and --lazy-apps,
\* interrupts the master before it exits.
LoadFails(i) ==
    /\ mpc \notin Final
    /\ proc[i].at = "init"
    /\ Event("load")
    /\ KillThemAll(w, [proc EXCEPT ![i] = Exited(@, "failed")], "INT", status)
    /\ UNCHANGED <<conf, mpc, dead, cheap, late, orphaned>>

------------------------------------------------------------------------------
(* One round of the loop.                                                   *)

Previous == w[status.chain_reloading - 1]

\* The worker that the chain has respawned is still loading.
ChainWaits ==
    /\ status.chain_reloading > 1
    /\ Previous.pid /\ ~Previous.cheaped /\ ~Previous.accepting

ChainVictims ==
    {i \in status.chain_reloading..NumProc : w[i].pid /\ ~w[i].cheaped /\ w[i].accepting}

\* uwsgi_master_check_chain: where the chain stands after it.
ChainNext ==
    IF status.chain_reloading = 0 \/ ChainWaits THEN status.chain_reloading
    ELSE IF status.chain_reloading > NumProc THEN 0
    ELSE IF ChainVictims = {} THEN NumProc + 1
    ELSE CHOOSE i \in ChainVictims : \A j \in ChainVictims : i =< j

ChainCurses ==
    {i \in Wid : /\ status.chain_reloading \in Wid /\ ~ChainWaits
                 /\ i = ChainNext /\ i \in ChainVictims /\ w[i].cursed = "no"}

\* uwsgi_master_check_mercy.
NoMercy == {i \in Pids : w[i].cursed = "overdue"}

\* Death, reload, chain and mercy; then the test before uwsgi_calc_cheaper.
CheckTop ==
    /\ mpc = "top"
    /\ IF Leaving /\ Pids = {}
       THEN /\ mpc' = IF status.dying THEN "exited" ELSE "reloaded"
            /\ UNCHANGED <<w, proc, status>>
       ELSE /\ w' = Cursed(Cursed(w, ChainCurses), NoMercy)
            /\ proc' = Killed(Signalled(proc, ChainCurses, "HUP"), NoMercy)
            /\ status' = [status EXCEPT !.chain_reloading = ChainNext]
            /\ mpc' = IF conf.cheaper /\ ~status.is_cheap /\ ~Leaving
                      THEN "cheaper" ELSE "wait"
    /\ NoEvent /\ UNCHANGED <<conf, dead, cheap, others, late, orphaned>>

\* uwsgi_respawn_worker in the master; the fork may fail, and then the slot
\* is neither cheaped nor has it a process.
Spawn(slots, procs, S, failed) ==
    /\ w' = [i \in Wid |->
               IF i \in S THEN [slots[i] EXCEPT !.pid = (i \notin failed) \/ slots[i].pid,
                                                !.cheaped = FALSE, !.accepting = FALSE,
                                                !.cursed = "no", !.harakiri = "no"]
               ELSE slots[i]]
    /\ proc' = [i \in Wid |-> IF i \in S \ failed THEN [NoProcess EXCEPT !.at = "forked"]
                                                  ELSE procs[i]]
    /\ late' = IF Leaving THEN late \cup (S \ failed) ELSE late
    /\ orphaned' = (orphaned \/ \E i \in S \ failed : procs[i].at # "none")

SpawnOrFail(S) ==
    \/ NoEvent /\ Spawn(w, proc, S, {})
    \/ \E i \in S : Event("fork") /\ Spawn(w, proc, S, {i})

Active == {i \in Wid : ~w[i].cheaped /\ w[i].pid}
Busy == {i \in Active : w[i].in_request}
Spare == {i \in Wid : w[i].cheaped /\ ~w[i].pid}

\* The counters of the spare algorithm after it has looked at the workers.
Overload ==
    IF Active # Busy THEN IF cheap.overload > 0 THEN cheap.overload - 1 ELSE 0
    ELSE cheap.overload + 1

OneFree == Cardinality(Active) = Cardinality(Busy) + 1

Idles == ((IF Active = Busy THEN 0 ELSE cheap.idle) + 1) % CheaperOverload

TooMany == Cardinality(Active) > CheaperCount

\* uwsgi_cheaper_algo_spare: the workers it asks for, and its counters.
SpareAlgorithm ==
    IF Overload > CheaperOverload
    THEN [needed |-> IF Spare = {} THEN 0 ELSE 1,
          cheap |-> [cheap EXCEPT !.overload = 0, !.idle = 0]]
    ELSE IF Overload = 0 /\ ~OneFree
    THEN [needed |-> IF TooMany /\ Idles = 0 THEN -1 ELSE 0,
          cheap |-> [cheap EXCEPT !.overload = 0, !.idle = Idles]]
    ELSE [needed |-> 0,
          cheap |-> [cheap EXCEPT !.overload = Overload,
                                  !.idle = IF Active = Busy THEN 0 ELSE @]]

\* What the fifo asked for comes before the algorithm.
Wanted ==
    IF cheap.delta # 0
    THEN [needed |-> cheap.delta, cheap |-> [cheap EXCEPT !.delta = 0]]
    ELSE SpareAlgorithm

\* A free worker is told to stop before its next request; when all are busy
\* the wish goes back to the pool.
Retire(wish) ==
    IF Active = Busy
    THEN /\ cheap' = [wish.cheap EXCEPT !.delta = -1]
         /\ UNCHANGED <<w, proc>>
    ELSE /\ cheap' = wish.cheap
         /\ \E i \in Active \ Busy :
               /\ w' = [w EXCEPT ![i] = [@ EXCEPT !.cheaped = TRUE, !.cursed = "cursed",
                                                  !.manage_next_request = FALSE]]
               /\ proc' = Signalled(proc, {i}, "WINCH")

\* uwsgi_calc_cheaper, at most once per interval.
CalcCheaper ==
    /\ mpc = "cheaper"
    /\ mpc' = "wait"
    /\ \/ UNCHANGED <<w, proc, cheap, late, orphaned>> /\ NoEvent
       \/ /\ Wanted.needed > 0 /\ Spare # {}
          /\ cheap' = Wanted.cheap
          /\ SpawnOrFail({CHOOSE i \in Spare : \A j \in Spare : i =< j})
       \/ /\ Wanted.needed > 0 => Spare = {}
          /\ Wanted.needed >= 0
          /\ cheap' = Wanted.cheap
          /\ UNCHANGED <<w, proc, late, orphaned>> /\ NoEvent
       \/ Wanted.needed < 0 /\ Retire(Wanted) /\ UNCHANGED <<late, orphaned>> /\ NoEvent
    /\ UNCHANGED <<conf, dead, status, others>>

------------------------------------------------------------------------------
(* Somebody died.                                                           *)

Buried(i) == [w EXCEPT ![i] = [@ EXCEPT !.pid = FALSE, !.harakiri = "no"]]

\* What becomes of the slot of a worker that ended with code.
AfterDeath(i, code) ==
    LET slots == Buried(i)
        procs == [proc EXCEPT ![i] = NoProcess] IN
    IF code = "failed"
    THEN /\ KillThemAll(slots, procs, "INT", [status EXCEPT !.dying_for_need_app = TRUE])
         /\ mpc' = "top"
    ELSE IF Leaving
    THEN /\ Ignored([slots EXCEPT ![i].cursed = "no"], procs)
         /\ mpc' = "top" /\ UNCHANGED status
    ELSE IF code = "brutal"
    THEN /\ ReapThemAll(slots, procs)
         /\ mpc' = "top"
    ELSE LET cheaped == code = "cheap" \/ slots[i].cheaped IN
         /\ Ignored([slots EXCEPT ![i].cheaped = cheaped], procs)
         /\ mpc' = IF cheaped THEN "top" ELSE "respawn"
         /\ UNCHANGED status

\* waitpid finds a worker; before the respawn the master may sleep.
Reap ==
    /\ mpc = "wait"
    /\ \E i \in Wid :
          /\ proc[i].at = "zombie"
          /\ AfterDeath(i, proc[i].code)
          /\ dead' = IF mpc' = "respawn" THEN i ELSE 0
    /\ NoEvent /\ UNCHANGED <<conf, cheap, late, orphaned>>

\* Nobody died; without any child left the slots are cleared.
NobodyDied ==
    /\ mpc = "wait"
    /\ \A i \in Wid : proc[i].at # "zombie"
    /\ w' = IF ~others /\ \A i \in Wid : proc[i].at = "none"
            THEN [i \in Wid |-> [w[i] EXCEPT !.pid = FALSE]]
            ELSE w
    /\ mpc' = "events"
    /\ NoEvent /\ UNCHANGED <<conf, proc, dead, status, cheap, others, late, orphaned>>

\* Mutant: the chain does not notice that its worker has been replaced.
RespawnUnchained ==
    /\ mpc = "respawn"
    /\ SpawnOrFail({dead})
    /\ mpc' = "top" /\ dead' = 0
    /\ UNCHANGED <<conf, status, cheap, others>>

\* Mutant: the worker of the chain is not respawned.
RespawnSkipped ==
    /\ mpc = "respawn"
    /\ IF status.chain_reloading = dead
       THEN /\ status' = [status EXCEPT !.chain_reloading = @ + 1]
            /\ NoEvent /\ UNCHANGED <<w, proc, late, orphaned>>
       ELSE SpawnOrFail({dead}) /\ UNCHANGED status
    /\ mpc' = "top" /\ dead' = 0
    /\ UNCHANGED <<conf, cheap, others>>

\* The end of the loop; nothing is tested again after the sleep.
Respawn ==
    /\ mpc = "respawn"
    /\ status' = [status EXCEPT !.chain_reloading = IF @ = dead THEN @ + 1 ELSE @]
    /\ SpawnOrFail({dead})
    /\ mpc' = "top" /\ dead' = 0
    /\ UNCHANGED <<conf, cheap, others>>

------------------------------------------------------------------------------
(* Events and deadlines.                                                    *)

\* The commands of the fifo, and the touch files that call the same functions.
Fifo ==
    /\ \/ \E sig \in {"HUP", "INT"} :   \* uwsgi_reload_workers, and brutally
             /\ Event("fifo") /\ CurseAll(w, proc, sig)
             /\ UNCHANGED <<status, cheap, others>>
       \/ /\ Event("chain")             \* uwsgi_chain_reload
          /\ status' = [status EXCEPT !.chain_reloading = IF @ = 0 THEN 1 ELSE @]
          /\ UNCHANGED <<w, proc, cheap, others>>
       \/ /\ Event("fifo") /\ KillThemAll(w, proc, "HUP", status)
          /\ UNCHANGED cheap
       \/ \E d \in {1, -1} :            \* uwsgi_cheaper_increase and _decrease
             /\ conf.cheaper
             /\ cheap.delta + d \in -1..1
             /\ Event("delta")
             /\ cheap' = [cheap EXCEPT !.delta = @ + d]
             /\ UNCHANGED <<w, proc, status, others>>
    /\ UNCHANGED <<late, orphaned>>

\* uwsgi_go_cheap kills and waits for every worker and keeps the pids.
GoCheap ==
    /\ ~status.is_cheap
    /\ Event("go_cheap")
    /\ status' = [status EXCEPT !.is_cheap = TRUE, !.listening = TRUE]
    /\ w' = [i \in Wid |-> [w[i] EXCEPT !.cheaped = TRUE]]
    /\ proc' = [i \in Wid |-> IF w[i].pid THEN NoProcess ELSE proc[i]]
    /\ UNCHANGED <<cheap, others, late, orphaned>>

\* A connection while the master listens itself: the workers come back.
WakeUp ==
    /\ status.is_cheap /\ status.listening
    /\ status' = [status EXCEPT !.is_cheap = FALSE, !.listening = FALSE]
    /\ SpawnOrFail(1..(IF conf.cheaper THEN CheaperCount ELSE NumProc))
    /\ UNCHANGED <<cheap, others>>

\* uwsgi_master_check_idle: the workers get SIGINT, then SIGKILL, and are
\* waited for; with die-on-idle the instance ends instead.
CheckIdle ==
    /\ ~status.is_cheap
    /\ Busy = {}
    /\ Event("idle")
    /\ \/ /\ status' = [status EXCEPT !.is_cheap = TRUE, !.listening = TRUE]
          /\ w' = [i \in Wid |-> [w[i] EXCEPT !.cheaped = TRUE, !.pid = FALSE]]
          /\ proc' = [i \in Wid |-> IF w[i].pid THEN NoProcess ELSE proc[i]]
          /\ UNCHANGED others
       \/ KillThemAll(w, proc, "INT", [status EXCEPT !.is_cheap = TRUE])
    /\ UNCHANGED <<cheap, late, orphaned>>

Overdue == {i \in Wid : w[i].harakiri = "overdue"}

\* uwsgi_master_check_workers_deadline: harakiri, and the lifetime of a worker.
CheckDeadlines ==
    /\ \/ proc' = Killed(proc, Overdue \cap Pids) /\ NoEvent /\ UNCHANGED w
       \/ \E i \in Active :
             /\ w[i].manage_next_request
             /\ Event("lifetime")
             /\ w' = [w EXCEPT ![i].manage_next_request = FALSE]
             /\ proc' = Signalled(Killed(proc, Overdue \cap Pids), {i}, "WINCH")
    /\ UNCHANGED <<status, cheap, others, late, orphaned>>

\* event_queue_wait returns with an event, or because a second has passed.
Tasks ==
    /\ mpc = "events"
    /\ Fifo \/ GoCheap \/ WakeUp \/ CheckIdle \/ CheckDeadlines
    /\ mpc' = "top"
    /\ UNCHANGED <<conf, dead>>

LoopStep ==
    CheckTop \/ CalcCheaper \/ Reap \/ NobodyDied \/ Respawn \/ Tasks

Gone ==
    /\ mpc \in Final
    /\ UNCHANGED vars

Next ==
    \/ LoopStep \/ HandleSignal \/ Gone
    \/ \E i \in Wid : LoadFails(i)
    \/ \E i \in Wid : mpc \notin Final /\ WorkerStep(i) /\ UNCHANGED masterVars

\* The kernel schedules the master, starts, wakes and kills workers, and
\* time passes.  A request need never end.
Fairness ==
    /\ WF_vars(LoopStep)
    /\ \A i \in Wid :
          /\ WF_vars(StartWorker(i) /\ UNCHANGED masterVars)
          /\ WF_vars(Ignition(i) /\ UNCHANGED masterVars)
          /\ WF_vars(LoopCheck(i) /\ UNCHANGED masterVars)
          /\ WF_vars(Deliver(i) /\ UNCHANGED masterVars)
          /\ WF_vars(MercyExpires(i) /\ UNCHANGED masterVars)

Spec == Init /\ [][Next]_vars /\ Fairness

------------------------------------------------------------------------------
(* Properties.                                                              *)

\* The slots, the processes and the state of the master keep their types.
TypeOK ==
    /\ conf \in Configs
    /\ w \in [Wid -> Slot] /\ proc \in [Wid -> Process]
    /\ left \in 0..MaxEvents /\ seen \subseteq EventKinds
    /\ mpc \in {"top", "cheaper", "wait", "respawn", "events"} \cup Final
    /\ dead \in 0..NumProc
    /\ status \in [reloading: BOOLEAN, dying: BOOLEAN, chain_reloading: 0..(NumProc + 1),
                   is_cheap: BOOLEAN, listening: BOOLEAN,
                   dying_for_need_app: BOOLEAN]
    /\ cheap \in [overload: 0..CheaperOverload, idle: 0..(CheaperOverload - 1), delta: -1..1]
    /\ others \in BOOLEAN /\ late \subseteq Wid /\ orphaned \in BOOLEAN

\* The slots tell the truth about the processes: every worker process has its
\* pid recorded, no worker is replaced while it is still there, and a pid
\* without a process is left behind by uwsgi_go_cheap alone, which waits for
\* the workers it kills without clearing their slots.
SlotsMatchProcesses ==
    /\ ~orphaned
    /\ \A i \in Wid : /\ proc[i].at # "none" => w[i].pid
                      /\ w[i].pid /\ proc[i].at = "none" => "go_cheap" \in seen

\* A worker that is gone is replaced: as long as the instance neither reloads
\* nor dies, a slot that is not cheaped has a worker, unless the fork failed,
\* after which nothing fills the slot again.
EmptySlotOnlyByForkFailure ==
    mpc = "top" /\ ~Leaving =>
        \A i \in Wid : w[i].pid \/ w[i].cheaped \/ "fork" \in seen

\* "as soon as all of the workers have pid == 0, the action (exit, or reload)
\* is triggered": while the instance reloads or dies every worker is cursed,
\* so that mercy ends.  The exception is a worker spawned after the signal:
\* the master was between the test for reloading or dying and the respawn,
\* or it woke up from cheap mode.
SurvivorOnlyBySpawnRace ==
    Leaving => \A i \in Wid : Alive(proc[i]) /\ w[i].cursed = "no" => i \in late

\* A chain reload takes the workers down one at a time: as long as nothing
\* else happens, at most one is not accepting requests.
ChainOneAtATime ==
    status.chain_reloading > 0 /\ seen = {"chain"} /\ ~conf.cheaper =>
        Cardinality({i \in Wid : proc[i].at \notin {"check", "wait", "request"}}) =< 1

\* The spare algorithm never cheaps more workers than --cheaper allows; only
\* the fifo, an idle instance and a worker that exits with the go-cheap code
\* do.
CheaperCountKept ==
    conf.cheaper /\ seen \cap {"go_cheap", "idle", "delta", "cheap"} = {} =>
        Cardinality({i \in Wid : ~w[i].cheaped}) >= CheaperCount

\* A reload or a shutdown ends: every worker that does not stop in time is
\* killed.  The late worker of SurvivorOnlyBySpawnRace keeps it from ending.
ShutdownEnds == Leaving ~> (mpc \in Final \/ late # {})

\* A chain reload gets to its end, whatever dies on the way.
ChainEnds == status.chain_reloading > 0 ~> (status.chain_reloading = 0 \/ Leaving)

\* A request that exceeds its harakiri is ended, by itself or by SIGKILL; only
\* go_cheap leaves the deadline of a worker it has killed.
HarakiriStrikes ==
    \A i \in Wid : w[i].harakiri = "overdue" ~> (w[i].harakiri # "overdue" \/ "go_cheap" \in seen)

\* The master knows every worker: its pid, and its deadline when the instance
\* reloads or dies, but for a worker spawned too late.
WorkersAreKnown == TypeOK /\ SlotsMatchProcesses /\ SurvivorOnlyBySpawnRace

\* Enough workers are left to serve requests: the dead are replaced, a chain
\* reload takes one at a time, and cheaper stops at its minimum.
EnoughWorkers == EmptySlotOnlyByForkFailure /\ ChainOneAtATime /\ CheaperCountKept

\* What the master has begun it brings to an end: reload and shutdown, chain
\* reload, and the end of overdue requests.
OperationsEnd == ShutdownEnds /\ ChainEnds /\ HarakiriStrikes
==============================================================================
