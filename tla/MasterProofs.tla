---------------------------- MODULE MasterProofs ----------------------------
(****************************************************************************)
(* Theorems about the master and the workers of uWSGI, for every number of  *)
(* workers and of events: what the slots say of the processes, who survives *)
(* a reload, and how many workers are left.                                 *)
(*                                                                          *)
(* MasterInv is the inductive invariant.  SlotsInv says what is true of     *)
(* each slot and its process; ChainInv that in a chain reload all workers   *)
(* are steady but one, which is doomed or starting; CheaperInv that without *)
(* the fifo only the spare algorithm wishes for fewer workers.              *)
(****************************************************************************)
EXTENDS Master, FiniteSetTheorems, WellFoundedInduction, TLAPS

\* What is true of a slot at any time.  A pid without a process was left by
\* uwsgi_go_cheap, in a slot that is cheaped until it is forked into again.
SlotOK(i, s, p) ==
    /\ p.at # "none" => s.pid
    /\ s.pid /\ p.at = "none" =>
          "go_cheap" \in seen /\ (s.cheaped \/ "fork" \in seen)
    /\ p.code = "cheap" => "cheap" \in seen
    /\ ~Leaving => s.pid \/ s.cheaped \/ "fork" \in seen \/ (mpc = "respawn" /\ dead = i)
    /\ Leaving /\ Alive(p) /\ s.cursed = "no" => i \in late
    /\ mpc = "respawn" /\ dead = i => p.at = "none" /\ ~s.pid
    /\ status.listening => p.at = "none"
    /\ Alive(p) \/ p.sig = {}

\* The slots; only the worker that was buried last is respawned, and a master
\* that listens itself has no worker.
SlotsInv ==
    /\ \A i \in Wid : SlotOK(i, w[i], proc[i])
    /\ ~orphaned
    /\ mpc = "respawn" => dead # 0 /\ ~status.listening
    /\ status.listening => status.is_cheap /\ mpc # "cheaper"

\* A worker that serves requests and is not to be replaced.
Steady(s, p) ==
    /\ s.pid /\ ~s.cheaped /\ s.accepting /\ s.manage_next_request /\ s.cursed = "no"
    /\ p.at \in {"check", "wait", "request"} /\ p.sig = {} /\ p.code = "end"
    /\ s.harakiri # "overdue"

\* The one that the chain has cursed, until it is respawned ...
Doomed(i, s, p) ==
    /\ ~s.cheaped /\ s.cursed # "no" /\ status.chain_reloading = i
    /\ \/ /\ mpc # "respawn" \/ dead # i
          /\ s.pid /\ s.accepting /\ p.code = "end" /\ p.sig \subseteq {"HUP"}
          /\ p.at \in {"check", "wait", "request", "zombie"}
       \/ mpc = "respawn" /\ dead = i /\ p.at = "none"

\* ... and its successor, until it accepts requests.
Starting(i, s, p) ==
    /\ s.pid /\ ~s.cheaped /\ ~s.accepting /\ s.cursed = "no" /\ s.harakiri # "overdue"
    /\ status.chain_reloading = i + 1
    /\ p.sig = {} /\ p.code = "end"
    /\ p.at = "forked" \/ (p.at = "init" /\ s.manage_next_request)

\* A chain reload, as long as nothing else happens.
ChainInv ==
    seen \subseteq {"chain"} /\ ~conf.cheaper =>
        /\ ~Leaving /\ ~status.is_cheap /\ ~status.listening /\ mpc # "cheaper"
        /\ \A i \in Wid : \/ Steady(w[i], proc[i])
                          \/ Doomed(i, w[i], proc[i])
                          \/ Starting(i, w[i], proc[i])
        /\ \A i, j \in Wid : i # j => Steady(w[i], proc[i]) \/ Steady(w[j], proc[j])

\* Cheaper: without the fifo nothing is wished for.
CheaperInv ==
    /\ "delta" \notin seen => cheap.delta = 0
    /\ CheaperCountKept

\* The inductive invariant.
MasterInv == TypeOK /\ SlotsInv /\ ChainInv /\ CheaperInv
------------------------------------------------------------------------------
(* Steps after which a slot is used as before.                              *)

\* t is s, or s cursed.
SameSlot(s, t) ==
    /\ t.pid <=> s.pid
    /\ t.cheaped <=> s.cheaped
    /\ t.cursed = "no" => s.cursed = "no"

\* q is there as p is, is not alive again, and gets no signals when it is not.
SameProc(p, q) ==
    /\ q.at = "none" <=> p.at = "none"
    /\ Alive(q) => Alive(p)
    /\ Alive(p) \/ p.sig = {} => Alive(q) \/ q.sig = {}

\* What the events may do, and what nobody undoes.
EventsGo ==
    /\ seen \subseteq seen' /\ seen' \subseteq EventKinds
    /\ left' \in 0..MaxEvents /\ conf' = conf

\* A step after which every slot is used as before.
Quiet ==
    /\ \A i \in Wid : SameSlot(w[i], w'[i]) /\ SameProc(proc[i], proc'[i])
    /\ \A i \in Wid : proc'[i].code = "cheap" => proc[i].code = "cheap" \/ "cheap" \in seen'
    /\ seen \subseteq seen' /\ conf' = conf

\* The slots stay sound when the workers are there as before, if all that are
\* alive are cursed when the instance begins to reload or to die.
LEMMA QuietSlots ==
    ASSUME SlotsInv, Quiet,
           mpc' = mpc \/ (mpc # "respawn" /\ mpc' # "respawn"),
           dead' = dead, late' = late, orphaned' = orphaned,
           status'.listening <=> status.listening, status.is_cheap => status'.is_cheap,
           mpc' = "cheaper" => mpc = "cheaper" \/ ~status.is_cheap, Leaving => Leaving',
           ~Leaving /\ Leaving' => \A i \in Wid : Alive(proc'[i]) => w'[i].cursed # "no"
    PROVE SlotsInv'
<1>1. ASSUME NEW i \in Wid PROVE SlotOK(i, w[i], proc[i])' 
  <2>1. SlotOK(i, w[i], proc[i]) /\ SameSlot(w[i], w'[i]) /\ SameProc(proc[i], proc'[i])
    BY DEF SlotsInv, Quiet
  <2>2. proc'[i].code = "cheap" => proc[i].code = "cheap" \/ "cheap" \in seen'
    BY DEF Quiet
  <2>3. seen \subseteq seen'
    BY DEF Quiet
  <2> QED BY <2>1, <2>2, <2>3 DEF SlotOK, SameSlot, SameProc
<1> QED BY <1>1 DEF SlotsInv

\* Cheaper has the workers that it had.
LEMMA QuietCheaper ==
    ASSUME CheaperInv, Quiet, cheap' = cheap
    PROVE CheaperInv'
<1>1. {i \in Wid : ~w'[i].cheaped} = {i \in Wid : ~w[i].cheaped}
  BY DEF Quiet, SameSlot
<1>2. seen \subseteq seen' /\ conf' = conf
  BY DEF Quiet
<1> QED BY <1>1, <1>2 DEF CheaperInv, CheaperCountKept

\* A chain reload goes on, as long as each worker stays what it is in it or has
\* begun to accept requests.
LEMMA QuietChain ==
    ASSUME ChainInv, seen \subseteq seen', conf' = conf,
           mpc' = mpc, dead' = dead, status' = status,
           \A i \in Wid : seen' \subseteq {"chain"} /\ ~conf.cheaper =>
              /\ Steady(w[i], proc[i]) => Steady(w'[i], proc'[i])
              /\ Doomed(i, w[i], proc[i]) => Doomed(i, w'[i], proc'[i])
              /\ Starting(i, w[i], proc[i]) =>
                    Starting(i, w'[i], proc'[i]) \/ Steady(w'[i], proc'[i])
    PROVE ChainInv'
<1> SUFFICES ASSUME seen' \subseteq {"chain"}, ~conf.cheaper
             PROVE /\ ~Leaving' /\ ~status'.is_cheap /\ ~status'.listening
                   /\ mpc' # "cheaper"
                   /\ \A i \in Wid : \/ Steady(w'[i], proc'[i])
                                     \/ Doomed(i, w[i], proc[i])'
                                     \/ Starting(i, w[i], proc[i])'
                   /\ \A i, j \in Wid : i # j =>
                         Steady(w'[i], proc'[i]) \/ Steady(w'[j], proc'[j])
  BY DEF ChainInv, Steady
<1>1. /\ ~Leaving /\ ~status.is_cheap /\ ~status.listening /\ mpc # "cheaper"
      /\ \A i \in Wid : \/ Steady(w[i], proc[i])
                        \/ Doomed(i, w[i], proc[i])
                        \/ Starting(i, w[i], proc[i])
      /\ \A i, j \in Wid : i # j => Steady(w[i], proc[i]) \/ Steady(w[j], proc[j])
  BY DEF ChainInv
<1>2. \A i \in Wid : /\ Doomed(i, w'[i], proc'[i]) => Doomed(i, w[i], proc[i])'
                     /\ Starting(i, w'[i], proc'[i]) => Starting(i, w[i], proc[i])'
  BY DEF Doomed, Starting
<1> QED BY <1>1, <1>2 DEF Leaving

\* A step of one worker.
LEMMA WorkerMoves ==
    ASSUME MasterInv, NEW i \in Wid, NEW s, NEW p, NEW t \in Slot, NEW q \in Process,
           s = w[i], p = proc[i],
           w' = [w EXCEPT ![i] = t], proc' = [proc EXCEPT ![i] = q],
           EventsGo, UNCHANGED masterVars,
           SameSlot(s, t), SameProc(p, q),
           q.code = "cheap" => p.code = "cheap" \/ "cheap" \in seen',
           seen' \subseteq {"chain"} /\ ~conf.cheaper =>
              /\ Steady(s, p) => Steady(t, q)
              /\ Doomed(i, s, p) => Doomed(i, t, q)
              /\ Starting(i, s, p) => Starting(i, t, q) \/ Steady(t, q)
    PROVE MasterInv'
<1>1. /\ w \in [Wid -> Slot] /\ proc \in [Wid -> Process] /\ SlotsInv /\ ChainInv /\ CheaperInv
  BY DEF MasterInv, TypeOK
<1>2. /\ w' \in [Wid -> Slot] /\ proc' \in [Wid -> Process]
      /\ w'[i] = t /\ proc'[i] = q
      /\ \A j \in Wid : j # i => w'[j] = w[j] /\ proc'[j] = proc[j]
  BY <1>1
<1>3. TypeOK'
  BY <1>2 DEF MasterInv, TypeOK, EventsGo, masterVars
<1>4. Quiet
  BY <1>2 DEF Quiet, EventsGo, SameSlot, SameProc
<1>5. SlotsInv'
  BY <1>1, <1>4, QuietSlots DEF masterVars, Leaving
<1>6. CheaperInv'
  BY <1>1, <1>4, QuietCheaper DEF masterVars
<1>7. ChainInv'
  <2>1. \A j \in Wid : seen' \subseteq {"chain"} /\ ~conf.cheaper =>
          /\ Steady(w[j], proc[j]) => Steady(w'[j], proc'[j])
          /\ Doomed(j, w[j], proc[j]) => Doomed(j, w'[j], proc'[j])
          /\ Starting(j, w[j], proc[j]) =>
                Starting(j, w'[j], proc'[j]) \/ Steady(w'[j], proc'[j])
    BY <1>2
  <2> QED BY <1>1, <2>1, QuietChain DEF masterVars, EventsGo
<1> QED BY <1>3, <1>5, <1>6, <1>7 DEF MasterInv

\* An event that is counted, and a step without one.
LEMMA EventGoes ==
    ASSUME TypeOK, NEW e \in EventKinds, Event(e), conf' = conf
    PROVE EventsGo /\ e \in seen'
BY MasterAssumption DEF Event, EventsGo, TypeOK

\* A step in which nothing happens from outside.
LEMMA NoEventGoes ==
    ASSUME TypeOK, NoEvent, conf' = conf
    PROVE EventsGo
BY DEF NoEvent, EventsGo, TypeOK

------------------------------------------------------------------------------
(* The steps of a worker.                                                   *)

\* A worker starts, loads the application and tests its loop.
LEMMA StartSteps ==
    ASSUME MasterInv, NEW i \in Wid, UNCHANGED masterVars,
           StartWorker(i) \/ Ignition(i) \/ LoopCheck(i)
    PROVE MasterInv'
<1>0. TypeOK /\ w \in [Wid -> Slot] /\ proc \in [Wid -> Process]
  BY DEF MasterInv, TypeOK
<1>1. PICK s \in Slot : s = w[i]
  BY <1>0
<1>2. PICK p \in Process : p = proc[i]
  BY <1>0
<1>3. EventsGo
  BY <1>0, NoEventGoes DEF StartWorker, Ignition, LoopCheck
<1>4. CASE StartWorker(i)
  <2>1. PICK t : t = [s EXCEPT !.manage_next_request = TRUE, !.in_request = FALSE]
    OBVIOUS
  <2>2. PICK q : q = [p EXCEPT !.at = "init"]
    OBVIOUS
  <2>3. w' = [w EXCEPT ![i] = t] /\ proc' = [proc EXCEPT ![i] = q] /\ p.at = "forked"
    BY <1>4, <1>1, <1>2, <2>1, <2>2 DEF StartWorker, Goes
  <2>4. t \in Slot /\ SameSlot(s, t)
    BY <2>1 DEF Slot, SameSlot
  <2>5. q \in Process /\ SameProc(p, q) /\ q.code = p.code
    BY <2>2, <2>3 DEF Process, SameProc, Alive, Running
  <2>6. /\ ~Steady(s, p) /\ ~Doomed(i, s, p)
        /\ Starting(i, s, p) => Starting(i, t, q)
    BY <2>1, <2>2, <2>3 DEF Steady, Doomed, Starting, Slot, Process
  <2> QED BY <1>1, <1>2, <1>3, <2>3, <2>4, <2>5, <2>6, WorkerMoves
<1>5. CASE Ignition(i)
  <2>1. PICK t : t = [s EXCEPT !.accepting = TRUE]
    OBVIOUS
  <2>2. PICK q : q = [p EXCEPT !.at = "check", !.flags = {}]
    OBVIOUS
  <2>3. w' = [w EXCEPT ![i] = t] /\ proc' = [proc EXCEPT ![i] = q] /\ p.at = "init"
    BY <1>5, <1>1, <1>2, <2>1, <2>2 DEF Ignition
  <2>4. t \in Slot /\ SameSlot(s, t)
    BY <2>1 DEF Slot, SameSlot
  <2>5. q \in Process /\ SameProc(p, q) /\ q.code = p.code
    BY <2>2, <2>3 DEF Process, SameProc, Alive, Running
  <2>6. /\ ~Steady(s, p) /\ ~Doomed(i, s, p)
        /\ Starting(i, s, p) => Steady(t, q)
    BY <2>1, <2>2, <2>3 DEF Steady, Doomed, Starting, Slot, Process
  <2> QED BY <1>1, <1>2, <1>3, <2>3, <2>4, <2>5, <2>6, WorkerMoves
<1>6. CASE LoopCheck(i)
  <2>1. p.at = "check" /\ w' = [w EXCEPT ![i] = s]
    BY <1>0, <1>1, <1>2, <1>6 DEF LoopCheck
  <2>2. CASE s.manage_next_request
    <3>1. PICK q : q = [p EXCEPT !.at = "wait"]
      OBVIOUS
    <3>2. proc' = [proc EXCEPT ![i] = q]
      BY <1>1, <1>2, <1>6, <2>2, <3>1 DEF LoopCheck, Goes
    <3>3. q \in Process /\ SameProc(p, q) /\ q.code = p.code /\ SameSlot(s, s)
      BY <2>1, <3>1 DEF Process, SameProc, SameSlot, Alive, Running
    <3>4. /\ Steady(s, p) => Steady(s, q)
          /\ Doomed(i, s, p) => Doomed(i, s, q)
          /\ ~Starting(i, s, p)
      BY <2>1, <3>1 DEF Steady, Doomed, Starting, Process
    <3> QED BY <1>1, <1>2, <1>3, <2>1, <3>2, <3>3, <3>4, WorkerMoves
  <2>3. CASE ~s.manage_next_request
    <3>1. PICK q : q = Exited(p, "end")
      OBVIOUS
    <3>2. proc' = [proc EXCEPT ![i] = q]
      BY <1>1, <1>2, <1>6, <2>3, <3>1 DEF LoopCheck, Ends
    <3>3. q \in Process /\ SameProc(p, q) /\ q.code = "end" /\ SameSlot(s, s)
      BY <2>1, <3>1 DEF Process, SameProc, SameSlot, Alive, Running, Exited, NoProcess, Codes
    <3>4. /\ ~Steady(s, p)
          /\ Doomed(i, s, p) => Doomed(i, s, q)
          /\ ~Starting(i, s, p)
      BY <2>1, <2>3, <3>1 DEF Steady, Doomed, Starting, Process, Exited, NoProcess
    <3> QED BY <1>1, <1>2, <1>3, <2>1, <3>2, <3>3, <3>4, WorkerMoves
  <2> QED BY <2>2, <2>3
<1> QED BY <1>4, <1>5, <1>6

\* A worker takes a request, and ends it.
LEMMA RequestSteps ==
    ASSUME MasterInv, NEW i \in Wid, UNCHANGED masterVars,
           AcceptRequest(i) \/ CloseRequest(i)
    PROVE MasterInv'
<1>0. TypeOK /\ w \in [Wid -> Slot] /\ proc \in [Wid -> Process]
  BY DEF MasterInv, TypeOK
<1>1. PICK s \in Slot : s = w[i]
  BY <1>0
<1>2. PICK p \in Process : p = proc[i]
  BY <1>0
<1>3. CASE AcceptRequest(i)
  <2>0. EventsGo
    BY <1>0, <1>3, NoEventGoes DEF AcceptRequest
  <2>1. PICK t : t = [s EXCEPT !.in_request = TRUE, !.harakiri = "armed"]
    OBVIOUS
  <2>2. PICK q : q = [p EXCEPT !.at = "request"]
    OBVIOUS
  <2>3. w' = [w EXCEPT ![i] = t] /\ proc' = [proc EXCEPT ![i] = q] /\ p.at = "wait"
    BY <1>3, <1>1, <1>2, <2>1, <2>2 DEF AcceptRequest, Goes
  <2>4. t \in Slot /\ SameSlot(s, t)
    BY <2>1 DEF Slot, SameSlot
  <2>5. q \in Process /\ SameProc(p, q) /\ q.code = p.code
    BY <2>2, <2>3 DEF Process, SameProc, Alive, Running
  <2>6. /\ Steady(s, p) => Steady(t, q)
        /\ Doomed(i, s, p) => Doomed(i, t, q)
        /\ ~Starting(i, s, p)
    BY <2>1, <2>2, <2>3 DEF Steady, Doomed, Starting, Slot, Process
  <2> QED BY <1>1, <1>2, <2>0, <2>3, <2>4, <2>5, <2>6, WorkerMoves
<1>4. CASE CloseRequest(i)
  <2>1. PICK t : t = [s EXCEPT !.in_request = FALSE, !.harakiri = "no"]
    OBVIOUS
  <2>2. PICK q : q = [p EXCEPT !.at = "check"]
    OBVIOUS
  <2>3. PICK u : u = [s EXCEPT !.in_request = FALSE, !.harakiri = "no", !.cursed = "cursed",
                               !.manage_next_request = FALSE]
    OBVIOUS
  <2>4. PICK z : z = Exited(p, "end")
    OBVIOUS
  <2>5. p.at = "request" /\ conf' = conf
    BY <1>2, <1>4 DEF CloseRequest
  <2>6. \/ w' = [w EXCEPT ![i] = t] /\ proc' = [proc EXCEPT ![i] = q] /\ NoEvent
        \/ w' = [w EXCEPT ![i] = u] /\ proc' = [proc EXCEPT ![i] = z] /\ Event("lifetime")
    BY <1>4, <1>1, <1>2, <2>1, <2>2, <2>3, <2>4 DEF CloseRequest, Goes, Ends
  <2>7. CASE w' = [w EXCEPT ![i] = t] /\ proc' = [proc EXCEPT ![i] = q] /\ NoEvent
    <3>1. EventsGo
      BY <1>0, <2>5, <2>7, NoEventGoes
    <3>2. t \in Slot /\ SameSlot(s, t)
      BY <2>1 DEF Slot, SameSlot
    <3>3. q \in Process /\ SameProc(p, q) /\ q.code = p.code
      BY <2>2, <2>5 DEF Process, SameProc, Alive, Running
    <3>4. /\ Steady(s, p) => Steady(t, q)
          /\ Doomed(i, s, p) => Doomed(i, t, q)
          /\ ~Starting(i, s, p)
      BY <2>1, <2>2, <2>5 DEF Steady, Doomed, Starting, Slot, Process
    <3> QED BY <1>1, <1>2, <2>7, <3>1, <3>2, <3>3, <3>4, WorkerMoves
  <2>8. CASE w' = [w EXCEPT ![i] = u] /\ proc' = [proc EXCEPT ![i] = z] /\ Event("lifetime")
    <3>1. EventsGo /\ "lifetime" \in seen'
      BY <1>0, <2>5, <2>8, EventGoes DEF EventKinds
    <3>2. u \in Slot /\ SameSlot(s, u)
      BY <2>3 DEF Slot, SameSlot
    <3>3. z \in Process /\ SameProc(p, z) /\ z.code = "end"
      BY <2>4, <2>5 DEF Process, SameProc, Alive, Running, Exited, NoProcess, Codes
    <3> QED BY <1>1, <1>2, <2>8, <3>1, <3>2, <3>3, WorkerMoves
  <2> QED BY <2>6, <2>7, <2>8
<1> QED BY <1>3, <1>4

\* The application dies, or time passes.
LEMMA DeathAndDeadlines ==
    ASSUME MasterInv, NEW i \in Wid, UNCHANGED masterVars,
           AppDies(i) \/ HarakiriExpires(i) \/ MercyExpires(i)
    PROVE MasterInv'
<1>0. TypeOK /\ w \in [Wid -> Slot] /\ proc \in [Wid -> Process]
  BY DEF MasterInv, TypeOK
<1>1. PICK s \in Slot : s = w[i]
  BY <1>0
<1>2. PICK p \in Process : p = proc[i]
  BY <1>0
<1>3. CASE AppDies(i)
  <2>1. PICK e \in {"cheap", "death"}, code \in {"cheap", "brutal", "end"} :
          Event(e) /\ Ends(i, code) /\ (code = "cheap" => e = "cheap")
    BY <1>3 DEF AppDies
  <2>2. PICK q : q = Exited(p, code)
    OBVIOUS
  <2>3. /\ w' = [w EXCEPT ![i] = s] /\ proc' = [proc EXCEPT ![i] = q]
        /\ p.at \in {"init", "request"} /\ conf' = conf
    BY <1>0, <1>1, <1>2, <1>3, <2>1, <2>2 DEF AppDies, Ends
  <2>4. EventsGo /\ e \in seen'
    BY <1>0, <2>1, <2>3, EventGoes DEF EventKinds
  <2>5. q \in Process /\ SameProc(p, q) /\ q.code = code /\ SameSlot(s, s)
    BY <2>1, <2>2, <2>3 DEF Process, SameProc, SameSlot, Alive, Running, Exited, NoProcess, Codes
  <2> QED BY <1>1, <1>2, <2>1, <2>3, <2>4, <2>5, WorkerMoves
<1>4. CASE HarakiriExpires(i)
  <2>1. PICK t : t = [s EXCEPT !.harakiri = "overdue"]
    OBVIOUS
  <2>2. /\ w' = [w EXCEPT ![i] = t] /\ proc' = [proc EXCEPT ![i] = p] /\ conf' = conf
        /\ Event("harakiri")
    BY <1>0, <1>1, <1>2, <1>4, <2>1 DEF HarakiriExpires
  <2>3. EventsGo /\ "harakiri" \in seen'
    BY <1>0, <2>2, EventGoes DEF EventKinds
  <2>4. t \in Slot /\ SameSlot(s, t) /\ SameProc(p, p)
    BY <2>1 DEF Slot, SameSlot, SameProc
  <2> QED BY <1>1, <1>2, <2>2, <2>3, <2>4, WorkerMoves
<1>5. CASE MercyExpires(i)
  <2>1. PICK t : t = [s EXCEPT !.cursed = "overdue"]
    OBVIOUS
  <2>2. /\ w' = [w EXCEPT ![i] = t] /\ proc' = [proc EXCEPT ![i] = p] /\ conf' = conf
        /\ NoEvent /\ s.cursed = "cursed"
    BY <1>0, <1>1, <1>2, <1>5, <2>1 DEF MercyExpires
  <2>3. EventsGo
    BY <1>0, <2>2, NoEventGoes
  <2>4. t \in Slot /\ SameSlot(s, t) /\ SameProc(p, p)
    BY <2>1, <2>2 DEF Slot, SameSlot, SameProc
  <2>5. /\ ~Steady(s, p) /\ ~Starting(i, s, p)
        /\ Doomed(i, s, p) => Doomed(i, t, p)
    BY <2>1, <2>2 DEF Steady, Doomed, Starting, Slot
  <2> QED BY <1>1, <1>2, <2>2, <2>3, <2>4, <2>5, WorkerMoves
<1> QED BY <1>3, <1>4, <1>5

------------------------------------------------------------------------------
(* Cursing, signalling and killing many workers at once.                    *)

\* uwsgi_curse.
LEMMA CursedIs ==
    ASSUME NEW slots \in [Wid -> Slot], NEW S
    PROVE /\ Cursed(slots, S) \in [Wid -> Slot]
          /\ \A i \in Wid : SameSlot(slots[i], Cursed(slots, S)[i])
          /\ \A i \in Wid \cap S : Cursed(slots, S)[i] = [slots[i] EXCEPT !.cursed = "cursed"]
          /\ \A i \in Wid \ S : Cursed(slots, S)[i] = slots[i]
<1>1. PICK f : f = Cursed(slots, S)
  OBVIOUS
<1>2. f = [i \in Wid |-> IF i \in S THEN [slots[i] EXCEPT !.cursed = "cursed"] ELSE slots[i]]
  BY <1>1 DEF Cursed
<1>3. ASSUME NEW i \in Wid
      PROVE /\ f[i] \in Slot /\ SameSlot(slots[i], f[i])
            /\ i \in S => f[i] = [slots[i] EXCEPT !.cursed = "cursed"]
            /\ i \notin S => f[i] = slots[i]
  <2>1. PICK s \in Slot : s = slots[i]
    OBVIOUS
  <2>2. PICK t : t = [s EXCEPT !.cursed = "cursed"]
    OBVIOUS
  <2>3. t \in Slot /\ SameSlot(s, t) /\ SameSlot(s, s)
    BY <2>2 DEF Slot, SameSlot
  <2>4. f[i] = IF i \in S THEN [slots[i] EXCEPT !.cursed = "cursed"] ELSE slots[i]
    BY <1>2
  <2>5. CASE i \in S
    <3>1. f[i] = t /\ f[i] = [slots[i] EXCEPT !.cursed = "cursed"]
      BY <2>1, <2>2, <2>4, <2>5
    <3> QED BY <2>1, <2>3, <2>5, <3>1
  <2>6. CASE i \notin S
    <3>1. f[i] = slots[i]
      BY <2>4, <2>6
    <3> QED BY <2>1, <2>3, <2>6, <3>1
  <2> QED BY <2>5, <2>6
<1>4. f \in [Wid -> Slot]
  <2>1. f = [i \in Wid |-> f[i]]
    BY <1>2
  <2> QED BY <1>3, <2>1
<1> QED BY <1>1, <1>3, <1>4

\* kill(2) of the workers that are there.
LEMMA SignalledIs ==
    ASSUME NEW procs \in [Wid -> Process], NEW S, NEW sig \in Signals
    PROVE /\ Signalled(procs, S, sig) \in [Wid -> Process]
          /\ \A i \in Wid : /\ SameProc(procs[i], Signalled(procs, S, sig)[i])
                            /\ Signalled(procs, S, sig)[i].code = procs[i].code
                            /\ Signalled(procs, S, sig)[i].at = procs[i].at
                            /\ Signalled(procs, S, sig)[i].sig \subseteq procs[i].sig \cup {sig}
          /\ \A i \in Wid \ S : Signalled(procs, S, sig)[i] = procs[i]
<1>1. PICK f : f = Signalled(procs, S, sig)
  OBVIOUS
<1>2. ASSUME NEW i \in Wid
      PROVE /\ f[i] \in Process /\ SameProc(procs[i], f[i]) /\ f[i].code = procs[i].code
            /\ f[i].at = procs[i].at /\ f[i].sig \subseteq procs[i].sig \cup {sig}
            /\ i \notin S => f[i] = procs[i]
  <2>1. PICK p \in Process : p = procs[i]
    OBVIOUS
  <2>2. PICK q : q = [p EXCEPT !.sig = @ \cup {sig}]
    OBVIOUS
  <2>3. /\ q \in Process /\ SameProc(p, p)
        /\ Alive(p) => SameProc(p, q)
        /\ q.code = p.code /\ q.at = p.at /\ q.sig = p.sig \cup {sig}
    BY <2>2 DEF Process, SameProc, Alive
  <2>4. f[i] = IF i \in S /\ Alive(p) THEN q ELSE p
    BY <1>1, <2>1, <2>2 DEF Signalled
  <2> QED BY <2>1, <2>3, <2>4
<1>3. f \in [Wid -> Process]
  <2>1. f = [i \in Wid |-> f[i]]
    BY <1>1 DEF Signalled
  <2> QED BY <1>2, <2>1
<1> QED BY <1>1, <1>2, <1>3

\* SIGKILL.
LEMMA KilledIs ==
    ASSUME NEW procs \in [Wid -> Process], NEW S
    PROVE /\ Killed(procs, S) \in [Wid -> Process]
          /\ \A i \in Wid : /\ SameProc(procs[i], Killed(procs, S)[i])
                            /\ \/ Killed(procs, S)[i] = procs[i]
                               \/ /\ i \in S /\ Alive(procs[i])
                                  /\ Killed(procs, S)[i] = Exited(procs[i], "end")
                                  /\ Killed(procs, S)[i].code = "end"
                                  /\ Killed(procs, S)[i].at = "zombie"
                                  /\ Killed(procs, S)[i].sig = {}
<1>1. PICK f : f = Killed(procs, S)
  OBVIOUS
<1>2. ASSUME NEW i \in Wid
      PROVE /\ f[i] \in Process /\ SameProc(procs[i], f[i])
            /\ \/ f[i] = procs[i]
               \/ /\ i \in S /\ Alive(procs[i])
                  /\ f[i] = Exited(procs[i], "end")
                  /\ f[i].code = "end" /\ f[i].at = "zombie" /\ f[i].sig = {}
  <2>1. PICK p \in Process : p = procs[i]
    OBVIOUS
  <2>2. PICK q : q = Exited(p, "end")
    OBVIOUS
  <2>3. /\ q \in Process
        /\ Alive(p) => SameProc(p, q)
        /\ SameProc(p, p) /\ q.code = "end" /\ q.at = "zombie" /\ q.sig = {}
    BY <2>2 DEF Process, SameProc, Alive, Running, Exited, NoProcess, Codes
  <2>4. f[i] = IF i \in S /\ Alive(p) THEN q ELSE p
    BY <1>1, <2>1, <2>2 DEF Killed
  <2> QED BY <2>1, <2>2, <2>3, <2>4
<1>3. f \in [Wid -> Process]
  <2>1. f = [i \in Wid |-> f[i]]
    BY <1>1 DEF Killed
  <2> QED BY <1>2, <2>1
<1> QED BY <1>1, <1>2, <1>3

\* The handlers of a worker.
LEMMA DeliverStep ==
    ASSUME MasterInv, NEW i \in Wid, UNCHANGED masterVars, Deliver(i)
    PROVE MasterInv'
<1>0. /\ TypeOK /\ w \in [Wid -> Slot] /\ proc \in [Wid -> Process]
      /\ SlotsInv /\ ChainInv /\ CheaperInv
  BY DEF MasterInv, TypeOK
<1>1. PICK s \in Slot : s = w[i]
  BY <1>0
<1>2. PICK p \in Process : p = proc[i]
  BY <1>0
<1>3. EventsGo
  BY <1>0, NoEventGoes DEF Deliver
<1>4. PICK sig \in p.sig :
        \/ /\ p.at \in {"forked", "init"}
           /\ \/ /\ proc' = [proc EXCEPT ![i].sig = @ \ {sig}]
                 /\ w' = w
              \/ InheritedHandler(i, sig)
        \/ /\ p.at \notin {"forked", "init"}
           /\ OwnHandler(i, sig)
  BY <1>2 DEF Deliver
<1>5. sig \in Signals
  BY <1>2 DEF Process
<1>6. PICK r : r = [p EXCEPT !.sig = @ \ {sig}]
  OBVIOUS
<1>7. /\ r \in Process /\ SameProc(p, r) /\ SameSlot(s, s) /\ r.code = p.code
      /\ r.at = p.at /\ r.sig \subseteq p.sig
  BY <1>6 DEF Process, SameProc, SameSlot, Alive
<1>8. ~Steady(s, p) /\ ~Starting(i, s, p)
  BY DEF Steady, Starting
<1>9. Doomed(i, s, p) => p.at \notin {"forked", "init"} /\ Doomed(i, s, r)
  BY <1>7 DEF Doomed
<1>10. CASE w' = w /\ proc' = [proc EXCEPT ![i] = r]
  <2>1. w' = [w EXCEPT ![i] = s]
    BY <1>0, <1>1, <1>10
  <2> QED BY <1>1, <1>2, <1>3, <1>7, <1>8, <1>9, <1>10, <2>1, WorkerMoves
<1>11. CASE p.at \in {"forked", "init"} /\ ~(w' = w /\ proc' = [proc EXCEPT ![i] = r])
  <2>1. PICK told : proc' = Signalled([proc EXCEPT ![i] =
                                         [p EXCEPT !.sig = @ \ {sig}, !.flags = @ \cup told]],
                                      Pids, sig)
                    /\ told \subseteq {"reloading", "dying"} /\ w' = Cursed(w, Pids)
    <3>1. InheritedHandler(i, sig)
      BY <1>0, <1>2, <1>4, <1>6, <1>11
    <3>2. PICK told : told = CASE sig = "HUP" -> IF conf.lazy THEN {} ELSE {"reloading"}
                               [] sig = "TERM" -> {"reloading"}
                               [] OTHER -> {"dying"}
      OBVIOUS
    <3>3. \/ proc' = [proc EXCEPT ![i].sig = @ \ {sig}] /\ w' = w
          \/ /\ proc' = Signalled([proc EXCEPT ![i] =
                                     [p EXCEPT !.sig = @ \ {sig}, !.flags = @ \cup told]],
                                  Pids, sig)
             /\ w' = Cursed(w, Pids)
      BY <1>2, <3>1, <3>2 DEF InheritedHandler
    <3>4. told \subseteq {"reloading", "dying"}
      BY <3>2
    <3> QED BY <1>2, <1>6, <1>11, <3>3, <3>4
  <2>2. PICK h : h = [p EXCEPT !.sig = @ \ {sig}, !.flags = @ \cup told]
    OBVIOUS
  <2>3. h \in Process /\ SameProc(p, h) /\ h.code = p.code
    BY <2>1, <2>2 DEF Process, SameProc, Alive
  <2>4. PICK heard : heard = [proc EXCEPT ![i] = h]
    OBVIOUS
  <2>5. /\ heard \in [Wid -> Process]
        /\ \A j \in Wid : SameProc(proc[j], heard[j]) /\ heard[j].code = proc[j].code
    BY <1>0, <1>2, <2>3, <2>4 DEF SameProc
  <2>6. proc' = Signalled(heard, Pids, sig) /\ w' = Cursed(w, Pids)
    BY <2>1, <2>2, <2>4
  <2>7. /\ proc' \in [Wid -> Process]
        /\ \A j \in Wid : SameProc(heard[j], proc'[j]) /\ proc'[j].code = heard[j].code
    BY <1>5, <2>5, <2>6, SignalledIs
  <2>8. w' \in [Wid -> Slot] /\ \A j \in Wid : SameSlot(w[j], w'[j])
    BY <1>0, <2>6, CursedIs
  <2>9. Quiet
    BY <1>3, <2>5, <2>7, <2>8 DEF Quiet, SameProc, EventsGo
  <2>10. TypeOK'
    BY <1>0, <1>3, <2>7, <2>8 DEF TypeOK, EventsGo, masterVars
  <2>11. SlotsInv' /\ CheaperInv'
    BY <1>0, <2>9, QuietSlots, QuietCheaper DEF masterVars, Leaving
  <2>12. ~(seen \subseteq {"chain"} /\ ~conf.cheaper)
    BY <1>0, <1>1, <1>2, <1>8, <1>9, <1>11 DEF ChainInv
  <2>13. ChainInv'
    BY <1>3, <2>12 DEF ChainInv, EventsGo
  <2> QED BY <2>10, <2>11, <2>13 DEF MasterInv
<1>12. CASE p.at \notin {"forked", "init"} /\ OwnHandler(i, sig)
  <2>1. Alive(p)
    BY <1>0, <1>2 DEF SlotsInv, SlotOK
  <2>2. Doomed(i, s, p) => sig = "HUP"
    BY <2>1 DEF Doomed, Alive, Running
  <2>3. PICK z : z = Exited(r, "end")
    OBVIOUS
  <2>4. /\ z \in Process /\ z.code = "end" /\ SameProc(p, z)
        /\ Doomed(i, s, p) => Doomed(i, s, z)
    BY <2>1, <2>3 DEF Process, SameProc, Alive, Running, Exited, NoProcess, Codes, Doomed
  <2>5. CASE sig = "HUP"
    <3>1. PICK t : t = [s EXCEPT !.manage_next_request = FALSE]
      OBVIOUS
    <3>2. t \in Slot /\ SameSlot(s, t)
      BY <3>1 DEF Slot, SameSlot
    <3>3. /\ Doomed(i, s, r) => Doomed(i, t, r)
          /\ Doomed(i, s, z) => Doomed(i, t, z)
      BY <3>1 DEF Doomed, Slot
    <3>4. /\ w' = [w EXCEPT ![i] = t]
          /\ proc' = [proc EXCEPT ![i] = IF s.in_request THEN r ELSE z]
      BY <1>1, <1>2, <1>6, <1>12, <2>3, <2>5, <3>1 DEF OwnHandler
    <3>5. CASE s.in_request
      BY <1>1, <1>2, <1>3, <1>7, <1>8, <1>9, <3>2, <3>3, <3>4, <3>5, WorkerMoves
    <3>6. CASE ~s.in_request
      BY <1>1, <1>2, <1>3, <1>8, <2>4, <3>2, <3>3, <3>4, <3>6, WorkerMoves
    <3> QED BY <3>5, <3>6
  <2>6. CASE sig # "HUP"
    <3>1. w' = [w EXCEPT ![i] = s]
      BY <1>0, <1>1, <1>12, <2>6 DEF OwnHandler
    <3>2. CASE sig \in {"INT", "TERM"}
      <4>1. proc' = [proc EXCEPT ![i] = z]
        BY <1>2, <1>6, <1>12, <2>3, <3>2 DEF OwnHandler
      <4> QED BY <1>1, <1>2, <1>3, <1>7, <1>8, <2>2, <2>4, <2>6, <3>1, <4>1, WorkerMoves
    <3>3. CASE sig = "WINCH"
      <4>1. PICK q : q = [r EXCEPT !.at = IF @ = "wait" THEN "check" ELSE @]
        OBVIOUS
      <4>2. proc' = [proc EXCEPT ![i] = q]
        BY <1>2, <1>6, <1>12, <3>3, <4>1 DEF OwnHandler
      <4>3. q \in Process /\ SameProc(p, q) /\ q.code = p.code
        BY <1>7, <2>1, <4>1 DEF Process, SameProc, Alive, Running
      <4> QED BY <1>1, <1>2, <1>3, <1>7, <1>8, <2>2, <2>6, <3>1, <4>2, <4>3, WorkerMoves
    <3> QED BY <1>5, <2>6, <3>2, <3>3 DEF Signals
  <2> QED BY <2>5, <2>6
<1> QED BY <1>2, <1>4, <1>6, <1>10, <1>11, <1>12

------------------------------------------------------------------------------
(* The handlers of the master.                                              *)

\* The type of uwsgi.status.
StatusType ==
    [reloading: BOOLEAN, dying: BOOLEAN, chain_reloading: 0..(NumProc + 1),
     is_cheap: BOOLEAN, listening: BOOLEAN, dying_for_need_app: BOOLEAN]

\* What a handler leaves of the workers in slots and procs: they are the same,
\* and cursed if the instance begins to reload or to die.
Handled(slots, procs) ==
    /\ w' \in [Wid -> Slot] /\ proc' \in [Wid -> Process]
    /\ \A i \in Wid : /\ SameSlot(slots[i], w'[i])
                      /\ SameProc(procs[i], proc'[i])
                      /\ proc'[i].code = procs[i].code

\* Every worker that is alive is cursed.
AllCursed == \A i \in Wid : Alive(proc'[i]) => w'[i].cursed # "no"

\* The loop over the workers in every handler.
LEMMA CurseAllIs ==
    ASSUME NEW slots \in [Wid -> Slot], NEW procs \in [Wid -> Process], NEW sig \in Signals,
           \A i \in Wid : procs[i].at # "none" => slots[i].pid,
           CurseAll(slots, procs, sig)
    PROVE Handled(slots, procs) /\ AllCursed
<1>1. PICK S : S = {i \in Wid : slots[i].pid}
  OBVIOUS
<1>2. w' = Cursed(slots, S) /\ proc' = Signalled(procs, S, sig)
  BY <1>1 DEF CurseAll
<1>3. /\ w' \in [Wid -> Slot]
      /\ \A i \in Wid : SameSlot(slots[i], w'[i])
      /\ \A i \in Wid \cap S : w'[i] = [slots[i] EXCEPT !.cursed = "cursed"]
  BY <1>2, CursedIs
<1>4. /\ proc' \in [Wid -> Process]
      /\ \A i \in Wid : /\ SameProc(procs[i], proc'[i]) /\ proc'[i].code = procs[i].code
                        /\ proc'[i].at = procs[i].at
  BY <1>2, SignalledIs
<1>5. ASSUME NEW i \in Wid, Alive(proc'[i]) PROVE w'[i].cursed # "no"
  <2>1. i \in S
    BY <1>1, <1>4, <1>5 DEF Alive, Running
  <2>2. PICK s \in Slot : s = slots[i]
    OBVIOUS
  <2>3. w'[i] = [s EXCEPT !.cursed = "cursed"]
    BY <1>3, <2>1, <2>2
  <2> QED BY <2>3 DEF Slot
<1> QED BY <1>3, <1>4, <1>5 DEF Handled, AllCursed

\* A handler that returns at once changes nothing.
LEMMA IgnoredIs ==
    ASSUME NEW slots \in [Wid -> Slot], NEW procs \in [Wid -> Process], Ignored(slots, procs)
    PROVE Handled(slots, procs) /\ others' = others
BY DEF Ignored, Handled, SameSlot, SameProc

\* kill_them_all and gracefully_kill_them_all.
LEMMA KillIs ==
    ASSUME TypeOK, NEW slots \in [Wid -> Slot], NEW procs \in [Wid -> Process],
           NEW sig \in Signals, NEW st \in StatusType,
           \A i \in Wid : procs[i].at # "none" => slots[i].pid,
           KillThemAll(slots, procs, sig, st)
    PROVE /\ Handled(slots, procs) /\ (~status.dying => AllCursed)
          /\ others' \in BOOLEAN
          /\ status' \in StatusType /\ status'.dying /\ status'.reloading = st.reloading
          /\ status'.chain_reloading = st.chain_reloading
          /\ status'.is_cheap = st.is_cheap /\ status'.listening = st.listening
<1>1. status' = [st EXCEPT !.dying = TRUE]
  BY DEF KillThemAll
<1>2. /\ status' \in StatusType /\ status'.dying /\ status'.reloading = st.reloading
      /\ status'.chain_reloading = st.chain_reloading
      /\ status'.is_cheap = st.is_cheap /\ status'.listening = st.listening
  BY <1>1 DEF StatusType
<1>3. CASE status.dying
  BY <1>2, <1>3, IgnoredIs DEF KillThemAll, TypeOK
<1>4. CASE ~status.dying
  BY <1>2, <1>4, CurseAllIs DEF KillThemAll, TypeOK
<1> QED BY <1>3, <1>4

\* reap_them_all.
LEMMA ReapIs ==
    ASSUME TypeOK, NEW slots \in [Wid -> Slot], NEW procs \in [Wid -> Process],
           \A i \in Wid : procs[i].at # "none" => slots[i].pid,
           ReapThemAll(slots, procs)
    PROVE /\ Handled(slots, procs) /\ (~status.reloading => AllCursed)
          /\ others' \in BOOLEAN
          /\ status' \in StatusType /\ status'.reloading
          /\ status'.chain_reloading = status.chain_reloading
          /\ status'.is_cheap = status.is_cheap /\ status'.listening = status.listening
<1>1. status' = [status EXCEPT !.reloading = TRUE] /\ status \in StatusType
  BY DEF ReapThemAll, TypeOK, StatusType
<1>2. /\ status' \in StatusType /\ status'.reloading
      /\ status'.chain_reloading = status.chain_reloading
      /\ status'.is_cheap = status.is_cheap /\ status'.listening = status.listening
  BY <1>1 DEF StatusType
<1>3. CASE status.reloading
  BY <1>2, <1>3, IgnoredIs DEF ReapThemAll, TypeOK
<1>4. CASE ~status.reloading
  BY <1>2, <1>4, CurseAllIs DEF ReapThemAll, TypeOK, Signals
<1> QED BY <1>3, <1>4

\* A step that leaves the workers in their slots, in which something happens
\* that is not part of a chain reload.
LEMMA GroupMoves ==
    ASSUME MasterInv, Handled(w, proc), EventsGo,
           cheap' = cheap, dead' = dead, late' = late, orphaned' = orphaned,
           mpc' = mpc \/ (mpc = "events" /\ mpc' = "top"),
           others' \in BOOLEAN, status' \in StatusType,
           status'.listening <=> status.listening, status.is_cheap => status'.is_cheap,
           Leaving => Leaving', ~Leaving /\ Leaving' => AllCursed,
           NEW e \in seen', e # "chain"
    PROVE MasterInv'
<1>1. TypeOK /\ SlotsInv /\ CheaperInv
  BY DEF MasterInv
<1>2. Quiet
  BY DEF Quiet, EventsGo, Handled
<1>3. SlotsInv' /\ CheaperInv'
  BY <1>1, <1>2, QuietSlots, QuietCheaper DEF AllCursed
<1>4. TypeOK'
  BY <1>1 DEF TypeOK, Handled, EventsGo, StatusType
<1>5. ChainInv'
  BY DEF ChainInv
<1> QED BY <1>3, <1>4, <1>5 DEF MasterInv

\* A signal reaches the master.
LEMMA SignalStep ==
    ASSUME MasterInv, HandleSignal
    PROVE MasterInv'
<1>0. /\ TypeOK /\ w \in [Wid -> Slot] /\ proc \in [Wid -> Process] /\ status \in StatusType
      /\ \A i \in Wid : proc[i].at # "none" => w[i].pid
  BY DEF MasterInv, TypeOK, StatusType, SlotsInv, SlotOK
<1>1. EventsGo /\ "signal" \in seen'
  BY <1>0, EventGoes DEF HandleSignal, EventKinds
<1>2. /\ cheap' = cheap /\ dead' = dead /\ late' = late /\ orphaned' = orphaned /\ mpc' = mpc
  BY DEF HandleSignal
<1>3. PICK sig \in {"HUP", "TERM", "INT"} : Handler(sig)
  BY DEF HandleSignal
<1>4. CASE sig = "HUP" /\ ~Leaving
  <2>1. /\ CurseAll(w, proc, "HUP") /\ status' = [status EXCEPT !.reloading = ~conf.lazy]
        /\ others' = (conf.lazy /\ others)
    BY <1>3, <1>4 DEF Handler, GraceThemAll
  <2>2. Handled(w, proc) /\ AllCursed
    BY <1>0, <2>1, CurseAllIs DEF Signals
  <2>3. PICK b \in BOOLEAN : b = ~conf.lazy
    OBVIOUS
  <2>4. status' = [status EXCEPT !.reloading = b]
    BY <2>1, <2>3
  <2>5. /\ status' \in StatusType /\ status'.listening = status.listening
        /\ status'.is_cheap = status.is_cheap
    BY <1>0, <2>4 DEF StatusType
  <2>6. others' \in BOOLEAN
    BY <2>1
  <2> QED BY <1>1, <1>2, <1>4, <2>2, <2>5, <2>6, GroupMoves
<1>5. CASE sig = "HUP" /\ Leaving
  <2>1. Ignored(w, proc) /\ status' = status
    BY <1>3, <1>5 DEF Handler, GraceThemAll
  <2>2. Handled(w, proc) /\ others' = others
    BY <1>0, <2>1, IgnoredIs
  <2>3. others' \in BOOLEAN
    BY <1>0, <2>2 DEF TypeOK
  <2> QED BY <1>0, <1>1, <1>2, <2>1, <2>2, <2>3, GroupMoves DEF Leaving
<1>6. CASE sig = "TERM"
  <2>1. ReapThemAll(w, proc)
    BY <1>3, <1>6 DEF Handler
  <2>2. /\ Handled(w, proc) /\ (~status.reloading => AllCursed) /\ others' \in BOOLEAN
        /\ status' \in StatusType /\ status'.reloading /\ status'.listening = status.listening
        /\ status'.is_cheap = status.is_cheap
    BY <1>0, <2>1, ReapIs
  <2> QED BY <1>0, <1>1, <1>2, <2>2, GroupMoves DEF Leaving
<1>7. CASE sig = "INT"
  <2>1. KillThemAll(w, proc, "INT", status)
    BY <1>3, <1>7 DEF Handler
  <2>2. /\ Handled(w, proc) /\ (~status.dying => AllCursed) /\ others' \in BOOLEAN
        /\ status' \in StatusType /\ status'.dying /\ status'.listening = status.listening
        /\ status'.is_cheap = status.is_cheap
    BY <1>0, <2>1, KillIs DEF Signals
  <2> QED BY <1>0, <1>1, <1>2, <2>2, GroupMoves DEF Leaving
<1> QED BY <1>3, <1>4, <1>5, <1>6, <1>7

\* A worker finds no application.
LEMMA LoadFailsStep ==
    ASSUME MasterInv, NEW i \in Wid, LoadFails(i)
    PROVE MasterInv'
<1>0. /\ TypeOK /\ w \in [Wid -> Slot] /\ proc \in [Wid -> Process] /\ status \in StatusType
      /\ \A j \in Wid : proc[j].at # "none" => w[j].pid
  BY DEF MasterInv, TypeOK, StatusType, SlotsInv, SlotOK
<1>1. EventsGo /\ "load" \in seen'
  BY <1>0, EventGoes DEF LoadFails, EventKinds
<1>2. /\ cheap' = cheap /\ dead' = dead /\ late' = late /\ orphaned' = orphaned /\ mpc' = mpc
  BY DEF LoadFails
<1>3. PICK p \in Process : p = proc[i]
  BY <1>0
<1>4. PICK z : z = Exited(p, "failed")
  OBVIOUS
<1>5. PICK procs : procs = [proc EXCEPT ![i] = z]
  OBVIOUS
<1>6. KillThemAll(w, procs, "INT", status) /\ p.at = "init"
  BY <1>3, <1>4, <1>5 DEF LoadFails
<1>7. z \in Process /\ SameProc(p, z) /\ z.code = "failed" /\ z.at = "zombie"
  BY <1>4, <1>6 DEF Process, SameProc, Alive, Running, Exited, NoProcess, Codes
<1>8. /\ procs \in [Wid -> Process]
      /\ \A j \in Wid : /\ procs[j].at # "none" => w[j].pid
                        /\ SameProc(proc[j], procs[j])
                        /\ procs[j].code = "cheap" => proc[j].code = "cheap"
  <2>1. SameProc(p, z) /\ \A q \in Process : SameProc(q, q)
    BY <1>7 DEF SameProc
  <2>2. procs[i] = z /\ \A j \in Wid : j # i => procs[j] = proc[j]
    BY <1>0, <1>5
  <2>3. procs \in [Wid -> Process]
    BY <1>0, <1>5, <1>7
  <2> QED BY <1>0, <1>3, <1>6, <1>7, <2>1, <2>2, <2>3
<1>9. /\ Handled(w, procs) /\ (~status.dying => AllCursed) /\ others' \in BOOLEAN
      /\ status' \in StatusType /\ status'.dying /\ status'.listening = status.listening
        /\ status'.is_cheap = status.is_cheap
  BY <1>0, <1>6, <1>8, KillIs DEF Signals
<1>10. TypeOK /\ SlotsInv /\ CheaperInv
  BY DEF MasterInv
<1>11. Quiet
  BY <1>1, <1>8, <1>9 DEF Quiet, Handled, EventsGo, SameProc
<1>12. SlotsInv' /\ CheaperInv'
  BY <1>2, <1>9, <1>10, <1>11, QuietSlots, QuietCheaper DEF AllCursed, Leaving
<1>13. TypeOK'
  BY <1>1, <1>2, <1>9, <1>10 DEF TypeOK, Handled, EventsGo, StatusType
<1>14. ChainInv'
  BY <1>1 DEF ChainInv
<1> QED BY <1>12, <1>13, <1>14 DEF MasterInv

------------------------------------------------------------------------------
(* The checks at the top of the loop.                                       *)

\* A non-empty set of numbers has a least element.
LEMMA LeastNumber ==
    ASSUME NEW S \in SUBSET Nat, S # {}
    PROVE \E x \in S : \A y \in S : x =< y
<1>1. PICK x \in S : \A y \in S : ~(<<y, x>> \in OpToRel(<, Nat))
  BY NatLessThanWellFounded, WFMin
<1>2. ASSUME NEW y \in S PROVE x =< y
  <2>1. x \in Nat /\ y \in Nat
    OBVIOUS
  <2>2. ~(y < x)
    BY <1>1, <2>1 DEF OpToRel
  <2> QED BY <2>1, <2>2
<1> QED BY <1>2

\* Where the chain stands after the check.
LEMMA ChainNextType ==
    ASSUME TypeOK
    PROVE ChainNext \in 0..(NumProc + 1)
<1>1. status.chain_reloading \in 0..(NumProc + 1) /\ NumProc \in Nat \ {0}
  BY WorkerAssumption DEF TypeOK
<1>2. CASE status.chain_reloading = 0 \/ ChainWaits
  BY <1>1, <1>2 DEF ChainNext
<1>3. CASE ~(status.chain_reloading = 0 \/ ChainWaits)
  <2>1. CASE status.chain_reloading > NumProc \/ ChainVictims = {}
    BY <1>1, <1>3, <2>1 DEF ChainNext
  <2>2. CASE ~(status.chain_reloading > NumProc \/ ChainVictims = {})
    <3>1. ChainVictims \subseteq 1..NumProc /\ ChainVictims \in SUBSET Nat
      BY <1>1, <1>3 DEF ChainVictims
    <3>2. \E x \in ChainVictims : \A y \in ChainVictims : x =< y
      BY <2>2, <3>1, LeastNumber
    <3>3. ChainNext = CHOOSE i \in ChainVictims : \A j \in ChainVictims : i =< j
      BY <1>3, <2>2 DEF ChainNext
    <3>4. ChainNext \in ChainVictims
      BY <3>2, <3>3
    <3> QED BY <1>1, <3>1, <3>4
  <2> QED BY <2>1, <2>2
<1> QED BY <1>2, <1>3

\* In a chain reload that nothing disturbs the check waits for the worker that
\* is doomed or starting, and else curses the next one.
LEMMA ChainChecks ==
    ASSUME MasterInv, mpc = "top", seen \subseteq {"chain"}, ~conf.cheaper, NEW i \in Wid
    PROVE /\ Doomed(i, w[i], proc[i]) => ChainNext = i /\ ChainCurses = {}
          /\ Starting(i, w[i], proc[i]) => ChainNext = i + 1 /\ ChainCurses = {}
          /\ i \in ChainCurses => ChainNext = i /\ Steady(w[i], proc[i])
<1>1. /\ status.chain_reloading \in 0..(NumProc + 1) /\ NumProc \in Nat \ {0}
      /\ \A j \in Wid : \/ Steady(w[j], proc[j])
                        \/ Doomed(j, w[j], proc[j])
                        \/ Starting(j, w[j], proc[j])
      /\ \A j \in Wid : j # i => Steady(w[i], proc[i]) \/ Steady(w[j], proc[j])
  BY WorkerAssumption DEF MasterInv, TypeOK, ChainInv
<1>2. CASE Doomed(i, w[i], proc[i])
  <2>1. ~Steady(w[i], proc[i]) /\ status.chain_reloading = i
    BY <1>2 DEF Steady, Doomed
  <2>2. w[i].pid /\ w[i].accepting /\ ~w[i].cheaped /\ w[i].cursed # "no"
    BY <1>2 DEF Doomed
  <2>3. ~ChainWaits
    <3>1. SUFFICES ASSUME i > 1 PROVE w[i - 1].accepting
      BY <2>1 DEF ChainWaits, Previous
    <3>2. i - 1 \in Wid /\ i - 1 # i
      BY <1>1, <3>1 DEF Wid
    <3> QED BY <1>1, <2>1, <3>2 DEF Steady
  <2>4. i \in ChainVictims /\ \A j \in ChainVictims : i =< j
    BY <1>1, <2>1, <2>2 DEF ChainVictims, Wid
  <2>5. ChainNext = CHOOSE j \in ChainVictims : \A k \in ChainVictims : j =< k
    BY <1>1, <2>1, <2>3, <2>4 DEF ChainNext, Wid
  <2>6. ChainNext \in ChainVictims /\ ChainNext =< i
    BY <2>4, <2>5
  <2>7. ChainVictims \subseteq Nat
    BY <1>1 DEF ChainVictims
  <2>8. ChainNext = i
    BY <2>4, <2>6, <2>7
  <2>9. ChainCurses = {}
    BY <2>2, <2>8 DEF ChainCurses
  <2>10. ~Starting(i, w[i], proc[i])
    BY <2>2 DEF Starting
  <2> QED BY <2>8, <2>9, <2>10
<1>3. CASE Starting(i, w[i], proc[i])
  <2>1. /\ status.chain_reloading = i + 1
        /\ w[i].pid /\ ~w[i].accepting /\ ~w[i].cheaped
    BY <1>3 DEF Starting
  <2>2. i \in Nat /\ i > 0 /\ i = status.chain_reloading - 1
    BY <1>1, <2>1 DEF Wid
  <2>3. ChainWaits
    BY <1>1, <2>1, <2>2 DEF ChainWaits, Previous
  <2>4. ChainNext = i + 1 /\ ChainCurses = {}
    BY <2>1, <2>3 DEF ChainNext, ChainCurses
  <2>5. ~Doomed(i, w[i], proc[i])
    BY <2>1, <2>2 DEF Doomed
  <2> QED BY <2>4, <2>5
<1>4. CASE i \in ChainCurses
  <2>1. ChainNext = i /\ w[i].cursed = "no" /\ w[i].accepting
    BY <1>4 DEF ChainCurses, ChainVictims
  <2>2. Steady(w[i], proc[i])
    BY <1>1, <2>1 DEF Doomed, Starting
  <2>3. ~Doomed(i, w[i], proc[i]) /\ ~Starting(i, w[i], proc[i])
    BY <2>1, <2>2 DEF Steady, Doomed, Starting
  <2> QED BY <2>1, <2>2, <2>3
<1> QED BY <1>2, <1>3, <1>4

\* Death, reload, chain and mercy.
LEMMA CheckTopStep ==
    ASSUME MasterInv, CheckTop
    PROVE MasterInv'
<1>0. /\ TypeOK /\ w \in [Wid -> Slot] /\ proc \in [Wid -> Process] /\ status \in StatusType
      /\ SlotsInv /\ ChainInv /\ CheaperInv
  BY DEF MasterInv, TypeOK, StatusType
<1>1. /\ conf' = conf /\ cheap' = cheap /\ dead' = dead /\ late' = late /\ orphaned' = orphaned
      /\ others' = others /\ NoEvent /\ mpc = "top"
  BY DEF CheckTop
<1>2. EventsGo /\ seen' = seen
  BY <1>0, <1>1, NoEventGoes DEF NoEvent
<1>3. CASE Leaving /\ Pids = {}
  <2>1. /\ w' = w /\ proc' = proc /\ status' = status
        /\ mpc' \in Final
    BY <1>3 DEF CheckTop, Final
  <2>2. mpc' # "respawn" /\ mpc' # "cheaper"
    BY <2>1 DEF Final
  <2>3. Quiet
    BY <1>2, <2>1 DEF Quiet, EventsGo, SameSlot, SameProc
  <2>4. SlotsInv' /\ CheaperInv'
    BY <1>0, <1>1, <2>1, <2>2, <2>3, QuietSlots, QuietCheaper DEF Leaving
  <2>5. TypeOK'
    BY <1>0, <1>1, <1>2, <2>1 DEF TypeOK, EventsGo
  <2>6. ChainInv'
    BY <1>0, <1>2, <1>3, <2>1 DEF ChainInv, EventsGo, Leaving
  <2> QED BY <2>4, <2>5, <2>6 DEF MasterInv
<1>4. CASE ~(Leaving /\ Pids = {})
  <2>1. PICK C : C = ChainCurses
    OBVIOUS
  <2>2. PICK M : M = NoMercy
    OBVIOUS
  <2>3. PICK w1 : w1 = Cursed(w, C)
    OBVIOUS
  <2>4. PICK p1 : p1 = Signalled(proc, C, "HUP")
    OBVIOUS
  <2>5. /\ w' = Cursed(w1, M) /\ proc' = Killed(p1, M)
        /\ status' = [status EXCEPT !.chain_reloading = ChainNext]
        /\ mpc' = IF conf.cheaper /\ ~status.is_cheap /\ ~Leaving THEN "cheaper" ELSE "wait"
    BY <1>4, <2>1, <2>2, <2>3, <2>4 DEF CheckTop
  <2>6. /\ w1 \in [Wid -> Slot]
        /\ \A i \in Wid : SameSlot(w[i], w1[i])
        /\ \A i \in Wid \cap C : w1[i] = [w[i] EXCEPT !.cursed = "cursed"]
        /\ \A i \in Wid \ C : w1[i] = w[i]
    BY <1>0, <2>3, CursedIs
  <2>7. /\ w' \in [Wid -> Slot]
        /\ \A i \in Wid : SameSlot(w1[i], w'[i])
        /\ \A i \in Wid \cap M : w'[i] = [w1[i] EXCEPT !.cursed = "cursed"]
        /\ \A i \in Wid \ M : w'[i] = w1[i]
    BY <2>5, <2>6, CursedIs
  <2>8. /\ p1 \in [Wid -> Process]
        /\ \A i \in Wid : /\ SameProc(proc[i], p1[i])
                          /\ p1[i].code = proc[i].code /\ p1[i].at = proc[i].at
                          /\ p1[i].sig \subseteq proc[i].sig \cup {"HUP"}
        /\ \A i \in Wid \ C : p1[i] = proc[i]
    <3>1. "HUP" \in Signals
      BY DEF Signals
    <3> QED BY <1>0, <2>4, <3>1, SignalledIs
  <2>9. /\ proc' \in [Wid -> Process]
        /\ \A i \in Wid : /\ SameProc(p1[i], proc'[i])
                          /\ \/ proc'[i] = p1[i]
                             \/ /\ i \in M
                                /\ proc'[i].code = "end" /\ proc'[i].at = "zombie"
                                /\ proc'[i].sig = {}
    BY <2>5, <2>8, KilledIs
  <2>10. Quiet
    <3>1. \A i \in Wid : SameSlot(w[i], w'[i])
      BY <2>6, <2>7 DEF SameSlot
    <3>2. \A i \in Wid : SameProc(proc[i], proc'[i])
      BY <2>8, <2>9 DEF SameProc
    <3>3. \A i \in Wid : proc'[i].code = "cheap" => proc[i].code = "cheap"
      BY <2>8, <2>9
    <3> QED BY <1>2, <3>1, <3>2, <3>3 DEF Quiet, EventsGo
  <2>11. PICK n \in 0..(NumProc + 1) : n = ChainNext
    BY <1>0, ChainNextType
  <2>12. /\ status' \in StatusType /\ status'.chain_reloading = n
         /\ status'.listening = status.listening /\ status'.is_cheap = status.is_cheap
         /\ status'.dying = status.dying /\ status'.reloading = status.reloading
    <3>1. status' = [status EXCEPT !.chain_reloading = n]
      BY <2>5, <2>11
    <3> QED BY <1>0, <3>1 DEF StatusType
  <2>13. /\ mpc # "respawn" /\ mpc' # "respawn" /\ mpc' \in {"cheaper", "wait"}
         /\ ~conf.cheaper => mpc' = "wait"
         /\ mpc' = "cheaper" => ~status.is_cheap
    BY <1>1, <2>5
  <2>14. SlotsInv' /\ CheaperInv'
    BY <1>0, <1>1, <2>10, <2>12, <2>13, QuietSlots, QuietCheaper DEF Leaving
  <2>15. TypeOK'
    BY <1>0, <1>1, <1>2, <2>7, <2>9, <2>12, <2>13 DEF TypeOK, EventsGo, StatusType
  <2>16. ChainInv'
    <3> SUFFICES ASSUME seen \subseteq {"chain"}, ~conf.cheaper
                 PROVE /\ ~Leaving' /\ ~status'.is_cheap /\ ~status'.listening
                       /\ mpc' # "cheaper"
                       /\ \A i \in Wid : \/ Steady(w'[i], proc'[i])
                                         \/ Doomed(i, w[i], proc[i])'
                                         \/ Starting(i, w[i], proc[i])'
                       /\ \A i, j \in Wid : i # j =>
                             Steady(w'[i], proc'[i]) \/ Steady(w'[j], proc'[j])
      BY <1>1, <1>2 DEF ChainInv, Steady
    <3>1. /\ ~Leaving /\ ~status.is_cheap /\ ~status.listening
          /\ \A i \in Wid : \/ Steady(w[i], proc[i])
                            \/ Doomed(i, w[i], proc[i])
                            \/ Starting(i, w[i], proc[i])
          /\ \A i, j \in Wid : i # j => Steady(w[i], proc[i]) \/ Steady(w[j], proc[j])
      BY <1>0 DEF ChainInv
    <3>2. \A i \in Wid :
            /\ Doomed(i, w[i], proc[i]) => n = i /\ C = {}
            /\ Starting(i, w[i], proc[i]) => n = i + 1 /\ C = {}
            /\ i \in C => n = i /\ Steady(w[i], proc[i])
      BY <1>1, <2>1, <2>11, ChainChecks
    <3>3. M = {i \in Wid : w[i].pid /\ w[i].cursed = "overdue"}
      BY <2>2 DEF NoMercy, Pids
    <3>4. ASSUME NEW i \in Wid, Steady(w[i], proc[i]), i \notin C
          PROVE Steady(w'[i], proc'[i])
      <4>1. i \notin M
        BY <3>3, <3>4 DEF Steady
      <4>2. w'[i] = w[i] /\ proc'[i] = proc[i]
        BY <2>6, <2>7, <2>8, <2>9, <3>4, <4>1
      <4> QED BY <3>4, <4>2
    <3>5. ASSUME NEW i \in Wid, Starting(i, w[i], proc[i])
          PROVE Starting(i, w[i], proc[i])'
      <4>1. i \notin M /\ i \notin C /\ n = i + 1
        BY <3>2, <3>3, <3>5 DEF Starting
      <4>2. w'[i] = w[i] /\ proc'[i] = proc[i]
        BY <2>6, <2>7, <2>8, <2>9, <4>1
      <4> QED BY <2>12, <3>5, <4>1, <4>2 DEF Starting
    <3>6. ASSUME NEW i \in Wid, Doomed(i, w[i], proc[i]) \/ i \in C
          PROVE Doomed(i, w[i], proc[i])'
      <4>0. /\ n = i /\ ~w[i].cheaped /\ w[i].pid /\ w[i].accepting
            /\ proc[i].code = "end" /\ proc[i].sig \subseteq {"HUP"}
            /\ proc[i].at \in {"check", "wait", "request", "zombie"}
            /\ i \in C \/ w[i].cursed # "no"
        BY <1>1, <3>2, <3>6 DEF Doomed, Steady
      <4>1. PICK s \in Slot : s = w[i]
        BY <1>0
      <4>2. PICK t : t = [s EXCEPT !.cursed = "cursed"]
        OBVIOUS
      <4>3. t \in Slot /\ t.cursed = "cursed" /\ (t.pid <=> s.pid) /\ (t.cheaped <=> s.cheaped)
            /\ (t.accepting <=> s.accepting) /\ [t EXCEPT !.cursed = "cursed"] = t
        BY <4>2 DEF Slot
      <4>4. w1[i] = IF i \in C THEN t ELSE s
        BY <2>6, <4>1, <4>2
      <4>5. w'[i] = IF i \in M \/ i \in C THEN t ELSE s
        BY <2>7, <4>2, <4>3, <4>4
      <4>6. ~w'[i].cheaped /\ w'[i].cursed # "no" /\ w'[i].pid /\ w'[i].accepting
        BY <4>0, <4>1, <4>3, <4>5
      <4>7. /\ proc'[i].code = "end" /\ proc'[i].sig \subseteq {"HUP"}
            /\ proc'[i].at \in {"check", "wait", "request", "zombie"}
        BY <2>8, <2>9, <4>0
      <4> QED BY <2>12, <2>13, <4>0, <4>6, <4>7 DEF Doomed
    <3>7. \A i, j \in Wid : i # j => Steady(w'[i], proc'[i]) \/ Steady(w'[j], proc'[j])
      <4> SUFFICES ASSUME NEW i \in Wid, NEW j \in Wid, i # j, ~Steady(w'[i], proc'[i])
                   PROVE Steady(w'[j], proc'[j])
        OBVIOUS
      <4>1. ~Steady(w[i], proc[i]) \/ i \in C
        BY <3>4
      <4>2. Steady(w[j], proc[j])
        BY <3>1, <3>2, <4>1
      <4>3. j \notin C
        BY <3>1, <3>2, <4>1
      <4> QED BY <3>4, <4>2, <4>3
    <3>8. ~Leaving' /\ ~status'.is_cheap /\ ~status'.listening
      BY <2>12, <3>1 DEF Leaving
    <3> QED BY <2>13, <3>1, <3>4, <3>5, <3>6, <3>7, <3>8
  <2> QED BY <2>14, <2>15, <2>16 DEF MasterInv
<1> QED BY <1>3, <1>4

------------------------------------------------------------------------------
(* Forking.                                                                 *)

\* uwsgi_respawn_worker.
LEMMA SpawnIs ==
    ASSUME w \in [Wid -> Slot], proc \in [Wid -> Process], orphaned \in BOOLEAN,
           NEW S \in SUBSET Wid, NEW failed,
           \A i \in S : proc[i].at = "none", Spawn(w, proc, S, failed)
    PROVE /\ w' \in [Wid -> Slot] /\ proc' \in [Wid -> Process]
          /\ orphaned' = orphaned
          /\ late' = IF Leaving THEN late \cup (S \ failed) ELSE late
          /\ \A i \in Wid \ S : w'[i] = w[i] /\ proc'[i] = proc[i]
          /\ \A i \in S : /\ ~w'[i].cheaped /\ ~w'[i].accepting /\ w'[i].cursed = "no"
                          /\ w'[i].harakiri = "no" /\ (w[i].pid => w'[i].pid)
                          /\ IF i \in failed
                             THEN (w'[i].pid => w[i].pid) /\ proc'[i] = proc[i]
                             ELSE /\ w'[i].pid /\ proc'[i].at = "forked"
                                  /\ proc'[i].sig = {} /\ proc'[i].code = "end"
<1>1. PICK q : q = [NoProcess EXCEPT !.at = "forked"]
  OBVIOUS
<1>2. q \in Process /\ q.at = "forked" /\ q.sig = {} /\ q.code = "end"
  BY <1>1 DEF NoProcess, Process, Running, Codes
<1>3. /\ proc' = [i \in Wid |-> IF i \in S \ failed THEN q ELSE proc[i]]
      /\ late' = IF Leaving THEN late \cup (S \ failed) ELSE late
  BY <1>1 DEF Spawn
<1>4. orphaned' = orphaned
  <2>1. ~ \E i \in S \ failed : proc[i].at # "none"
    OBVIOUS
  <2>2. orphaned' = (orphaned \/ \E i \in S \ failed : proc[i].at # "none")
    BY DEF Spawn
  <2>3. orphaned' = (orphaned \/ FALSE)
    BY <2>1, <2>2
  <2> QED BY <2>3
<1>5. w' = [i \in Wid |->
              IF i \in S THEN [w[i] EXCEPT !.pid = (i \notin failed) \/ w[i].pid,
                                           !.cheaped = FALSE, !.accepting = FALSE,
                                           !.cursed = "no", !.harakiri = "no"]
              ELSE w[i]]
  BY DEF Spawn
<1>6. ASSUME NEW i \in S
      PROVE /\ w'[i] \in Slot
            /\ ~w'[i].cheaped /\ ~w'[i].accepting /\ w'[i].cursed = "no"
            /\ w'[i].harakiri = "no"
            /\ w'[i].pid <=> i \notin failed \/ w[i].pid
  <2>1. PICK s \in Slot : s = w[i]
    OBVIOUS
  <2>2. PICK b \in BOOLEAN : b <=> i \notin failed \/ s.pid
    <3>1. \/ (TRUE <=> i \notin failed \/ s.pid)
          \/ (FALSE <=> i \notin failed \/ s.pid)
      OBVIOUS
    <3> QED BY <3>1
  <2>3. w'[i] = [s EXCEPT !.pid = (i \notin failed) \/ s.pid,
                          !.cheaped = FALSE, !.accepting = FALSE,
                          !.cursed = "no", !.harakiri = "no"]
    BY <1>5, <2>1
  <2>4. ((i \notin failed) \/ s.pid) = b
    BY <2>2
  <2>5. w'[i] = [s EXCEPT !.pid = b, !.cheaped = FALSE, !.accepting = FALSE,
                          !.cursed = "no", !.harakiri = "no"]
    BY <2>3, <2>4
  <2> QED BY <2>1, <2>2, <2>5 DEF Slot
<1>7. \A i \in Wid \ S : w'[i] = w[i] /\ proc'[i] = proc[i]
  BY <1>3, <1>5
<1>8. \A i \in S : proc'[i] = IF i \in failed THEN proc[i] ELSE q
  BY <1>3
<1>9. w' \in [Wid -> Slot]
  <2>1. w' = [i \in Wid |-> w'[i]]
    BY <1>5
  <2>2. \A i \in Wid : w'[i] \in Slot
    BY <1>6, <1>7
  <2> QED BY <2>1, <2>2
<1>10. proc' \in [Wid -> Process]
  BY <1>2, <1>3
<1> QED BY <1>2, <1>3, <1>4, <1>6, <1>7, <1>8, <1>9, <1>10

\* After a fork the slots are sound, and no worker is cheaped.
LEMMA SpawnSteps ==
    ASSUME MasterInv, NEW S \in SUBSET Wid, \A i \in S : proc[i].at = "none",
           SpawnOrFail(S), conf' = conf,
           mpc' # "respawn", mpc = "respawn" => S = {dead},
           mpc' \in {"top", "wait"}, dead' \in 0..NumProc, others' = others,
           status' \in StatusType, ~status'.listening,
           status'.reloading <=> status.reloading, status'.dying <=> status.dying,
           cheap' \in [overload: 0..CheaperOverload, idle: 0..(CheaperOverload - 1), delta: -1..1],
           cheap'.delta = cheap.delta \/ cheap'.delta = 0
    PROVE TypeOK' /\ SlotsInv' /\ CheaperInv'
<1>0. /\ TypeOK /\ w \in [Wid -> Slot] /\ proc \in [Wid -> Process]
      /\ SlotsInv /\ CheaperInv /\ late \subseteq Wid /\ orphaned \in BOOLEAN
  BY DEF MasterInv, TypeOK
<1>1. PICK failed : /\ Spawn(w, proc, S, failed)
                    /\ NoEvent \/ (Event("fork") /\ failed # {})
                    /\ NoEvent => failed = {}
                    /\ failed # {} => Event("fork")
  <2>1. CASE NoEvent /\ Spawn(w, proc, S, {})
    BY <2>1
  <2>2. CASE \E i \in S : Event("fork") /\ Spawn(w, proc, S, {i})
    <3>1. PICK i \in S : Event("fork") /\ Spawn(w, proc, S, {i})
      BY <2>2
    <3>2. ~NoEvent
      <4>1. left \in Int /\ left' = left - 1
        BY <1>0, <3>1, MasterAssumption DEF Event, TypeOK
      <4> QED BY <4>1 DEF NoEvent
    <3> QED BY <3>1, <3>2
  <2> QED BY <2>1, <2>2 DEF SpawnOrFail
<1>2. EventsGo
  BY <1>0, <1>1, NoEventGoes, EventGoes DEF EventKinds
<1>3. failed # {} => "fork" \in seen'
  BY <1>1 DEF Event
<1>4. /\ w' \in [Wid -> Slot] /\ proc' \in [Wid -> Process]
      /\ orphaned' = orphaned
      /\ late' = IF Leaving THEN late \cup (S \ failed) ELSE late
      /\ \A i \in Wid \ S : w'[i] = w[i] /\ proc'[i] = proc[i]
      /\ \A i \in S : /\ ~w'[i].cheaped /\ ~w'[i].accepting /\ w'[i].cursed = "no"
                      /\ w'[i].harakiri = "no" /\ (w[i].pid => w'[i].pid)
                      /\ IF i \in failed
                         THEN (w'[i].pid => w[i].pid) /\ proc'[i] = proc[i]
                         ELSE /\ w'[i].pid /\ proc'[i].at = "forked"
                              /\ proc'[i].sig = {} /\ proc'[i].code = "end"
  BY <1>0, <1>1, SpawnIs
<1>5. TypeOK'
  <2>1. late' \subseteq Wid
    BY <1>0, <1>4
  <2>2. mpc' \in {"top", "cheaper", "wait", "respawn", "events"} \cup Final
    OBVIOUS
  <2> QED BY <1>0, <1>2, <1>4, <2>1, <2>2 DEF TypeOK, StatusType, EventsGo
<1>6. Leaving' <=> Leaving
  BY DEF Leaving
<1>7. ASSUME NEW i \in Wid PROVE SlotOK(i, w[i], proc[i])'
  <2>1. SlotOK(i, w[i], proc[i]) /\ seen \subseteq seen' /\ late \subseteq late'
    BY <1>0, <1>2, <1>4 DEF SlotsInv, EventsGo
  <2>2. CASE i \notin S
    <3>1. w'[i] = w[i] /\ proc'[i] = proc[i]
      BY <1>4, <2>2
    <3>2. ~(mpc = "respawn" /\ dead = i)
      BY <2>2
    <3> QED BY <1>6, <2>1, <3>1, <3>2 DEF SlotOK
  <2>3. CASE i \in S /\ i \notin failed
    <3>1. /\ w'[i].pid /\ proc'[i].at = "forked" /\ proc'[i].sig = {} /\ proc'[i].code = "end"
          /\ Leaving => i \in late'
      BY <1>4, <2>3
    <3> QED BY <1>6, <3>1 DEF SlotOK, Alive, Running
  <2>4. CASE i \in S /\ i \in failed
    <3>1. /\ w'[i].pid <=> w[i].pid
          /\ proc'[i] = proc[i] /\ proc[i].at = "none" /\ "fork" \in seen'
      BY <1>0, <1>3, <1>4, <2>4
    <3> QED BY <2>1, <3>1 DEF SlotOK, Alive, Running
  <2> QED BY <2>2, <2>3, <2>4
<1>8. SlotsInv'
  BY <1>0, <1>4, <1>7 DEF SlotsInv
<1>9. CheaperInv'
  <2>1. {i \in Wid : ~w[i].cheaped} \subseteq {i \in Wid : ~w'[i].cheaped}
    BY <1>4
  <2>2. Cardinality({i \in Wid : ~w[i].cheaped}) =< Cardinality({i \in Wid : ~w'[i].cheaped})
    <3>1. IsFiniteSet(Wid)
      BY WorkerAssumption, FS_Interval DEF Wid
    <3>2. IsFiniteSet({i \in Wid : ~w'[i].cheaped})
      BY <3>1, FS_Subset
    <3> QED BY <2>1, <3>2, FS_Subset
  <2>3. /\ Cardinality({i \in Wid : ~w[i].cheaped}) \in Nat
        /\ Cardinality({i \in Wid : ~w'[i].cheaped}) \in Nat
    <3>1. IsFiniteSet(Wid)
      BY WorkerAssumption, FS_Interval DEF Wid
    <3>2. /\ IsFiniteSet({i \in Wid : ~w'[i].cheaped})
          /\ IsFiniteSet({i \in Wid : ~w[i].cheaped})
      BY <3>1, FS_Subset
    <3> QED BY <3>2, FS_CardinalityType
  <2> QED BY <1>0, <1>2, <2>2, <2>3, MasterAssumption DEF CheaperInv, CheaperCountKept, EventsGo
<1> QED BY <1>5, <1>8, <1>9

\* The end of the loop; the chain goes on to its next worker.
LEMMA RespawnStep ==
    ASSUME MasterInv, Respawn
    PROVE MasterInv'
<1>0. /\ TypeOK /\ w \in [Wid -> Slot] /\ proc \in [Wid -> Process] /\ status \in StatusType
      /\ SlotsInv /\ ChainInv /\ CheaperInv /\ NumProc \in Nat \ {0}
  BY WorkerAssumption DEF MasterInv, TypeOK, StatusType
<1>1. /\ mpc = "respawn" /\ mpc' = "top" /\ dead' = 0 /\ conf' = conf /\ cheap' = cheap
      /\ others' = others /\ SpawnOrFail({dead})
  BY DEF Respawn
<1>2. dead \in Wid /\ ~status.listening /\ proc[dead].at = "none" /\ ~w[dead].pid
  <2>1. dead \in Wid /\ ~status.listening
    BY <1>0, <1>1 DEF SlotsInv, TypeOK, Wid
  <2> QED BY <1>0, <1>1, <2>1 DEF SlotsInv, SlotOK
<1>3. PICK n \in 0..(NumProc + 1) :
        /\ status' = [status EXCEPT !.chain_reloading = n]
        /\ status.chain_reloading = dead => n = dead + 1
        /\ status.chain_reloading # dead => n = status.chain_reloading
  <2>1. PICK n : n = IF status.chain_reloading = dead THEN status.chain_reloading + 1
                     ELSE status.chain_reloading
    OBVIOUS
  <2>2. n \in 0..(NumProc + 1)
    BY <1>0, <1>2, <2>1 DEF Wid, StatusType
  <2>3. status' = [status EXCEPT !.chain_reloading = n]
    BY <2>1 DEF Respawn
  <2> QED BY <2>1, <2>2, <2>3
<1>4. /\ status' \in StatusType /\ status'.chain_reloading = n
      /\ status'.listening = status.listening /\ status'.is_cheap = status.is_cheap
      /\ status'.dying = status.dying /\ status'.reloading = status.reloading
  BY <1>0, <1>3 DEF StatusType
<1>5. TypeOK' /\ SlotsInv' /\ CheaperInv'
  <2>1. \A i \in {dead} : proc[i].at = "none"
    BY <1>2
  <2>2. cheap' \in [overload: 0..CheaperOverload, idle: 0..(CheaperOverload - 1), delta: -1..1]
    BY <1>0, <1>1 DEF TypeOK
  <2> QED BY <1>0, <1>1, <1>2, <1>4, <2>1, <2>2, SpawnSteps
<1>6. ChainInv'
  <2> SUFFICES ASSUME seen' \subseteq {"chain"}, ~conf.cheaper
               PROVE /\ ~Leaving' /\ ~status'.is_cheap /\ ~status'.listening
                     /\ mpc' # "cheaper"
                     /\ \A i \in Wid : \/ Steady(w'[i], proc'[i])
                                       \/ Doomed(i, w[i], proc[i])'
                                       \/ Starting(i, w[i], proc[i])'
                     /\ \A i, j \in Wid : i # j =>
                           Steady(w'[i], proc'[i]) \/ Steady(w'[j], proc'[j])
    BY <1>1 DEF ChainInv, Steady
  <2>1. Spawn(w, proc, {dead}, {}) /\ seen' = seen
    BY <1>1 DEF SpawnOrFail, Event, NoEvent
  <2>2. /\ ~Leaving /\ ~status.is_cheap /\ ~status.listening
        /\ \A i \in Wid : \/ Steady(w[i], proc[i])
                          \/ Doomed(i, w[i], proc[i])
                          \/ Starting(i, w[i], proc[i])
        /\ \A i, j \in Wid : i # j => Steady(w[i], proc[i]) \/ Steady(w[j], proc[j])
    BY <1>0, <2>1 DEF ChainInv
  <2>3. /\ \A i \in Wid \ {dead} : w'[i] = w[i] /\ proc'[i] = proc[i]
        /\ ~w'[dead].cheaped /\ ~w'[dead].accepting /\ w'[dead].cursed = "no"
        /\ w'[dead].harakiri = "no"
        /\ w'[dead].pid /\ proc'[dead].at = "forked"
        /\ proc'[dead].sig = {} /\ proc'[dead].code = "end"
    <3>1. PICK S \in SUBSET Wid : S = {dead}
      BY <1>2
    <3>2. \A i \in S : proc[i].at = "none"
      BY <1>2, <3>1
    <3>3. PICK failed : failed = {}
      OBVIOUS
    <3>4. orphaned \in BOOLEAN /\ Spawn(w, proc, S, failed)
      BY <1>0, <2>1, <3>1, <3>3 DEF TypeOK
    <3>5. /\ w' \in [Wid -> Slot] /\ proc' \in [Wid -> Process]
          /\ orphaned' = orphaned
          /\ late' = IF Leaving THEN late \cup (S \ failed) ELSE late
          /\ \A i \in Wid \ S : w'[i] = w[i] /\ proc'[i] = proc[i]
          /\ \A i \in S : /\ ~w'[i].cheaped /\ ~w'[i].accepting /\ w'[i].cursed = "no"
                          /\ w'[i].harakiri = "no" /\ (w[i].pid => w'[i].pid)
                          /\ IF i \in failed
                             THEN (w'[i].pid => w[i].pid) /\ proc'[i] = proc[i]
                             ELSE /\ w'[i].pid /\ proc'[i].at = "forked"
                                  /\ proc'[i].sig = {} /\ proc'[i].code = "end"
      BY <1>0, <3>2, <3>4, SpawnIs
    <3> QED BY <3>1, <3>3, <3>5
  <2>4. ~Steady(w[dead], proc[dead]) /\ ~Starting(dead, w[dead], proc[dead])
    BY <1>2 DEF Steady, Starting
  <2>5. n = dead + 1
    BY <1>2, <1>3, <2>2, <2>4 DEF Doomed
  <2>6. ASSUME NEW i \in Wid, i = dead PROVE Starting(i, w[i], proc[i])'
    BY <1>1, <1>4, <2>3, <2>5, <2>6 DEF Starting
  <2>7. \A i \in Wid \ {dead} : Steady(w'[i], proc'[i])
    BY <1>2, <2>2, <2>3, <2>4
  <2>8. ~Leaving' /\ ~status'.is_cheap /\ ~status'.listening
    BY <1>4, <2>2 DEF Leaving
  <2>9. \A i \in Wid : Steady(w'[i], proc'[i]) \/ Starting(i, w[i], proc[i])'
    BY <2>6, <2>7
  <2> QED BY <1>1, <2>7, <2>8, <2>9
<1> QED BY <1>5, <1>6 DEF MasterInv

\* The workers come back from cheap mode.
LEMMA WakeUpStep ==
    ASSUME MasterInv, mpc = "events", mpc' = "top", dead' = dead, conf' = conf, WakeUp
    PROVE MasterInv'
<1>0. /\ TypeOK /\ status \in StatusType /\ NumProc \in Nat \ {0} /\ CheaperCount \in 1..NumProc
      /\ SlotsInv /\ ChainInv
  BY WorkerAssumption, MasterAssumption DEF MasterInv, TypeOK, StatusType
<1>1. PICK S : S = 1..(IF conf.cheaper THEN CheaperCount ELSE NumProc)
  OBVIOUS
<1>2. /\ status.is_cheap /\ status.listening /\ cheap' = cheap /\ others' = others
      /\ status' = [status EXCEPT !.is_cheap = FALSE, !.listening = FALSE]
      /\ SpawnOrFail(S)
  BY <1>1 DEF WakeUp
<1>3. S \in SUBSET Wid
  BY <1>0, <1>1 DEF Wid
<1>4. \A i \in S : proc[i].at = "none"
  BY <1>0, <1>2, <1>3 DEF SlotsInv, SlotOK
<1>5. /\ status' \in StatusType /\ ~status'.listening
      /\ status'.dying = status.dying /\ status'.reloading = status.reloading
  BY <1>0, <1>2 DEF StatusType
<1>6. /\ cheap' \in [overload: 0..CheaperOverload, idle: 0..(CheaperOverload - 1), delta: -1..1]
      /\ dead' \in 0..NumProc /\ cheap'.delta = cheap.delta
  BY <1>0, <1>2 DEF TypeOK
<1>7. TypeOK' /\ SlotsInv' /\ CheaperInv'
  BY <1>2, <1>3, <1>4, <1>5, <1>6, SpawnSteps
<1>8. seen \subseteq seen'
  BY <1>2 DEF SpawnOrFail, NoEvent, Event
<1>9. ChainInv'
  BY <1>0, <1>2, <1>8 DEF ChainInv
<1> QED BY <1>7, <1>9 DEF MasterInv

------------------------------------------------------------------------------
(* Cheaper.                                                                 *)

\* The type of the counters.
CheapType == [overload: 0..CheaperOverload, idle: 0..(CheaperOverload - 1), delta: -1..1]

\* The counters after a round of the algorithm.
LEMMA CountersAre ==
    ASSUME NEW c \in CheapType, NEW n \in 0..CheaperOverload, NEW m \in 0..(CheaperOverload - 1),
           NEW d, d = [c EXCEPT !.overload = n, !.idle = m]
    PROVE d \in CheapType /\ d.delta = c.delta
BY DEF CheapType

\* What the spare algorithm wants: fewer workers only when there are too many
\* and one of them is free.
LEMMA AlgorithmIs ==
    ASSUME TypeOK
    PROVE /\ SpareAlgorithm.cheap \in CheapType
          /\ SpareAlgorithm.cheap.delta = cheap.delta
          /\ SpareAlgorithm.needed \in -1..1
          /\ SpareAlgorithm.needed < 0 => TooMany /\ Active # Busy
<1>1. cheap \in CheapType /\ CheaperOverload \in Nat \ {0}
  BY MasterAssumption DEF TypeOK, CheapType
<1>2. cheap.overload \in 0..CheaperOverload /\ cheap.idle \in 0..(CheaperOverload - 1)
  BY <1>1 DEF CheapType
<1>3. /\ Overload \in 0..(CheaperOverload + 1)
      /\ Overload = 0 => Active # Busy
  BY <1>1, <1>2 DEF Overload
<1>4. Idles \in 0..(CheaperOverload - 1)
  <2>1. PICK k : k = (IF Active = Busy THEN 0 ELSE cheap.idle) + 1
    OBVIOUS
  <2>2. k \in Nat
    BY <1>1, <1>2, <2>1
  <2>3. Idles = k % CheaperOverload
    BY <2>1 DEF Idles
  <2> QED BY <1>1, <2>2, <2>3
<1>5. CASE Overload > CheaperOverload
  <2>1. PICK d : d = [cheap EXCEPT !.overload = 0, !.idle = 0]
    OBVIOUS
  <2>2. d \in CheapType /\ d.delta = cheap.delta
    <3>1. 0 \in 0..CheaperOverload /\ 0 \in 0..(CheaperOverload - 1)
      BY <1>1
    <3> QED BY <1>1, <2>1, <3>1, CountersAre
  <2>3. PICK n \in {0, 1} : n = IF Spare = {} THEN 0 ELSE 1
    OBVIOUS
  <2>4. SpareAlgorithm = [needed |-> n, cheap |-> d]
    BY <1>5, <2>1, <2>3 DEF SpareAlgorithm
  <2> QED BY <2>2, <2>4
<1>6. CASE ~(Overload > CheaperOverload) /\ (Overload = 0 /\ ~OneFree)
  <2>1. PICK m \in 0..(CheaperOverload - 1) : m = Idles
    BY <1>4
  <2>2. PICK d : d = [cheap EXCEPT !.overload = 0, !.idle = m]
    OBVIOUS
  <2>3. d \in CheapType /\ d.delta = cheap.delta
    <3>1. 0 \in 0..CheaperOverload
      BY <1>1
    <3> QED BY <1>1, <2>2, <3>1, CountersAre
  <2>4. PICK n \in {0, -1} : n = IF TooMany /\ Idles = 0 THEN -1 ELSE 0
    OBVIOUS
  <2>5. SpareAlgorithm = [needed |-> n, cheap |-> d]
    BY <1>6, <2>1, <2>2, <2>4 DEF SpareAlgorithm
  <2>6. n < 0 => TooMany
    BY <2>4
  <2> QED BY <1>3, <1>6, <2>3, <2>5, <2>6
<1>7. CASE ~(Overload > CheaperOverload) /\ ~(Overload = 0 /\ ~OneFree)
  <2>1. PICK n \in 0..CheaperOverload : n = Overload
    BY <1>1, <1>3, <1>7
  <2>2. PICK m \in 0..(CheaperOverload - 1) : m = IF Active = Busy THEN 0 ELSE cheap.idle
    BY <1>1, <1>2
  <2>3. PICK d : d = [cheap EXCEPT !.overload = n, !.idle = m]
    OBVIOUS
  <2>4. d \in CheapType /\ d.delta = cheap.delta
    BY <1>1, <2>3, CountersAre
  <2>5. SpareAlgorithm = [needed |-> 0, cheap |-> d]
    BY <1>7, <2>1, <2>2, <2>3 DEF SpareAlgorithm
  <2> QED BY <2>4, <2>5
<1> QED BY <1>5, <1>6, <1>7

\* What the fifo and the algorithm want.
LEMMA WantedIs ==
    ASSUME TypeOK
    PROVE /\ Wanted.cheap \in CheapType
          /\ Wanted.cheap.delta = cheap.delta \/ Wanted.cheap.delta = 0
          /\ Wanted.needed \in -1..1
          /\ Wanted.needed < 0 => cheap.delta # 0 \/ (TooMany /\ Active # Busy)
<1>1. cheap \in CheapType
  BY DEF TypeOK, CheapType
<1>2. CASE cheap.delta # 0
  <2>1. Wanted = [needed |-> cheap.delta, cheap |-> [cheap EXCEPT !.delta = 0]]
    BY <1>2 DEF Wanted
  <2> QED BY <1>1, <1>2, <2>1 DEF CheapType
<1>3. CASE cheap.delta = 0
  <2>1. Wanted = SpareAlgorithm
    BY <1>3 DEF Wanted
  <2> QED BY <2>1, AlgorithmIs
<1> QED BY <1>2, <1>3

\* A worker is told to stop.
LEMMA RetireStep ==
    ASSUME MasterInv, mpc = "cheaper", mpc' = "wait", Wanted.needed < 0, Retire(Wanted), NoEvent,
           UNCHANGED <<conf, dead, status, others, late, orphaned>>
    PROVE MasterInv'
<1>0. /\ TypeOK /\ w \in [Wid -> Slot] /\ proc \in [Wid -> Process]
      /\ SlotsInv /\ ChainInv /\ CheaperInv
      /\ seen' = seen /\ left' = left /\ conf' = conf /\ status' = status /\ dead' = dead
      /\ others' = others /\ late' = late /\ orphaned' = orphaned
  BY DEF MasterInv, TypeOK, NoEvent
<1>1. PICK c \in CheapType : c = Wanted.cheap
  BY <1>0, WantedIs
<1>2. /\ c.delta = cheap.delta \/ c.delta = 0
      /\ cheap.delta # 0 \/ (TooMany /\ Active # Busy)
  BY <1>0, <1>1, WantedIs
<1>3. ChainInv'
  BY <1>0 DEF ChainInv
<1>4. CASE Active = Busy
  <2>1. cheap' = [c EXCEPT !.delta = -1] /\ w' = w /\ proc' = proc
    BY <1>1, <1>4 DEF Retire
  <2>2. cheap' \in CheapType
    BY <2>1 DEF CheapType
  <2>3. TypeOK'
    BY <1>0, <2>1, <2>2 DEF TypeOK, CheapType
  <2>4. Quiet
    BY <1>0, <2>1 DEF Quiet, SameSlot, SameProc
  <2>5. SlotsInv'
    BY <1>0, <2>4, QuietSlots DEF Leaving
  <2>6. CheaperInv'
    BY <1>0, <1>2, <1>4, <2>1 DEF CheaperInv, CheaperCountKept
  <2> QED BY <1>3, <2>3, <2>5, <2>6 DEF MasterInv
<1>5. CASE Active # Busy
  <2>1. PICK i \in Active \ Busy :
          /\ w' = [w EXCEPT ![i] = [w[i] EXCEPT !.cheaped = TRUE, !.cursed = "cursed",
                                                !.manage_next_request = FALSE]]
          /\ proc' = Signalled(proc, {i}, "WINCH")
    BY <1>5 DEF Retire
  <2>2. cheap' = c
    BY <1>1, <1>5 DEF Retire
  <2>3. i \in Wid /\ w[i].pid /\ ~w[i].cheaped
    BY DEF Active
  <2>4. PICK s \in Slot : s = w[i]
    BY <1>0, <2>3
  <2>5. PICK t : t = [s EXCEPT !.cheaped = TRUE, !.cursed = "cursed",
                               !.manage_next_request = FALSE]
    OBVIOUS
  <2>6. /\ t \in Slot /\ t.cheaped /\ t.cursed = "cursed" /\ (t.pid <=> s.pid)
    BY <2>5 DEF Slot
  <2>7. /\ w' \in [Wid -> Slot] /\ w'[i] = t
        /\ \A j \in Wid : j # i => w'[j] = w[j]
    BY <1>0, <2>1, <2>3, <2>4, <2>5, <2>6
  <2>8. /\ proc' \in [Wid -> Process]
        /\ \A j \in Wid : /\ SameProc(proc[j], proc'[j])
                          /\ proc'[j].code = proc[j].code
                          /\ proc'[j].at = proc[j].at
    <3>1. "WINCH" \in Signals
      BY DEF Signals
    <3> QED BY <1>0, <2>1, <3>1, SignalledIs
  <2>9. TypeOK'
    BY <1>0, <2>2, <2>7, <2>8 DEF TypeOK, CheapType
  <2>10. ASSUME NEW j \in Wid PROVE SlotOK(j, w[j], proc[j])'
    <3>1. SlotOK(j, w[j], proc[j]) /\ SameProc(proc[j], proc'[j])
          /\ proc'[j].code = proc[j].code /\ proc'[j].at = proc[j].at
      BY <1>0, <2>8 DEF SlotsInv
    <3>2. \/ w'[j] = w[j]
          \/ w'[j].cheaped /\ w'[j].cursed = "cursed" /\ (w'[j].pid <=> w[j].pid)
      BY <2>4, <2>6, <2>7
    <3>3. Leaving' <=> Leaving
      BY <1>0 DEF Leaving
    <3> QED BY <1>0, <3>1, <3>2, <3>3 DEF SlotOK, SameProc, Alive
  <2>11. SlotsInv'
    BY <1>0, <2>10 DEF SlotsInv
  <2>12. CheaperInv'
    <3>1. "delta" \notin seen' => cheap'.delta = 0
      BY <1>0, <1>2, <2>2 DEF CheaperInv
    <3>2. SUFFICES ASSUME cheap.delta = 0
                   PROVE Cardinality({j \in Wid : ~w'[j].cheaped}) >= CheaperCount
      BY <1>0, <3>1 DEF CheaperInv, CheaperCountKept
    <3>3. PICK U : U = {j \in Wid : ~w[j].cheaped}
      OBVIOUS
    <3>4. {j \in Wid : ~w'[j].cheaped} = U \ {i}
      BY <2>3, <2>6, <2>7, <3>3
    <3>5. IsFiniteSet(U)
      <4>1. IsFiniteSet(Wid)
        BY WorkerAssumption, FS_Interval DEF Wid
      <4> QED BY <3>3, <4>1, FS_Subset
    <3>6. Cardinality(Active) > CheaperCount
      BY <1>2, <3>2 DEF TooMany
    <3>7. Active \subseteq U /\ i \in U
      BY <2>3, <3>3 DEF Active
    <3>8. Cardinality(Active) =< Cardinality(U) /\ IsFiniteSet(Active)
      BY <3>5, <3>7, FS_Subset
    <3>9. Cardinality(U \ {i}) = Cardinality(U) - 1
      BY <3>5, <3>7, FS_RemoveElement
    <3>10. Cardinality(U) \in Nat /\ Cardinality(Active) \in Nat
      BY <3>5, <3>8, FS_CardinalityType
    <3>11. CheaperCount \in Nat
      BY MasterAssumption, WorkerAssumption
    <3>12. Cardinality(U \ {i}) >= CheaperCount
      BY <3>6, <3>8, <3>9, <3>10, <3>11
    <3> QED BY <3>4, <3>12
  <2> QED BY <1>3, <2>9, <2>11, <2>12 DEF MasterInv
<1> QED BY <1>4, <1>5

\* uwsgi_calc_cheaper.
LEMMA CheaperStep ==
    ASSUME MasterInv, CalcCheaper
    PROVE MasterInv'
<1>0. /\ TypeOK /\ status \in StatusType /\ SlotsInv /\ ChainInv /\ CheaperInv
  BY DEF MasterInv, TypeOK, StatusType
<1>1. /\ mpc = "cheaper" /\ mpc' = "wait"
      /\ conf' = conf /\ dead' = dead /\ status' = status /\ others' = others
  BY DEF CalcCheaper
<1>2. CASE /\ w' = w /\ proc' = proc /\ late' = late /\ orphaned' = orphaned /\ NoEvent
           /\ cheap' \in CheapType /\ (cheap'.delta = cheap.delta \/ cheap'.delta = 0)
  <2>1. seen' = seen /\ left' = left
    BY <1>2 DEF NoEvent
  <2>2. Quiet
    BY <1>1, <1>2, <2>1 DEF Quiet, SameSlot, SameProc
  <2>3. SlotsInv'
    BY <1>0, <1>1, <1>2, <2>2, QuietSlots DEF Leaving
  <2>4. TypeOK'
    BY <1>0, <1>1, <1>2, <2>1 DEF TypeOK, CheapType
  <2>5. CheaperInv' /\ ChainInv'
    BY <1>0, <1>1, <1>2, <2>1 DEF CheaperInv, CheaperCountKept, ChainInv
  <2> QED BY <2>3, <2>4, <2>5 DEF MasterInv
<1>3. CASE /\ Spare # {} /\ cheap' = Wanted.cheap
           /\ SpawnOrFail({CHOOSE i \in Spare : \A j \in Spare : i =< j})
  <2>1. Spare \in SUBSET Nat
    BY WorkerAssumption DEF Spare, Wid
  <2>2. PICK i \in Spare : i = CHOOSE k \in Spare : \A j \in Spare : k =< j
    BY <1>3, <2>1, LeastNumber
  <2>3. PICK S : S = {i}
    OBVIOUS
  <2>4. SpawnOrFail(S)
    BY <1>3, <2>2, <2>3
  <2>5. S \in SUBSET Wid
    BY <2>3 DEF Spare
  <2>6. \A j \in S : proc[j].at = "none"
    BY <1>0, <2>3 DEF Spare, SlotsInv, SlotOK
  <2>7. /\ cheap' \in [overload: 0..CheaperOverload, idle: 0..(CheaperOverload - 1), delta: -1..1]
        /\ cheap'.delta = cheap.delta \/ cheap'.delta = 0
    BY <1>0, <1>3, WantedIs DEF CheapType
  <2>8. ~status.listening /\ dead' \in 0..NumProc
    BY <1>0, <1>1 DEF SlotsInv, TypeOK
  <2>9. TypeOK' /\ SlotsInv' /\ CheaperInv'
    BY <1>0, <1>1, <2>4, <2>5, <2>6, <2>7, <2>8, SpawnSteps
  <2>10. seen \subseteq seen'
    BY <2>4 DEF SpawnOrFail, NoEvent, Event
  <2>11. ChainInv'
    BY <1>0, <1>1, <2>10 DEF ChainInv
  <2> QED BY <2>9, <2>11 DEF MasterInv
<1>4. CASE Wanted.needed < 0 /\ Retire(Wanted) /\ UNCHANGED <<late, orphaned>> /\ NoEvent
  BY <1>1, <1>4, RetireStep
<1>5. cheap \in CheapType
  BY <1>0 DEF TypeOK, CheapType
<1>6. /\ Wanted.cheap \in CheapType
      /\ Wanted.cheap.delta = cheap.delta \/ Wanted.cheap.delta = 0
  BY <1>0, WantedIs
<1> QED BY <1>2, <1>3, <1>4, <1>5, <1>6 DEF CalcCheaper

------------------------------------------------------------------------------
(* Somebody died.                                                           *)

\* A worker is buried, and the others are there as before.
LEMMA BurialKeeps ==
    ASSUME MasterInv, mpc = "wait", NEW i \in Wid, proc[i].at = "zombie",
           w' \in [Wid -> Slot], proc' \in [Wid -> Process],
           ~w'[i].pid, proc'[i].at = "none", proc'[i].sig = {}, proc'[i].code = "end",
           w[i].cheaped => w'[i].cheaped,
           w'[i].cheaped => w[i].cheaped \/ "cheap" \in seen,
           \A j \in Wid \ {i} : /\ SameSlot(w[j], w'[j]) /\ SameProc(proc[j], proc'[j])
                                /\ proc'[j].code = proc[j].code,
           NoEvent, UNCHANGED <<conf, cheap, late, orphaned>>, others' \in BOOLEAN,
           status' \in StatusType, status'.listening <=> status.listening,
           status.is_cheap => status'.is_cheap,
           Leaving => Leaving', ~Leaving /\ Leaving' => AllCursed,
           mpc' \in {"top", "respawn"}, mpc' = "respawn" \/ Leaving' \/ w'[i].cheaped,
           dead' = IF mpc' = "respawn" THEN i ELSE 0
    PROVE TypeOK' /\ SlotsInv' /\ CheaperInv'
<1>0. /\ TypeOK /\ SlotsInv /\ CheaperInv /\ i # 0 /\ dead' \in 0..NumProc
      /\ seen' = seen /\ left' = left /\ conf' = conf /\ cheap' = cheap /\ late' = late
      /\ orphaned' = orphaned
  BY WorkerAssumption DEF MasterInv, TypeOK, NoEvent, Wid
<1>1. TypeOK'
  BY <1>0 DEF TypeOK, StatusType
<1>2. ASSUME NEW j \in Wid PROVE SlotOK(j, w[j], proc[j])'
  <2>1. SlotOK(j, w[j], proc[j])
    BY <1>0 DEF SlotsInv
  <2>2. CASE j = i
    BY <2>2 DEF SlotOK, Alive, Running
  <2>3. CASE j # i
    <3>1. /\ SameSlot(w[j], w'[j]) /\ SameProc(proc[j], proc'[j])
          /\ proc'[j].code = proc[j].code
      BY <2>3
    <3>2. ~Leaving /\ Leaving' /\ Alive(proc'[j]) => w'[j].cursed # "no"
      BY DEF AllCursed
    <3>3. ~(mpc' = "respawn" /\ dead' = j)
      BY <2>3
    <3> QED BY <1>0, <2>1, <3>1, <3>2, <3>3 DEF SlotOK, SameSlot, SameProc
  <2> QED BY <2>2, <2>3
<1>3. ~status.listening
  BY <1>0 DEF SlotsInv, SlotOK
<1>4. SlotsInv'
  BY <1>0, <1>2, <1>3 DEF SlotsInv
<1>5. CheaperInv'
  <2>1. CASE "cheap" \in seen
    BY <1>0, <2>1 DEF CheaperInv, CheaperCountKept
  <2>2. CASE "cheap" \notin seen
    <3>1. {j \in Wid : ~w'[j].cheaped} = {j \in Wid : ~w[j].cheaped}
      BY <2>2 DEF SameSlot
    <3> QED BY <1>0, <3>1 DEF CheaperInv, CheaperCountKept
  <2> QED BY <2>1, <2>2
<1> QED BY <1>1, <1>4, <1>5

\* waitpid finds a worker.
LEMMA ReapStep ==
    ASSUME MasterInv, Reap
    PROVE MasterInv'
<1>0. /\ TypeOK /\ w \in [Wid -> Slot] /\ proc \in [Wid -> Process] /\ status \in StatusType
      /\ SlotsInv /\ ChainInv /\ CheaperInv
      /\ \A j \in Wid : proc[j].at # "none" => w[j].pid
  BY DEF MasterInv, TypeOK, StatusType, SlotsInv, SlotOK
<1>1. /\ mpc = "wait" /\ NoEvent /\ UNCHANGED <<conf, cheap, late, orphaned>>
      /\ seen' = seen /\ conf' = conf
  BY DEF Reap, NoEvent
<1>2. PICK i \in Wid : /\ proc[i].at = "zombie"
                       /\ AfterDeath(i, proc[i].code)
                       /\ dead' = IF mpc' = "respawn" THEN i ELSE 0
  BY DEF Reap
<1>3. PICK s \in Slot : s = w[i]
  BY <1>0
<1>4. PICK code \in Codes : code = proc[i].code
  BY <1>0 DEF Process
<1>5. PICK t : t = [s EXCEPT !.pid = FALSE, !.harakiri = "no"]
  OBVIOUS
<1>6. /\ t \in Slot /\ ~t.pid /\ t.cheaped = s.cheaped /\ t.cursed = s.cursed
  BY <1>5 DEF Slot
<1>7. PICK slots : slots = Buried(i)
  OBVIOUS
<1>8. /\ slots \in [Wid -> Slot] /\ slots[i] = t
      /\ \A j \in Wid : j # i => slots[j] = w[j]
  BY <1>0, <1>3, <1>5, <1>6, <1>7 DEF Buried
<1>9. PICK procs : procs = [proc EXCEPT ![i] = NoProcess]
  OBVIOUS
<1>10. /\ procs \in [Wid -> Process] /\ procs[i] = NoProcess
       /\ \A j \in Wid : j # i => procs[j] = proc[j]
       /\ NoProcess.at = "none" /\ NoProcess.sig = {} /\ NoProcess.code = "end"
  <2>1. NoProcess \in Process
    BY DEF NoProcess, Process, Codes
  <2>2. NoProcess.at = "none" /\ NoProcess.sig = {} /\ NoProcess.code = "end"
    BY DEF NoProcess
  <2> QED BY <1>0, <1>9, <2>1, <2>2
<1>11. \A j \in Wid : procs[j].at # "none" => slots[j].pid
  BY <1>0, <1>8, <1>10
<1>12. code = "cheap" => "cheap" \in seen
  BY <1>0, <1>4 DEF SlotsInv, SlotOK
<1>13. ASSUME NEW slots2 \in [Wid -> Slot], NEW u \in Slot, u = slots2[i],
              \A j \in Wid : j # i => slots2[j] = slots[j],
              ~u.pid, s.cheaped => u.cheaped, u.cheaped => s.cheaped \/ "cheap" \in seen,
              Handled(slots2, procs)
       PROVE /\ w' \in [Wid -> Slot] /\ proc' \in [Wid -> Process]
             /\ ~w'[i].pid /\ proc'[i].at = "none" /\ proc'[i].sig = {} /\ proc'[i].code = "end"
             /\ w[i].cheaped => w'[i].cheaped
             /\ w'[i].cheaped => w[i].cheaped \/ "cheap" \in seen
             /\ w'[i].cheaped <=> u.cheaped
             /\ \A j \in Wid \ {i} : /\ SameSlot(w[j], w'[j]) /\ SameProc(proc[j], proc'[j])
                                     /\ proc'[j].code = proc[j].code
  <2>1. /\ w' \in [Wid -> Slot] /\ proc' \in [Wid -> Process]
        /\ \A j \in Wid : /\ SameSlot(slots2[j], w'[j])
                          /\ SameProc(procs[j], proc'[j])
                          /\ proc'[j].code = procs[j].code
    BY <1>13 DEF Handled
  <2>2. /\ SameSlot(u, w'[i]) /\ SameProc(NoProcess, proc'[i]) /\ proc'[i].code = "end"
    BY <1>10, <1>13, <2>1
  <2>3. ~w'[i].pid /\ (w'[i].cheaped <=> u.cheaped)
    BY <1>13, <2>2 DEF SameSlot
  <2>4. proc'[i].at = "none" /\ proc'[i].sig = {}
    BY <1>10, <2>2 DEF SameProc, Alive, Running
  <2>5. \A j \in Wid \ {i} : slots2[j] = w[j] /\ procs[j] = proc[j]
    BY <1>8, <1>10, <1>13
  <2> QED BY <1>3, <1>13, <2>1, <2>2, <2>3, <2>4, <2>5
<1>14. CASE code = "failed"
  <2>1. /\ KillThemAll(slots, procs, "INT", [status EXCEPT !.dying_for_need_app = TRUE])
        /\ mpc' = "top"
    BY <1>2, <1>4, <1>7, <1>9, <1>14 DEF AfterDeath
  <2>2. PICK st : st = [status EXCEPT !.dying_for_need_app = TRUE]
    OBVIOUS
  <2>3. st \in StatusType /\ st.listening = status.listening /\ st.is_cheap = status.is_cheap
    BY <1>0, <2>2 DEF StatusType
  <2>4. "INT" \in Signals /\ KillThemAll(slots, procs, "INT", st)
    BY <2>1, <2>2 DEF Signals
  <2>5. /\ Handled(slots, procs) /\ (~status.dying => AllCursed) /\ others' \in BOOLEAN
        /\ status' \in StatusType /\ status'.dying /\ status'.listening = st.listening
        /\ status'.is_cheap = st.is_cheap
    BY <1>0, <1>8, <1>10, <1>11, <2>3, <2>4, KillIs
  <2>6. TypeOK' /\ SlotsInv' /\ CheaperInv'
    BY <1>1, <1>2, <1>6, <1>8, <1>13, <2>1, <2>3, <2>5, BurialKeeps DEF Leaving
  <2>7. ~(seen \subseteq {"chain"} /\ ~conf.cheaper)
    BY <1>0, <1>2, <1>4, <1>14 DEF ChainInv, Steady, Doomed, Starting
  <2>8. ChainInv'
    BY <1>1, <2>7 DEF ChainInv
  <2> QED BY <2>6, <2>8 DEF MasterInv
<1>15. CASE code # "failed" /\ Leaving
  <2>1. PICK u : u = [t EXCEPT !.cursed = "no"]
    OBVIOUS
  <2>2. u \in Slot /\ ~u.pid /\ u.cheaped = s.cheaped
    BY <1>6, <2>1 DEF Slot
  <2>3. PICK slots2 : slots2 = [slots EXCEPT ![i] = u]
    OBVIOUS
  <2>4. /\ slots2 \in [Wid -> Slot] /\ slots2[i] = u
        /\ \A j \in Wid : j # i => slots2[j] = slots[j]
    BY <1>8, <2>2, <2>3
  <2>5. Ignored(slots2, procs) /\ mpc' = "top" /\ status' = status
    BY <1>2, <1>4, <1>7, <1>8, <1>9, <1>15, <2>1, <2>3 DEF AfterDeath
  <2>6. Handled(slots2, procs) /\ others' = others
    BY <1>10, <2>4, <2>5, IgnoredIs
  <2>7. others' \in BOOLEAN
    BY <1>0, <2>6 DEF TypeOK
  <2>8. Leaving'
    BY <1>15, <2>5 DEF Leaving
  <2>9. TypeOK' /\ SlotsInv' /\ CheaperInv'
    BY <1>0, <1>1, <1>2, <1>13, <1>15, <2>2, <2>4, <2>5, <2>6, <2>7, <2>8, BurialKeeps
  <2>10. ChainInv'
    BY <1>0, <1>1, <1>15 DEF ChainInv
  <2> QED BY <2>9, <2>10 DEF MasterInv
<1>16. CASE code = "brutal" /\ ~Leaving
  <2>1. ReapThemAll(slots, procs) /\ mpc' = "top"
    BY <1>2, <1>4, <1>7, <1>9, <1>16 DEF AfterDeath
  <2>2. /\ Handled(slots, procs) /\ (~status.reloading => AllCursed) /\ others' \in BOOLEAN
        /\ status' \in StatusType /\ status'.reloading /\ status'.listening = status.listening
        /\ status'.is_cheap = status.is_cheap
    BY <1>0, <1>8, <1>10, <1>11, <2>1, ReapIs
  <2>3. TypeOK' /\ SlotsInv' /\ CheaperInv'
    BY <1>1, <1>2, <1>6, <1>8, <1>13, <2>1, <2>2, BurialKeeps DEF Leaving
  <2>4. ~(seen \subseteq {"chain"} /\ ~conf.cheaper)
    BY <1>0, <1>2, <1>4, <1>16 DEF ChainInv, Steady, Doomed, Starting
  <2>5. ChainInv'
    BY <1>1, <2>4 DEF ChainInv
  <2> QED BY <2>3, <2>5 DEF MasterInv
<1>17. CASE code \notin {"failed", "brutal"} /\ ~Leaving
  <2>1. PICK b \in BOOLEAN : b = (code = "cheap" \/ t.cheaped)
    OBVIOUS
  <2>2. PICK u : u = [t EXCEPT !.cheaped = b]
    OBVIOUS
  <2>3. u \in Slot /\ ~u.pid /\ u.cheaped = b /\ u.cursed = s.cursed
    BY <1>6, <2>2 DEF Slot
  <2>4. PICK slots2 : slots2 = [slots EXCEPT ![i] = u]
    OBVIOUS
  <2>5. /\ slots2 \in [Wid -> Slot] /\ slots2[i] = u
        /\ \A j \in Wid : j # i => slots2[j] = slots[j]
    BY <1>8, <2>3, <2>4
  <2>6. /\ Ignored(slots2, procs) /\ status' = status
        /\ mpc' = IF b THEN "top" ELSE "respawn"
    BY <1>2, <1>4, <1>7, <1>8, <1>9, <1>17, <2>1, <2>2, <2>4 DEF AfterDeath
  <2>7. Handled(slots2, procs) /\ others' = others
    BY <1>10, <2>5, <2>6, IgnoredIs
  <2>8. others' \in BOOLEAN
    BY <1>0, <2>7 DEF TypeOK
  <2>9. /\ s.cheaped => u.cheaped
        /\ u.cheaped => s.cheaped \/ "cheap" \in seen
    BY <1>6, <1>12, <2>1, <2>3
  <2>10. Leaving' <=> Leaving
    BY <2>6 DEF Leaving
  <2>11. TypeOK' /\ SlotsInv' /\ CheaperInv'
    BY <1>0, <1>1, <1>2, <1>13, <1>17, <2>3, <2>5, <2>6, <2>7, <2>8, <2>9, <2>10, BurialKeeps
  <2>12. ChainInv'
    <3> SUFFICES ASSUME seen \subseteq {"chain"}, ~conf.cheaper
                 PROVE /\ ~Leaving' /\ ~status'.is_cheap /\ ~status'.listening
                       /\ mpc' # "cheaper"
                       /\ \A j \in Wid : \/ Steady(w'[j], proc'[j])
                                         \/ Doomed(j, w[j], proc[j])'
                                         \/ Starting(j, w[j], proc[j])'
                       /\ \A j, k \in Wid : j # k =>
                             Steady(w'[j], proc'[j]) \/ Steady(w'[k], proc'[k])
      BY <1>1 DEF ChainInv, Steady
    <3>1. /\ ~Leaving /\ ~status.is_cheap /\ ~status.listening
          /\ \A j \in Wid : \/ Steady(w[j], proc[j])
                            \/ Doomed(j, w[j], proc[j])
                            \/ Starting(j, w[j], proc[j])
          /\ \A j, k \in Wid : j # k => Steady(w[j], proc[j]) \/ Steady(w[k], proc[k])
      BY <1>0 DEF ChainInv
    <3>2. Doomed(i, w[i], proc[i]) /\ ~Steady(w[i], proc[i])
      BY <1>2, <3>1 DEF Steady, Starting
    <3>3. /\ ~s.cheaped /\ s.cursed # "no" /\ status.chain_reloading = i
          /\ code = "end"
      BY <1>1, <1>2, <1>3, <1>4, <3>2 DEF Doomed
    <3>4. mpc' = "respawn" /\ dead' = i /\ ~u.cheaped /\ u.cursed # "no"
      BY <1>2, <1>6, <2>1, <2>3, <2>6, <3>3
    <3>5. /\ w'[i] = u /\ proc'[i].at = "none"
          /\ \A j \in Wid \ {i} : w'[j] = w[j] /\ proc'[j] = proc[j]
      BY <1>8, <1>10, <2>5, <2>6 DEF Ignored
    <3>6. Doomed(i, w[i], proc[i])'
      BY <2>6, <3>3, <3>4, <3>5 DEF Doomed
    <3>7. \A j \in Wid \ {i} : Steady(w'[j], proc'[j])
      BY <3>1, <3>2, <3>5
    <3>8. \A j \in Wid : Steady(w'[j], proc'[j]) \/ Doomed(j, w[j], proc[j])'
      BY <3>6, <3>7
    <3> QED BY <2>6, <2>10, <3>1, <3>4, <3>7, <3>8
  <2> QED BY <2>11, <2>12 DEF MasterInv
<1> QED BY <1>14, <1>15, <1>16, <1>17

------------------------------------------------------------------------------
(* Nobody died; events and deadlines.                                       *)

\* The chain does not care where the loop is.
LEMMA SameChain ==
    ASSUME ChainInv, w' = w, proc' = proc, seen \subseteq seen', conf' = conf,
           dead' = dead, status' = status,
           mpc # "respawn", mpc' # "respawn", mpc' # "cheaper"
    PROVE ChainInv'
BY DEF ChainInv, Steady, Doomed, Starting, Leaving

\* No worker is there, nor listed.
LEMMA NobodyDiedStep ==
    ASSUME MasterInv, NobodyDied
    PROVE MasterInv'
<1>0. /\ TypeOK /\ w \in [Wid -> Slot] /\ proc \in [Wid -> Process]
      /\ SlotsInv /\ ChainInv /\ CheaperInv
  BY DEF MasterInv, TypeOK
<1>1. /\ mpc = "wait" /\ mpc' = "events" /\ seen' = seen /\ left' = left /\ conf' = conf
      /\ proc' = proc /\ dead' = dead /\ status' = status /\ cheap' = cheap
      /\ others' = others /\ late' = late /\ orphaned' = orphaned
  BY DEF NobodyDied, NoEvent
<1>2. CASE w' = w
  <2>1. Quiet
    BY <1>1, <1>2 DEF Quiet, SameSlot, SameProc
  <2>2. SlotsInv' /\ CheaperInv'
    BY <1>0, <1>1, <2>1, QuietSlots, QuietCheaper DEF Leaving
  <2>3. TypeOK'
    BY <1>0, <1>1, <1>2 DEF TypeOK
  <2>4. ChainInv'
    BY <1>0, <1>1, <1>2, SameChain
  <2> QED BY <2>2, <2>3, <2>4 DEF MasterInv
<1>3. CASE /\ \A i \in Wid : proc[i].at = "none"
           /\ w' = [i \in Wid |-> [w[i] EXCEPT !.pid = FALSE]]
  <2>1. ASSUME NEW i \in Wid
        PROVE /\ w'[i] \in Slot /\ ~w'[i].pid
              /\ w'[i].cheaped = w[i].cheaped /\ w'[i].cursed = w[i].cursed
    <3>1. PICK s \in Slot : s = w[i]
      BY <1>0
    <3>2. w'[i] = [s EXCEPT !.pid = FALSE]
      BY <1>3, <3>1
    <3> QED BY <3>1, <3>2 DEF Slot
  <2>2. w' \in [Wid -> Slot]
    BY <1>3, <2>1
  <2>3. TypeOK'
    BY <1>0, <1>1, <2>2 DEF TypeOK
  <2>4. ASSUME NEW i \in Wid PROVE SlotOK(i, w[i], proc[i])'
    <3>1. SlotOK(i, w[i], proc[i]) /\ proc[i].at = "none"
      BY <1>0, <1>3 DEF SlotsInv
    <3> QED BY <1>1, <2>1, <3>1 DEF SlotOK, Leaving, Alive, Running
  <2>5. SlotsInv'
    BY <1>0, <1>1, <2>4 DEF SlotsInv
  <2>6. {i \in Wid : ~w'[i].cheaped} = {i \in Wid : ~w[i].cheaped}
    BY <2>1
  <2>7. CheaperInv'
    BY <1>0, <1>1, <2>6 DEF CheaperInv, CheaperCountKept
  <2>8. 1 \in Wid
    BY WorkerAssumption DEF Wid
  <2>9. ~(seen \subseteq {"chain"} /\ ~conf.cheaper)
    BY <1>0, <1>1, <1>3, <2>8 DEF ChainInv, Steady, Doomed, Starting
  <2>10. ChainInv'
    BY <1>1, <2>9 DEF ChainInv
  <2> QED BY <2>3, <2>5, <2>7, <2>10 DEF MasterInv
<1> QED BY <1>2, <1>3 DEF NobodyDied

\* The commands of the fifo.
LEMMA FifoStep ==
    ASSUME MasterInv, mpc = "events", mpc' = "top", dead' = dead, conf' = conf, Fifo
    PROVE MasterInv'
<1>0. /\ TypeOK /\ w \in [Wid -> Slot] /\ proc \in [Wid -> Process] /\ status \in StatusType
      /\ SlotsInv /\ ChainInv /\ CheaperInv /\ cheap \in CheapType
      /\ \A i \in Wid : proc[i].at # "none" => w[i].pid
  BY DEF MasterInv, TypeOK, StatusType, CheapType, SlotsInv, SlotOK
<1>1. late' = late /\ orphaned' = orphaned
  BY DEF Fifo
<1>2. ASSUME NEW sig \in {"HUP", "INT"}, Event("fifo"), CurseAll(w, proc, sig),
             UNCHANGED <<status, cheap, others>>
      PROVE MasterInv'
  <2>1. EventsGo /\ "fifo" \in seen'
    BY <1>0, <1>2, EventGoes DEF EventKinds
  <2>2. Handled(w, proc) /\ AllCursed
    BY <1>0, <1>2, CurseAllIs DEF Signals
  <2>3. others' \in BOOLEAN /\ status' = status /\ cheap' = cheap
    BY <1>0, <1>2 DEF TypeOK
  <2> QED BY <1>0, <1>1, <2>1, <2>2, <2>3, GroupMoves DEF Leaving
<1>3. ASSUME Event("chain"),
             status' = [status EXCEPT !.chain_reloading = IF @ = 0 THEN 1 ELSE @],
             UNCHANGED <<w, proc, cheap, others>>
      PROVE MasterInv'
  <2>1. EventsGo
    BY <1>0, <1>3, EventGoes DEF EventKinds
  <2>2. PICK n \in 0..(NumProc + 1) : /\ status' = [status EXCEPT !.chain_reloading = n]
                                      /\ status.chain_reloading # 0 => n = status.chain_reloading
    <3>1. PICK n : n = IF status.chain_reloading = 0 THEN 1 ELSE status.chain_reloading
      OBVIOUS
    <3>2. n \in 0..(NumProc + 1)
      BY <1>0, <3>1, WorkerAssumption DEF StatusType
    <3> QED BY <1>3, <3>1, <3>2
  <2>3. /\ status' \in StatusType /\ status'.chain_reloading = n
        /\ status'.listening = status.listening /\ status'.is_cheap = status.is_cheap
        /\ status'.dying = status.dying /\ status'.reloading = status.reloading
    BY <1>0, <2>2 DEF StatusType
  <2>4. Quiet
    BY <1>3, <2>1 DEF Quiet, EventsGo, SameSlot, SameProc
  <2>5. SlotsInv' /\ CheaperInv'
    BY <1>0, <1>1, <1>3, <2>3, <2>4, QuietSlots, QuietCheaper DEF Leaving
  <2>6. TypeOK'
    BY <1>0, <1>1, <1>3, <2>1, <2>3 DEF TypeOK, StatusType, EventsGo
  <2>7. ChainInv'
    <3>1. w' = w /\ proc' = proc /\ seen \subseteq seen'
      BY <1>3, <2>1 DEF EventsGo
    <3>2. \A i \in Wid : status.chain_reloading = 0 =>
            ~Doomed(i, w[i], proc[i]) /\ ~Starting(i, w[i], proc[i])
      BY WorkerAssumption DEF Doomed, Starting, Wid
    <3>3. \A i \in Wid : status.chain_reloading # 0 =>
            /\ Doomed(i, w[i], proc[i]) => Doomed(i, w[i], proc[i])'
            /\ Starting(i, w[i], proc[i]) => Starting(i, w[i], proc[i])'
      BY <2>2, <2>3, <3>1 DEF Doomed, Starting
    <3>4. ~Leaving => ~Leaving'
      BY <2>3 DEF Leaving
    <3>5. SUFFICES ASSUME seen \subseteq {"chain"}, ~conf.cheaper
                   PROVE \A i \in Wid : \/ Steady(w'[i], proc'[i])
                                       \/ Doomed(i, w[i], proc[i])'
                                       \/ Starting(i, w[i], proc[i])'
      BY <1>0, <2>3, <3>1, <3>4 DEF ChainInv, Steady
    <3>6. \A i \in Wid : \/ Steady(w[i], proc[i])
                        \/ Doomed(i, w[i], proc[i])
                        \/ Starting(i, w[i], proc[i])
      BY <1>0, <3>5 DEF ChainInv
    <3> QED BY <3>1, <3>2, <3>3, <3>6
  <2> QED BY <2>5, <2>6, <2>7 DEF MasterInv
<1>4. ASSUME Event("fifo"), KillThemAll(w, proc, "HUP", status), UNCHANGED cheap
      PROVE MasterInv'
  <2>1. EventsGo /\ "fifo" \in seen'
    BY <1>0, <1>4, EventGoes DEF EventKinds
  <2>2. /\ Handled(w, proc) /\ (~status.dying => AllCursed) /\ others' \in BOOLEAN
        /\ status' \in StatusType /\ status'.dying /\ status'.listening = status.listening
        /\ status'.is_cheap = status.is_cheap
    BY <1>0, <1>4, KillIs DEF Signals
  <2> QED BY <1>0, <1>1, <1>4, <2>1, <2>2, GroupMoves DEF Leaving
<1>5. ASSUME NEW d \in {1, -1}, cheap.delta + d \in -1..1, Event("delta"),
             cheap' = [cheap EXCEPT !.delta = @ + d],
             UNCHANGED <<w, proc, status, others>>
      PROVE MasterInv'
  <2>1. EventsGo /\ "delta" \in seen'
    BY <1>0, <1>5, EventGoes DEF EventKinds
  <2>2. PICK n \in -1..1 : n = cheap.delta + d
    BY <1>5
  <2>3. cheap' = [cheap EXCEPT !.delta = n]
    BY <1>0, <1>5, <2>2 DEF CheapType
  <2>4. cheap' \in CheapType
    BY <1>0, <2>3 DEF CheapType
  <2>5. TypeOK'
    BY <1>0, <1>1, <1>5, <2>1, <2>4 DEF TypeOK, EventsGo, CheapType
  <2>6. Quiet
    BY <1>5, <2>1 DEF Quiet, EventsGo, SameSlot, SameProc
  <2>7. SlotsInv'
    BY <1>0, <1>1, <1>5, <2>6, QuietSlots DEF Leaving
  <2>8. CheaperInv' /\ ChainInv'
    BY <2>1 DEF CheaperInv, CheaperCountKept, ChainInv
  <2> QED BY <2>5, <2>7, <2>8 DEF MasterInv
<1> QED BY <1>2, <1>3, <1>4, <1>5 DEF Fifo

\* The workers are killed and waited for; the master listens itself.
LEMMA CheapMode ==
    ASSUME MasterInv, mpc = "events", mpc' = "top", dead' = dead, conf' = conf,
           NEW e \in {"go_cheap", "idle"}, Event(e),
           status' = [status EXCEPT !.is_cheap = TRUE, !.listening = TRUE],
           \A i \in Wid : /\ w'[i] \in Slot /\ w'[i].cheaped
                          /\ w'[i].pid => e = "go_cheap",
           w' \in [Wid -> Slot],
           proc' = [i \in Wid |-> IF w[i].pid THEN NoProcess ELSE proc[i]],
           UNCHANGED <<cheap, others, late, orphaned>>
    PROVE MasterInv'
<1>0. /\ TypeOK /\ proc \in [Wid -> Process] /\ status \in StatusType
      /\ SlotsInv /\ CheaperInv
      /\ cheap' = cheap /\ others' = others /\ late' = late /\ orphaned' = orphaned
  BY DEF MasterInv, TypeOK, StatusType
<1>1. EventsGo /\ e \in seen'
  BY <1>0, EventGoes DEF EventKinds
<1>2. /\ status' \in StatusType /\ status'.is_cheap /\ status'.listening
      /\ status'.dying = status.dying /\ status'.reloading = status.reloading
  BY <1>0 DEF StatusType
<1>3. NoProcess \in Process /\ NoProcess.at = "none" /\ NoProcess.sig = {}
      /\ NoProcess.code = "end"
  BY DEF NoProcess, Process, Codes
<1>4. ASSUME NEW i \in Wid
      PROVE /\ proc'[i] \in Process /\ proc'[i].at = "none" /\ proc'[i].sig = {}
            /\ proc'[i].code = "cheap" => "cheap" \in seen
  <2>1. SlotOK(i, w[i], proc[i]) /\ proc'[i] = IF w[i].pid THEN NoProcess ELSE proc[i]
    BY <1>0 DEF SlotsInv
  <2>2. CASE w[i].pid
    BY <1>3, <2>1, <2>2
  <2>3. CASE ~w[i].pid
    BY <1>0, <2>1, <2>3 DEF SlotOK, Alive, Running
  <2> QED BY <2>2, <2>3
<1>5. proc' \in [Wid -> Process]
  BY <1>4
<1>6. TypeOK'
  BY <1>0, <1>1, <1>2, <1>5 DEF TypeOK, StatusType, EventsGo
<1>7. ASSUME NEW i \in Wid PROVE SlotOK(i, w[i], proc[i])'
  BY <1>1, <1>4 DEF SlotOK, EventsGo, Alive, Running
<1>8. SlotsInv'
  BY <1>0, <1>2, <1>7 DEF SlotsInv
<1>9. CheaperInv'
  BY <1>0, <1>1 DEF CheaperInv, CheaperCountKept, EventsGo
<1>10. ChainInv'
  BY <1>1 DEF ChainInv
<1> QED BY <1>6, <1>8, <1>9, <1>10 DEF MasterInv

\* uwsgi_go_cheap.
LEMMA GoCheapStep ==
    ASSUME MasterInv, mpc = "events", mpc' = "top", dead' = dead, conf' = conf, GoCheap
    PROVE MasterInv'
<1>1. w \in [Wid -> Slot]
  BY DEF MasterInv, TypeOK
<1>2. ASSUME NEW i \in Wid PROVE w'[i] \in Slot /\ w'[i].cheaped
  <2>1. PICK s \in Slot : s = w[i]
    BY <1>1
  <2>2. w'[i] = [s EXCEPT !.cheaped = TRUE]
    BY <2>1 DEF GoCheap
  <2> QED BY <2>1, <2>2 DEF Slot
<1>3. w' \in [Wid -> Slot]
  <2>1. w' = [i \in Wid |-> w'[i]]
    BY DEF GoCheap
  <2> QED BY <1>2, <2>1
<1>4. PICK e \in {"go_cheap", "idle"} : e = "go_cheap"
  OBVIOUS
<1>5. /\ Event(e)
      /\ status' = [status EXCEPT !.is_cheap = TRUE, !.listening = TRUE]
      /\ proc' = [i \in Wid |-> IF w[i].pid THEN NoProcess ELSE proc[i]]
      /\ UNCHANGED <<cheap, others, late, orphaned>>
  BY <1>4 DEF GoCheap
<1> QED BY <1>2, <1>3, <1>4, <1>5, CheapMode

\* uwsgi_master_check_idle.
LEMMA CheckIdleStep ==
    ASSUME MasterInv, mpc = "events", mpc' = "top", dead' = dead, conf' = conf, CheckIdle
    PROVE MasterInv'
<1>0. /\ TypeOK /\ w \in [Wid -> Slot] /\ proc \in [Wid -> Process] /\ status \in StatusType
      /\ \A i \in Wid : proc[i].at # "none" => w[i].pid
  BY DEF MasterInv, TypeOK, StatusType, SlotsInv, SlotOK
<1>1. /\ Event("idle") /\ UNCHANGED <<cheap, late, orphaned>>
  BY DEF CheckIdle
<1>2. CASE /\ status' = [status EXCEPT !.is_cheap = TRUE, !.listening = TRUE]
           /\ w' = [i \in Wid |-> [w[i] EXCEPT !.cheaped = TRUE, !.pid = FALSE]]
           /\ proc' = [i \in Wid |-> IF w[i].pid THEN NoProcess ELSE proc[i]]
           /\ UNCHANGED others
  <2>1. ASSUME NEW i \in Wid PROVE w'[i] \in Slot /\ w'[i].cheaped /\ ~w'[i].pid
    <3>1. PICK s \in Slot : s = w[i]
      BY <1>0
    <3>2. w'[i] = [s EXCEPT !.cheaped = TRUE, !.pid = FALSE]
      BY <1>2, <3>1
    <3> QED BY <3>1, <3>2 DEF Slot
  <2>2. w' \in [Wid -> Slot]
    <3>1. w' = [i \in Wid |-> w'[i]]
      BY <1>2
    <3> QED BY <2>1, <3>1
  <2>3. PICK e \in {"go_cheap", "idle"} : e = "idle"
    OBVIOUS
  <2> QED BY <1>1, <1>2, <2>1, <2>2, <2>3, CheapMode
<1>3. CASE KillThemAll(w, proc, "INT", [status EXCEPT !.is_cheap = TRUE])
  <2>1. PICK st : st = [status EXCEPT !.is_cheap = TRUE]
    OBVIOUS
  <2>2. st \in StatusType /\ st.listening = status.listening /\ st.is_cheap
    BY <1>0, <2>1 DEF StatusType
  <2>3. /\ Handled(w, proc) /\ (~status.dying => AllCursed) /\ others' \in BOOLEAN
        /\ status' \in StatusType /\ status'.dying /\ status'.listening = st.listening
        /\ status'.is_cheap = st.is_cheap
    <3>1. KillThemAll(w, proc, "INT", st) /\ "INT" \in Signals
      BY <1>3, <2>1 DEF Signals
    <3> QED BY <1>0, <2>2, <3>1, KillIs
  <2>4. EventsGo /\ "idle" \in seen'
    BY <1>0, <1>1, EventGoes DEF EventKinds
  <2> QED BY <1>1, <2>2, <2>3, <2>4, GroupMoves DEF Leaving
<1> QED BY <1>2, <1>3 DEF CheckIdle

\* uwsgi_master_check_workers_deadline.
LEMMA DeadlinesStep ==
    ASSUME MasterInv, mpc = "events", mpc' = "top", dead' = dead, conf' = conf, CheckDeadlines
    PROVE MasterInv'
<1>0. /\ TypeOK /\ w \in [Wid -> Slot] /\ proc \in [Wid -> Process]
      /\ SlotsInv /\ ChainInv /\ CheaperInv
      /\ status' = status /\ cheap' = cheap /\ others' = others /\ late' = late
      /\ orphaned' = orphaned
  BY DEF MasterInv, TypeOK, CheckDeadlines
<1>1. PICK p1 : p1 = Killed(proc, Overdue \cap Pids)
  OBVIOUS
<1>2. /\ p1 \in [Wid -> Process]
      /\ \A i \in Wid : /\ SameProc(proc[i], p1[i])
                        /\ \/ p1[i] = proc[i]
                           \/ /\ i \in Overdue \cap Pids
                              /\ p1[i].code = "end" /\ p1[i].at = "zombie"
                              /\ p1[i].sig = {}
  <2>1. PICK S : S = Overdue \cap Pids
    OBVIOUS
  <2>2. p1 = Killed(proc, S)
    BY <1>1, <2>1
  <2>3. /\ p1 \in [Wid -> Process]
        /\ \A i \in Wid : /\ SameProc(proc[i], p1[i])
                          /\ \/ p1[i] = proc[i]
                             \/ /\ i \in S /\ Alive(proc[i])
                                /\ p1[i] = Exited(proc[i], "end")
                                /\ p1[i].code = "end" /\ p1[i].at = "zombie"
                                /\ p1[i].sig = {}
    BY <1>0, <2>2, KilledIs
  <2> QED BY <2>1, <2>3
<1>3. CASE proc' = p1 /\ NoEvent /\ w' = w
  <2>1. EventsGo /\ seen' = seen
    BY <1>0, <1>3, NoEventGoes DEF NoEvent
  <2>2. Quiet
    BY <1>2, <1>3, <2>1 DEF Quiet, EventsGo, SameSlot
  <2>3. SlotsInv' /\ CheaperInv'
    BY <1>0, <2>2, QuietSlots, QuietCheaper DEF Leaving
  <2>4. TypeOK'
    BY <1>0, <1>2, <1>3, <2>1 DEF TypeOK, EventsGo
  <2>5. ChainInv'
    <3> SUFFICES ASSUME seen \subseteq {"chain"}, ~conf.cheaper
                 PROVE /\ ~Leaving' /\ ~status'.is_cheap /\ ~status'.listening
                       /\ mpc' # "cheaper"
                       /\ \A i \in Wid : \/ Steady(w'[i], proc'[i])
                                         \/ Doomed(i, w[i], proc[i])'
                                         \/ Starting(i, w[i], proc[i])'
                       /\ \A i, j \in Wid : i # j =>
                             Steady(w'[i], proc'[i]) \/ Steady(w'[j], proc'[j])
      BY <2>1 DEF ChainInv, Steady
    <3>1. /\ ~Leaving /\ ~status.is_cheap /\ ~status.listening
          /\ \A i \in Wid : \/ Steady(w[i], proc[i])
                            \/ Doomed(i, w[i], proc[i])
                            \/ Starting(i, w[i], proc[i])
          /\ \A i, j \in Wid : i # j => Steady(w[i], proc[i]) \/ Steady(w[j], proc[j])
      BY <1>0 DEF ChainInv
    <3>2. \A i \in Wid : i \in Overdue => w[i].harakiri = "overdue"
      BY DEF Overdue
    <3>3. \A i \in Wid : Steady(w[i], proc[i]) => Steady(w'[i], proc'[i])
      BY <1>2, <1>3, <3>2 DEF Steady
    <3>4. \A i \in Wid : Starting(i, w[i], proc[i]) => Starting(i, w[i], proc[i])'
      BY <1>0, <1>2, <1>3, <3>2 DEF Starting
    <3>5. \A i \in Wid : Doomed(i, w[i], proc[i]) => Doomed(i, w[i], proc[i])'
      BY <1>0, <1>2, <1>3 DEF Doomed
    <3>6. ~Leaving'
      BY <1>0, <3>1 DEF Leaving
    <3> QED BY <1>0, <3>1, <3>3, <3>4, <3>5, <3>6
  <2> QED BY <2>3, <2>4, <2>5 DEF MasterInv
<1>4. CASE \E i \in Active : /\ Event("lifetime")
                             /\ w' = [w EXCEPT ![i].manage_next_request = FALSE]
                             /\ proc' = Signalled(p1, {i}, "WINCH")
  <2>1. PICK i \in Wid : /\ Event("lifetime")
                         /\ w' = [w EXCEPT ![i].manage_next_request = FALSE]
                         /\ proc' = Signalled(p1, {i}, "WINCH")
    BY <1>4 DEF Active
  <2>2. EventsGo /\ "lifetime" \in seen'
    BY <1>0, <2>1, EventGoes DEF EventKinds
  <2>3. PICK s \in Slot : s = w[i]
    BY <1>0
  <2>4. PICK t : t = [s EXCEPT !.manage_next_request = FALSE]
    OBVIOUS
  <2>5. t \in Slot /\ SameSlot(s, t)
    BY <2>4 DEF Slot, SameSlot
  <2>6. w' = [w EXCEPT ![i] = t]
    BY <1>0, <2>1, <2>3, <2>4
  <2>7. w' \in [Wid -> Slot] /\ \A j \in Wid : SameSlot(w[j], w'[j])
    BY <1>0, <2>3, <2>5, <2>6 DEF SameSlot
  <2>8. /\ proc' \in [Wid -> Process]
        /\ \A j \in Wid : SameProc(p1[j], proc'[j]) /\ proc'[j].code = p1[j].code
    <3>1. "WINCH" \in Signals
      BY DEF Signals
    <3> QED BY <1>2, <2>1, <3>1, SignalledIs
  <2>9. Quiet
    <3>1. \A j \in Wid : SameProc(proc[j], proc'[j])
      BY <1>2, <2>8 DEF SameProc
    <3>2. \A j \in Wid : proc'[j].code = "cheap" => proc[j].code = "cheap"
      BY <1>2, <2>8
    <3> QED BY <2>2, <2>7, <3>1, <3>2 DEF Quiet, EventsGo
  <2>10. SlotsInv' /\ CheaperInv'
    BY <1>0, <2>9, QuietSlots, QuietCheaper DEF Leaving
  <2>11. TypeOK'
    BY <1>0, <2>2, <2>7, <2>8 DEF TypeOK, EventsGo
  <2>12. ChainInv'
    BY <2>2 DEF ChainInv
  <2> QED BY <2>10, <2>11, <2>12 DEF MasterInv
<1> QED BY <1>1, <1>3, <1>4 DEF CheckDeadlines

------------------------------------------------------------------------------
(* The theorems.                                                            *)

\* Before the first round of the loop all workers are forked, or as many as
\* cheaper asks for.
LEMMA MasterInvInit == Init => MasterInv
<1> SUFFICES ASSUME Init PROVE MasterInv
  OBVIOUS
<1>0. /\ NumProc \in Nat \ {0} /\ CheaperCount \in 1..NumProc /\ CheaperOverload \in Nat \ {0}
      /\ MaxEvents \in Nat /\ Configs \subseteq ConfigType
  BY WorkerAssumption, MasterAssumption
<1>1. /\ conf \in Configs /\ conf.cheaper \in BOOLEAN /\ conf.others \in BOOLEAN
  BY <1>0 DEF Init, ConfigType
<1>2. ASSUME NEW i \in Wid
      PROVE /\ w[i] \in Slot /\ proc[i] \in Process
            /\ w[i].cheaped <=> ~w[i].pid
            /\ w[i].pid <=> ~conf.cheaper \/ i =< CheaperCount
            /\ proc[i].at = IF w[i].pid THEN "check" ELSE "none"
            /\ proc[i].sig = {} /\ proc[i].code = "end"
            /\ w[i].pid => w[i].accepting /\ w[i].manage_next_request
            /\ w[i].cursed = "no" /\ w[i].harakiri = "no"
  <2>1. PICK on \in BOOLEAN : on <=> ~conf.cheaper \/ i =< CheaperCount
    <3>1. \/ (TRUE <=> ~conf.cheaper \/ i =< CheaperCount)
          \/ (FALSE <=> ~conf.cheaper \/ i =< CheaperCount)
      OBVIOUS
    <3> QED BY <3>1
  <2>2. (~conf.cheaper \/ i =< CheaperCount) = on
    BY <2>1
  <2>3. PICK off \in BOOLEAN : off = ~on
    OBVIOUS
  <2>4. w[i] = [pid |-> on, cheaped |-> off, accepting |-> on, in_request |-> FALSE,
                manage_next_request |-> on, cursed |-> "no", harakiri |-> "no"]
    BY <2>2, <2>3 DEF Init
  <2>5. proc[i] = IF w[i].pid THEN [NoProcess EXCEPT !.at = "check"] ELSE NoProcess
    BY DEF Init
  <2>6. w[i] \in Slot
    BY <2>4 DEF Slot
  <2>7. /\ w[i].pid = on /\ w[i].cheaped = off /\ w[i].accepting = on
        /\ w[i].manage_next_request = on
        /\ w[i].cursed = "no" /\ w[i].harakiri = "no"
    BY <2>4
  <2>8. /\ proc[i] \in Process
        /\ proc[i].at = IF w[i].pid THEN "check" ELSE "none"
        /\ proc[i].sig = {} /\ proc[i].code = "end"
    BY <2>5 DEF NoProcess, Process, Running, Codes
  <2> QED BY <2>1, <2>3, <2>6, <2>7, <2>8
<1>3. w \in [Wid -> Slot] /\ proc \in [Wid -> Process]
  <2>1. w = [i \in Wid |-> w[i]] /\ proc = [i \in Wid |-> proc[i]]
    BY DEF Init
  <2> QED BY <1>2, <2>1
<1>4. TypeOK
  <2>1. status \in StatusType /\ cheap \in CheapType
    BY <1>0 DEF Init, StatusType, CheapType
  <2>2. seen = {} /\ left \in 0..MaxEvents /\ dead \in 0..NumProc /\ mpc = "top"
    BY <1>0 DEF Init
  <2>3. others \in BOOLEAN /\ late = {} /\ orphaned = FALSE
    BY <1>1 DEF Init
  <2> QED BY <1>1, <1>3, <2>1, <2>2, <2>3 DEF TypeOK, StatusType, CheapType
<1>5. ~Leaving /\ ~status.listening /\ ~status.is_cheap /\ mpc = "top" /\ ~orphaned
  BY DEF Init, Leaving
<1>6. SlotsInv
  BY <1>2, <1>5 DEF SlotsInv, SlotOK
<1>7. ChainInv
  <2>1. ASSUME ~conf.cheaper, NEW i \in Wid PROVE Steady(w[i], proc[i])
    BY <1>2, <2>1 DEF Steady
  <2> QED BY <1>5, <2>1 DEF ChainInv
<1>8. CheaperInv
  <2>1. cheap.delta = 0
    BY DEF Init
  <2>2. ASSUME conf.cheaper PROVE Cardinality({i \in Wid : ~w[i].cheaped}) = CheaperCount
    <3>1. {i \in Wid : ~w[i].cheaped} = 1..CheaperCount
      BY <1>0, <1>2, <2>2 DEF Wid
    <3>2. CheaperCount \in Nat \ {0} /\ 1 \in Int /\ CheaperCount \in Int
      BY <1>0
    <3>3. Cardinality(1..CheaperCount) = IF 1 > CheaperCount THEN 0 ELSE CheaperCount - 1 + 1
      BY <3>2, FS_Interval
    <3>4. Cardinality(1..CheaperCount) = CheaperCount
      BY <3>2, <3>3
    <3> QED BY <3>1, <3>4
  <2> QED BY <1>0, <2>1, <2>2 DEF CheaperInv, CheaperCountKept
<1> QED BY <1>4, <1>6, <1>7, <1>8 DEF MasterInv

\* A step of the loop.
LEMMA LoopKeeps ==
    ASSUME MasterInv, LoopStep
    PROVE MasterInv'
<1>1. CASE Tasks
  <2>1. mpc = "events" /\ mpc' = "top" /\ dead' = dead /\ conf' = conf
    BY <1>1 DEF Tasks
  <2> QED BY <1>1, <2>1, FifoStep, GoCheapStep, WakeUpStep, CheckIdleStep, DeadlinesStep DEF Tasks
<1> QED BY <1>1, CheckTopStep, CheaperStep, ReapStep, NobodyDiedStep, RespawnStep DEF LoopStep

\* A step of a worker.
LEMMA WorkerKeeps ==
    ASSUME MasterInv, NEW i \in Wid, WorkerStep(i), UNCHANGED masterVars
    PROVE MasterInv'
BY StartSteps, RequestSteps, DeathAndDeadlines, DeliverStep DEF WorkerStep

\* Every step keeps the invariant.
LEMMA MasterInvNext == MasterInv /\ [Next]_vars => MasterInv'
<1> SUFFICES ASSUME MasterInv, [Next]_vars PROVE MasterInv'
  OBVIOUS
<1>1. CASE LoopStep
  BY <1>1, LoopKeeps
<1>2. CASE HandleSignal
  BY <1>2, SignalStep
<1>3. ASSUME NEW i \in Wid, LoadFails(i) PROVE MasterInv'
  BY <1>3, LoadFailsStep
<1>4. ASSUME NEW i \in Wid, WorkerStep(i), UNCHANGED masterVars PROVE MasterInv'
  BY <1>4, WorkerKeeps
<1>5. CASE UNCHANGED vars
  BY <1>5 DEF vars, workerVars, masterVars, MasterInv, TypeOK, SlotsInv, SlotOK, ChainInv,
              Steady, Doomed, Starting, CheaperInv, CheaperCountKept, Leaving
<1> QED BY <1>1, <1>2, <1>3, <1>4, <1>5 DEF Next, Gone

\* The invariant holds at any time.
LEMMA MasterSound == Spec => []MasterInv
BY MasterInvInit, MasterInvNext, PTL DEF Spec

\* The master knows every worker: no process without its pid, no worker
\* replaced while it is there, a pid without a process only after go_cheap;
\* and while the instance reloads or dies every worker is cursed but those
\* spawned too late (SlotOK says it of one slot).
THEOREM WorkersStayKnown == Spec => []WorkersAreKnown
<1>1. MasterInv => WorkersAreKnown
  BY DEF MasterInv, SlotsInv, SlotOK, WorkersAreKnown, SlotsMatchProcesses,
         SurvivorOnlyBySpawnRace
<1> QED BY <1>1, MasterSound, PTL

\* Only the doomed worker of a chain, or its successor, serves no requests.
LEMMA OneAtATime == MasterInv => ChainOneAtATime
<1> SUFFICES ASSUME MasterInv, status.chain_reloading > 0, seen = {"chain"}, ~conf.cheaper
             PROVE Cardinality({i \in Wid : proc[i].at \notin {"check", "wait", "request"}}) =< 1
  BY DEF ChainOneAtATime
<1>1. PICK S : S = {i \in Wid : proc[i].at \notin {"check", "wait", "request"}}
  OBVIOUS
<1>2. \A i, j \in S : i = j
  BY <1>1 DEF MasterInv, ChainInv, Steady
<1>3. CASE S = {}
  BY <1>1, <1>3, FS_EmptySet
<1>4. ASSUME NEW i \in S PROVE Cardinality(S) =< 1
  <2>1. S = {i}
    BY <1>2
  <2> QED BY <2>1, FS_Singleton
<1> QED BY <1>1, <1>3, <1>4

\* Enough workers are left: the dead are respawned, a chain reload takes down
\* one worker at a time, and cheaper keeps its minimum.
THEOREM EnoughWorkersLeft == Spec => []EnoughWorkers
<1>1. MasterInv => EmptySlotOnlyByForkFailure
  BY DEF MasterInv, SlotsInv, SlotOK, EmptySlotOnlyByForkFailure
<1>2. MasterInv => CheaperCountKept
  BY DEF MasterInv, CheaperInv
<1>3. MasterInv => EnoughWorkers
  BY <1>1, <1>2, OneAtATime DEF EnoughWorkers
<1> QED BY <1>3, MasterSound, PTL
==============================================================================
