------------------------------- MODULE Spooler -------------------------------
(****************************************************************************)
(* The spooler (core/spooler.c): a request writes a task into a file of the *)
(* spool directory, and spooler processes scan the directory, run the tasks *)
(* and unlink their files.  What keeps them apart is an fcntl lock on the   *)
(* file, which the kernel drops when its owner closes the file or dies.     *)
(*                                                                          *)
(* A file has a unique name, so a task is a file.  Every task has a body,   *)
(* the last of the three parts that are written.  Priorities only choose a  *)
(* subdirectory, which the scan enters; wake-up signals only shorten the    *)
(* wait before the next scan.  The file system and fcntl are external.      *)
(****************************************************************************)
EXTENDS Integers, FiniteSets

CONSTANTS
    Task, Spooler, NoTask,
    Left,               \* the tasks that an earlier instance left in the directory
    Writer,             \* the owner of the lock while the task is written
    Nobody,
    MaxTrouble          \* bound: spoolers killed and tasks tried again

ASSUME SpoolerAssumption ==
    /\ Left \subseteq Task /\ NoTask \notin Task /\ MaxTrouble \in Nat
    /\ Writer # Nobody /\ {Writer, Nobody} \cap Spooler = {}

VARIABLES
    writer,         \* how far uwsgi_spool_request is with each task
    file,           \* the file of each task
    spooler,        \* the spooler processes
    finished,       \* how often each task returned that it is done
    cut,            \* the tasks whose run was cut short by a kill
    trouble

spoolerVars == <<writer, file, spooler, finished, cut, trouble>>

Content == {"empty", "header", "args", "whole"}
Places == {"scan", "stat", "opened", "locked", "broken", "running", "done", "close", "dead"}

Linked == {t \in Task : file[t].linked}

Scanning == [at |-> "scan", task |-> NoTask, todo |-> {}, dirty |-> FALSE, leaked |-> FALSE]

\* at: the task asks for a time in the future.
SpoolerInit ==
    /\ writer = [t \in Task |-> IF t \in Left THEN "closed" ELSE "new"]
    /\ \E timed \in SUBSET (Task \ Left) :
         file = [t \in Task |-> [linked |-> t \in Left, owner |-> Nobody, future |-> FALSE,
                                 content |-> IF t \in Left THEN "whole" ELSE "empty",
                                 at |-> t \in timed]]
    /\ spooler = [s \in Spooler |-> Scanning]
    /\ finished = [t \in Task |-> 0]
    /\ cut = {} /\ trouble = 0

------------------------------------------------------------------------------
(* uwsgi_spool_request.                                                     *)

WriterGoes(t, from, to) == writer[t] = from /\ writer' = [writer EXCEPT ![t] = to]
OnlyFiles == UNCHANGED <<spooler, finished, cut, trouble>>

\* open(O_CREAT | O_EXCL).
CreateFile(t) ==
    /\ WriterGoes(t, "new", "created")
    /\ file' = [file EXCEPT ![t].linked = TRUE]
    /\ OnlyFiles

\* uwsgi_fcntl_lock, which waits for a spooler that was faster.
LockFile(t) ==
    /\ WriterGoes(t, "created", "locked")
    /\ file[t].owner = Nobody
    /\ file' = [file EXCEPT ![t].owner = Writer]
    /\ OnlyFiles

WriteHeader(t) ==
    /\ WriterGoes(t, "locked", "header")
    /\ file' = [file EXCEPT ![t].content = "header"]
    /\ OnlyFiles

WriteArgs(t) ==
    /\ WriterGoes(t, "header", "args")
    /\ file' = [file EXCEPT ![t].content = "args"]
    /\ OnlyFiles

WriteBody(t) ==
    /\ WriterGoes(t, "args", "body")
    /\ file' = [file EXCEPT ![t].content = "whole"]
    /\ OnlyFiles

\* futimes moves the time of the file to the time asked for.
SetTime(t) ==
    /\ WriterGoes(t, "body", "timed")
    /\ file' = [file EXCEPT ![t].future = file[t].at]
    /\ OnlyFiles

CloseFile(t) ==
    /\ WriterGoes(t, "timed", "closed")
    /\ file' = [file EXCEPT ![t].owner = Nobody]
    /\ OnlyFiles

\* A write fails: the file is removed, and closed after that.
WriteFails(t) ==
    /\ \E from \in {"locked", "header", "args"} : WriterGoes(t, from, "failed")
    /\ file' = [file EXCEPT ![t].linked = FALSE, ![t].owner = Nobody]
    /\ OnlyFiles

\* The process that writes the task is killed.
WriterKilled(t) ==
    /\ writer[t] \notin {"new", "closed", "failed", "killed"}
    /\ writer' = [writer EXCEPT ![t] = "killed"]
    /\ file' = [file EXCEPT ![t].owner = IF @ = Writer THEN Nobody ELSE @]
    /\ OnlyFiles

\* The time of a task comes.
Due(t) ==
    /\ file[t].future
    /\ file' = [file EXCEPT ![t].future = FALSE]
    /\ UNCHANGED writer /\ OnlyFiles

WriterStep(t) ==
    \/ CreateFile(t) \/ LockFile(t) \/ WriteHeader(t) \/ WriteArgs(t) \/ WriteBody(t)
    \/ SetTime(t) \/ CloseFile(t) \/ WriteFails(t)

------------------------------------------------------------------------------
(* The spooler processes.                                                   *)

SpoolerAt(s, place) == spooler' = [spooler EXCEPT ![s].at = place]
NextFile(s) == [spooler[s] EXCEPT !.at = "scan", !.task = NoTask, !.dirty = FALSE]
Skip(s) == spooler' = [spooler EXCEPT ![s] = NextFile(s)]
OnlySpooler == UNCHANGED <<writer, file, finished, cut, trouble>>

\* The kernel drops the lock of a process that closes the file.
ClosedBy(s, t) == [file EXCEPT ![t].owner = IF @ = s THEN Nobody ELSE @]

\* One pass of the loop: spooler_scandir lists the files there are.
Scan(s) ==
    /\ spooler[s].at = "scan" /\ spooler[s].todo = {} /\ Linked # {}
    /\ spooler' = [spooler EXCEPT ![s].todo = Linked]
    /\ OnlySpooler

\* spooler_manage_task up to open: a file that is gone, or for the future, is
\* skipped.
Stat(s) ==
    /\ spooler[s].at = "scan"
    /\ \E t \in spooler[s].todo :
         LET wanted == t \in Linked /\ ~file[t].future IN
         spooler' = [spooler EXCEPT ![s] =
            [spooler[s] EXCEPT !.todo = @ \ {t},
                               !.at = IF wanted THEN "stat" ELSE "scan",
                               !.task = IF wanted THEN t ELSE NoTask,
                               !.dirty = wanted /\ writer[t] # "closed"]]
    /\ OnlySpooler

OpenTask(s) ==
    /\ spooler[s].at = "stat"
    /\ IF spooler[s].task \in Linked THEN SpoolerAt(s, "opened") ELSE Skip(s)
    /\ OnlySpooler

\* Mutant: the lock of another process does not matter.
ReadHeaderUnlocked(s) ==
    LET t == spooler[s].task IN
    /\ spooler[s].at = "opened"
    /\ IF t \in Linked /\ file[t].content # "empty"
       THEN /\ file' = [file EXCEPT ![t].owner = s]
            /\ SpoolerAt(s, "locked")
       ELSE /\ UNCHANGED file
            /\ Skip(s)
    /\ UNCHANGED <<writer, finished, cut, trouble>>

\* uwsgi_spooler_read_header: the lock is taken, and kept only if the file
\* still has its name and has a header.
ReadHeader(s) ==
    LET t == spooler[s].task IN
    /\ spooler[s].at = "opened"
    /\ IF file[t].owner \in {Nobody, s} /\ t \in Linked /\ file[t].content # "empty"
       THEN /\ file' = [file EXCEPT ![t].owner = s]
            /\ SpoolerAt(s, "locked")
       ELSE /\ UNCHANGED file
            /\ Skip(s)
    /\ UNCHANGED <<writer, finished, cut, trouble>>

\* Mutant: a file without its arguments is kept.
ReadContentKept(s) ==
    LET t == spooler[s].task IN
    /\ spooler[s].at = "locked"
    /\ IF file[t].content = "header"
       THEN Skip(s) /\ file' = ClosedBy(s, t)
       ELSE SpoolerAt(s, "running") /\ UNCHANGED file
    /\ UNCHANGED <<writer, finished, cut, trouble>>

\* The second lstat, whose time nobody looks at, and
\* uwsgi_spooler_read_content.  When the file has gone meanwhile it is not
\* closed; when the arguments are missing it is closed before it is removed.
ReadContent(s) ==
    LET t == spooler[s].task IN
    /\ spooler[s].at = "locked"
    /\ IF t \notin Linked
       THEN /\ spooler' = [spooler EXCEPT ![s] = [NextFile(s) EXCEPT !.leaked = TRUE]]
            /\ UNCHANGED file
       ELSE IF file[t].content = "header"
       THEN /\ SpoolerAt(s, "broken")
            /\ file' = ClosedBy(s, t)
       ELSE /\ SpoolerAt(s, "running")
            /\ UNCHANGED file
    /\ UNCHANGED <<writer, finished, cut, trouble>>

\* destroy_spool, which exits when the file is gone already.
DestroyBroken(s) ==
    LET t == spooler[s].task IN
    /\ spooler[s].at = "broken"
    /\ IF t \in Linked THEN Skip(s) ELSE SpoolerAt(s, "dead")
    /\ file' = [file EXCEPT ![t].linked = FALSE]
    /\ UNCHANGED <<writer, finished, cut, trouble>>

\* The function of the application is done with the task, ...
RunTask(s) ==
    /\ spooler[s].at = "running"
    /\ finished' = [finished EXCEPT ![spooler[s].task] = IF @ < 2 THEN @ + 1 ELSE @]
    /\ SpoolerAt(s, "done")
    /\ UNCHANGED <<writer, file, cut, trouble>>

\* ... or wants it to run again, or there is no function.
RetryTask(s) ==
    /\ spooler[s].at = "running" /\ trouble < MaxTrouble
    /\ trouble' = trouble + 1
    /\ SpoolerAt(s, "close")
    /\ UNCHANGED <<writer, file, finished, cut>>

\* destroy_spool for a task that is done.
Destroy(s) ==
    LET t == spooler[s].task IN
    /\ spooler[s].at = "done"
    /\ SpoolerAt(s, IF t \in Linked THEN "close" ELSE "dead")
    /\ file' = [file EXCEPT ![t].linked = FALSE,
                            ![t].owner = IF t \in Linked THEN @ ELSE Nobody]
    /\ UNCHANGED <<writer, finished, cut, trouble>>

\* The file is closed; a spooler that has run enough tasks ends.
CloseTask(s) ==
    /\ spooler[s].at = "close"
    /\ file' = ClosedBy(s, spooler[s].task)
    /\ \/ Skip(s)
       \/ SpoolerAt(s, "dead")
    /\ UNCHANGED <<writer, finished, cut, trouble>>

\* A spooler is killed, by its harakiri for instance.
SpoolerKilled(s) ==
    /\ spooler[s].at # "dead" /\ trouble < MaxTrouble
    /\ trouble' = trouble + 1
    /\ cut' = IF spooler[s].at = "done" THEN cut \cup {spooler[s].task} ELSE cut
    /\ file' = [t \in Task |-> ClosedBy(s, t)[t]]
    /\ SpoolerAt(s, "dead")
    /\ UNCHANGED <<writer, finished>>

\* The master starts it again.
RespawnSpooler(s) ==
    /\ spooler[s].at = "dead"
    /\ spooler' = [spooler EXCEPT ![s] = Scanning]
    /\ OnlySpooler

SpoolerStep(s) ==
    \/ Scan(s) \/ Stat(s) \/ OpenTask(s) \/ ReadHeader(s) \/ ReadContent(s) \/ DestroyBroken(s)
    \/ RunTask(s) \/ RetryTask(s) \/ Destroy(s) \/ CloseTask(s) \/ RespawnSpooler(s)

SpoolerNext ==
    \/ \E t \in Task : WriterStep(t) \/ WriterKilled(t) \/ Due(t)
    \/ \E s \in Spooler : SpoolerStep(s) \/ SpoolerKilled(s)

------------------------------------------------------------------------------
(* Properties.                                                              *)

Stages == {"new", "created", "locked", "header", "args", "body", "timed", "closed", "failed",
           "killed"}
SpoolFile == [linked: BOOLEAN, content: Content, at: BOOLEAN, future: BOOLEAN,
              owner: Spooler \cup {Writer, Nobody}]
SpoolProcess == [at: Places, task: Task \cup {NoTask}, todo: SUBSET Task, dirty: BOOLEAN,
                 leaked: BOOLEAN]

SpoolerTypeOK ==
    /\ writer \in [Task -> Stages] /\ file \in [Task -> SpoolFile]
    /\ spooler \in [Spooler -> SpoolProcess]
    /\ finished \in [Task -> 0..2] /\ cut \subseteq Task /\ trouble \in 0..MaxTrouble

\* Two spoolers never run the same task at the same time.
OneSpoolerPerTask ==
    \A r, s \in Spooler :
        spooler[r].at \in {"running", "done"} /\ spooler[s].at \in {"running", "done"}
        /\ spooler[r].task = spooler[s].task => r = s

\* A task that is done is not run again, unless its spooler was killed after
\* it ran and before its file was removed.
DoneTwiceOnlyByKill == \A t \in Task : finished[t] > 1 => t \in cut

\* A task that runs is complete, unless the process that wrote it was killed:
\* the header has the length of the arguments only, so a body that is missing
\* is not noticed.
TruncatedOnlyByKill ==
    \A s \in Spooler : spooler[s].at = "running" =>
        file[spooler[s].task].content = "whole" \/ writer[spooler[s].task] = "killed"

\* A task does not run before the time it asks for, unless its file was looked
\* at before that time was set: the second lstat is not compared.
EarlyOnlyByDirtyStat ==
    \A s \in Spooler : spooler[s].at = "running" /\ file[spooler[s].task].future =>
        spooler[s].dirty

\* A spooler keeps a file open, or exits because it cannot remove one, only
\* for a file whose arguments are missing: that file is closed before it is
\* removed, and another spooler can come in between.
GoneOnlyIfBroken ==
    \A s \in Spooler :
        /\ spooler[s].leaked =>
             \E t \in Task : writer[t] = "killed" /\ file[t].content = "header"
        /\ spooler[s].at = "done" => spooler[s].task \in Linked

\* How far the writer w of a task is shows in its file f, as no spooler gets at
\* a file that is being written.
FileLocal(w, f) ==
    /\ w \in {"locked", "header", "args", "body", "timed"} <=> f.owner = Writer
    /\ w \in {"new", "created", "locked"} => f.content = "empty"
    /\ w = "header" => f.content = "header"
    /\ w = "args" => f.content = "args"
    /\ w \in {"body", "timed", "closed"} => f.content = "whole"
    /\ w \in {"new", "failed"} => ~f.linked

\* What spooler s at l knows of the file f of its task and of its writer w: a
\* file it works on is locked by it, was written to the end or as far as a
\* kill let it, and keeps its name until the spooler removes it.
SpoolerLocal(s, l, w, f) ==
    /\ l.at \notin {"scan", "dead"} => l.task \in Task
    /\ l.at \notin {"scan", "dead"} /\ ~l.dirty => w = "closed" /\ ~f.future
    /\ l.at \in {"locked", "running", "done", "close"} =>
          f.owner = s /\ w \in {"closed", "killed"} /\ f.content # "empty"
    /\ l.at \in {"running", "done"} => f.content # "header" /\ f.linked
    /\ l.at = "locked" => f.linked \/ (f.content = "header" /\ w = "killed")
    /\ l.at = "broken" => f.content = "header" /\ w = "killed"

\* A task that was done has lost its file or will, unless its spooler was
\* killed before that.
DoneIsRemoved ==
    \A t \in Task : finished[t] > 0 =>
        /\ writer[t] \in {"closed", "killed"}
        /\ \/ t \in cut \/ ~file[t].linked
           \/ \E s \in Spooler : spooler[s].at = "done" /\ spooler[s].task = t

\* A task is run by one spooler, once, complete, and not before its time; a kill
\* and a look at an unfinished file are the only exceptions.
TasksRunProperly ==
    /\ SpoolerTypeOK
    /\ OneSpoolerPerTask /\ DoneTwiceOnlyByKill /\ TruncatedOnlyByKill
    /\ EarlyOnlyByDirtyStat /\ GoneOnlyIfBroken
    /\ \A t \in Task : FileLocal(writer[t], file[t])
    /\ \A s \in Spooler :
          SpoolerLocal(s, spooler[s], writer[spooler[s].task], file[spooler[s].task])
    /\ DoneIsRemoved
==============================================================================
