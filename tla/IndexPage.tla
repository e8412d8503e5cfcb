------------------------------ MODULE IndexPage ------------------------------
(****************************************************************************)
(* The index page: IndexView.get with the cached page data, the             *)
(* administrator's forms that invalidate them (BaseModelAdmin), and the     *)
(* Celery task that writes the static page.  Data are the set of edits that *)
(* they show; an edit has the identity of the request that makes it.        *)
(****************************************************************************)
EXTENDS Redis

CONSTANT PageRequests   \* page views and submitted admin forms

\* None is no step of a task and no set of edits.
ASSUME NilAssumption ==
    /\ Nil \notin {"queued", "render", "write", "done", "lost"}
    /\ \A edits \in SUBSET PageRequests : edits # Nil

VARIABLES
    db,             \* committed edits
    cache,          \* the entry index_page_data: Nil or data, with the requests
                    \* that had called cache.delete before it was set
    page,           \* static/index.html: the edits it shows, Nil when truncated
    ireq,           \* local variables of each request
    task            \* generate_static_index_html as sent by each admin request

indexVars == <<db, cache, page, ireq, task>>

NoTask == [pc |-> Nil, data |-> {}]

\* `part` is the table an edit changes: a query reads one of them at a time.
Idle == [pc |-> "idle", kind |-> Nil, part |-> Nil, data |-> {}]

Init ==
    /\ db = {} /\ cache = Nil /\ page = {}
    /\ ireq = [r \in PageRequests |-> Idle]
    /\ task = [r \in PageRequests |-> NoTask]

\* What a view has read does not outlive it.
Proceed(r, pc) == ireq' = [ireq EXCEPT ![r] = [@ EXCEPT !.pc = pc, !.data = {}]]

\* GoodsType is read first; the banners are lazy query sets, read when the
\* context is pickled for the cache or when the template is rendered.
Read(part) == {e \in db : ireq[e].part = part}

------------------------------------------------------------------------------
(* IndexView.                                                               *)

CacheGet(r) ==
    /\ ireq[r].pc = "idle"
    /\ ireq' = [ireq EXCEPT ![r] =
         [@ EXCEPT !.kind = "view", !.pc = IF cache = Nil THEN "types" ELSE "done"]]
    /\ UNCHANGED <<db, cache, page, task>>

ReadTypes(r) ==
    /\ ireq[r].pc = "types"
    /\ ireq' = [ireq EXCEPT ![r] = [@ EXCEPT !.pc = "banners", !.data = Read("types")]]
    /\ UNCHANGED <<db, cache, page, task>>

ReadBanners(r) ==
    /\ ireq[r].pc = "banners"
    /\ ireq' = [ireq EXCEPT ![r] =
         [@ EXCEPT !.pc = "set", !.data = ireq[r].data \cup Read("banners")]]
    /\ UNCHANGED <<db, cache, page, task>>

\* The admin requests that have called cache.delete.
Deleted == {r \in PageRequests : ireq[r].pc \in {"commit", "committed", "undone"}}

\* cache.set('index_page_data', context, timeout=3600) and the page.
CacheSet(r) ==
    /\ ireq[r].pc = "set"
    /\ cache' = [data |-> ireq[r].data, after |-> Deleted]
    /\ Proceed(r, "done")
    /\ UNCHANGED <<db, page, task>>

\* Redis drops the entry after an hour.
CacheExpires ==
    /\ cache # Nil
    /\ cache' = Nil
    /\ UNCHANGED <<db, page, ireq, task>>

------------------------------------------------------------------------------
(* BaseModelAdmin.save_model inside the transaction of the admin view.      *)

\* super().save_model: the row is written and not yet committed.
SaveModel(r) ==
    /\ ireq[r].pc = "idle"
    /\ \E part \in {"types", "banners"} :
          ireq' = [ireq EXCEPT ![r] = [@ EXCEPT !.kind = "save", !.pc = "delay", !.part = part]]
    /\ UNCHANGED <<db, cache, page, task>>

\* Mutant: the task is not sent.
DelayNothing(r) ==
    /\ ireq[r].pc = "delay"
    /\ Proceed(r, "delete")
    /\ UNCHANGED <<db, cache, page, task>>

\* generate_static_index_html.delay()
Delay(r) ==
    /\ ireq[r].pc = "delay"
    /\ task' = [task EXCEPT ![r].pc = "queued"]
    /\ Proceed(r, "delete")
    /\ UNCHANGED <<db, cache, page>>

\* Mutant: cache.delete has another key.
CacheDeleteOther(r) ==
    /\ ireq[r].pc = "delete"
    /\ Proceed(r, "commit")
    /\ UNCHANGED <<db, cache, page, task>>

\* cache.delete('index_page_data')
CacheDelete(r) ==
    /\ ireq[r].pc = "delete"
    /\ cache' = Nil
    /\ Proceed(r, "commit")
    /\ UNCHANGED <<db, page, task>>

Commit(r) ==
    /\ ireq[r].pc = "commit"
    /\ db' = db \cup {r}
    /\ Proceed(r, "committed")
    /\ UNCHANGED <<cache, page, task>>

\* The broker, the cache or the database fails or the worker dies: the
\* transaction is rolled back, a task that was sent is not.  A view that
\* fails has changed nothing.
Fail(r) ==
    /\ ireq[r].pc \in {"types", "banners", "set", "delay", "delete", "commit"}
    /\ Proceed(r, "undone")
    /\ UNCHANGED <<db, cache, page, task>>

\* delete_model passes self twice: TypeError, and nothing is deleted.
DeleteModel(r) ==
    /\ ireq[r].pc = "idle"
    /\ ireq' = [ireq EXCEPT ![r] = [@ EXCEPT !.kind = "delete_model", !.pc = "undone"]]
    /\ UNCHANGED <<db, cache, page, task>>

\* The action "delete selected" calls delete_queryset, which BaseModelAdmin
\* does not override: the rows go and the cache and the page stay.
DeleteSelected(r) ==
    /\ ireq[r].pc = "idle"
    /\ \E part \in {"types", "banners"} :
          ireq' = [ireq EXCEPT ![r] =
            [@ EXCEPT !.kind = "delete_selected", !.pc = "committed", !.part = part]]
    /\ db' = db \cup {r}
    /\ UNCHANGED <<cache, page, task>>

------------------------------------------------------------------------------
(* generate_static_index_html, in any order and possibly at the same time.  *)

TaskTypes(t) ==
    /\ task[t].pc = "queued"
    /\ task' = [task EXCEPT ![t] = [pc |-> "render", data |-> Read("types")]]
    /\ UNCHANGED <<db, cache, page, ireq>>

TaskRender(t) ==
    /\ task[t].pc = "render"
    /\ task' = [task EXCEPT ![t] = [pc |-> "write", data |-> task[t].data \cup Read("banners")]]
    /\ UNCHANGED <<db, cache, page, ireq>>

TaskWrite(t) ==
    /\ task[t].pc = "write"
    /\ page' = task[t].data
    /\ task' = [task EXCEPT ![t].pc = "done"]
    /\ UNCHANGED <<db, cache, ireq>>

\* The message is lost, or the worker dies: open(save_path, 'w') has
\* truncated the page when that happens during the write.
TaskLost(t) ==
    /\ task[t].pc \in {"queued", "render", "write"}
    /\ task' = [task EXCEPT ![t] = [pc |-> "lost", data |-> {}]]
    /\ page' \in IF task[t].pc = "write" THEN {page, Nil} ELSE {page}
    /\ UNCHANGED <<db, cache, ireq>>

------------------------------------------------------------------------------

View(r) == CacheGet(r) \/ ReadTypes(r) \/ ReadBanners(r) \/ CacheSet(r)
Admin(r) ==
    SaveModel(r) \/ Delay(r) \/ CacheDelete(r) \/ Commit(r) \/ DeleteModel(r) \/ DeleteSelected(r)
Task(t) == TaskTypes(t) \/ TaskRender(t) \/ TaskWrite(t) \/ TaskLost(t)

Next ==
    \/ \E r \in PageRequests : View(r) \/ Admin(r) \/ Fail(r) \/ Task(r)
    \/ CacheExpires

Spec == Init /\ [][Next]_indexVars

------------------------------------------------------------------------------
(* Properties.                                                              *)

Steps == {"idle", "types", "banners", "set", "done",
          "delay", "delete", "commit", "committed", "undone"}
Started == {"queued", "render", "write", "done", "lost"}
Locals == [pc: Steps, part: {Nil, "types", "banners"}, data: SUBSET PageRequests,
           kind: {Nil, "view", "save", "delete_model", "delete_selected"}]

\* Every variable stays in the set of values the cache, the page and the
\* local variables can hold.
IndexTypeOK ==
    /\ db \subseteq PageRequests
    /\ cache \in {Nil} \cup [data: SUBSET PageRequests, after: SUBSET PageRequests]
    /\ page \in {Nil} \cup SUBSET PageRequests
    /\ ireq \in [PageRequests -> Locals]
    /\ task \in [PageRequests -> [pc: Started \cup {Nil}, data: SUBSET PageRequests]]

\* A cached entry misses a saved form only when it was set after the form
\* had deleted the entry, from data read before the commit: an entry that
\* was there before the form never survives it.
StaleOnlyIfSetAfterDelete ==
    cache # Nil =>
        \A e \in db \ cache.data : ireq[e].kind = "save" => e \in cache.after

\* What the administrator's transaction rolled back is neither cached nor on
\* the static page, although the task and the cache do not take part in it.
RolledBackIsNeverShown ==
    \A e \in PageRequests :
        ireq[e].pc = "undone" =>
            /\ cache # Nil => e \notin cache.data
            /\ page # Nil => e \notin page

\* When all tasks have ended and the static page misses a saved form, the
\* form's own task was lost, or the page is what a task wrote that had read
\* before the commit, or the page is empty because a task died writing it.
PageStaleOnlyByEarlyRead ==
    (\A t \in PageRequests : task[t].pc \in {Nil, "done", "lost"}) =>
        \A e \in db : ireq[e].kind = "save" =>
            \/ page # Nil /\ e \in page
            \/ task[e].pc = "lost"
            \/ \E t \in PageRequests : task[t].pc = "done" /\ page = task[t].data
            \/ page = Nil /\ \E t \in PageRequests : task[t].pc = "lost"

\* Whatever is shown or about to be shown has been committed, by a request
\* that went through all its steps.
OnlyCommittedIsRead ==
    /\ \A r \in PageRequests : /\ r \in db => ireq[r].pc = "committed"
                          /\ ireq[r].data \subseteq db /\ task[r].data \subseteq db
    /\ cache # Nil => cache.data \subseteq db
    /\ page # Nil => page \subseteq db

\* A form that has deleted the entry and is about to commit is known to the
\* entry that a view has set since.
SetSinceDelete ==
    \A r \in PageRequests : ireq[r].pc = "commit" /\ cache # Nil => r \in cache.after

\* A form about to delete the entry, or past that, is a saved one and has sent
\* its task.
SavedSendsTask ==
    \A r \in PageRequests :
        /\ ireq[r].pc \in {"delay", "delete", "commit"} => ireq[r].kind = "save"
        /\ ireq[r].kind = "save" /\ ireq[r].pc \in {"delete", "commit", "committed"}
             => task[r].pc \in Started
        /\ ireq[r].pc \in {"idle", "delay"} => task[r].pc = Nil

\* The page is what one of the tasks that are done has written, and empty only
\* if one was lost.
WrittenByTask ==
    /\ page # Nil /\ (\E t \in PageRequests : task[t].pc = "done") =>
         \E t \in PageRequests : task[t].pc = "done" /\ page = task[t].data
    /\ page = Nil => \E t \in PageRequests : task[t].pc = "lost"

\* The inductive invariant.
IndexInv ==
    /\ IndexTypeOK /\ StaleOnlyIfSetAfterDelete
    /\ OnlyCommittedIsRead /\ SetSinceDelete /\ SavedSendsTask /\ WrittenByTask

\* The cached entry shows nothing that was rolled back, and misses a saved form
\* only by a late cache.set; every request and task is where that takes it.
CacheIsSound == IndexInv /\ RolledBackIsNeverShown
==============================================================================
