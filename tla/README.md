# Verification of dailyfresh

dailyfresh is a web shop: a Django 2.1 project (`src/dailyfresh`) over MySQL,
Redis, Celery, FastDFS and the Alipay sandbox. The repository also holds the
application server that runs it, uWSGI 2.0.18 (`src/dailyfresh/uwsgi-2.0.18`).
This directory has TLA+ models of the parts in which requests, processes or
machines can disturb each other, the TLC runs that check them, and TLAPS proofs
of the most important properties.

## 1. Inventory

### The shop

| Component | State it keeps | Operations | Hard behaviour | What makes it correct |
|---|---|---|---|---|
| Order commit (`apps/order/views.py` 81-206) | `df_order_info`, `df_order_goods`, `stock` and `sales` of `df_goods_sku` | `POST /order/commit` | optimistic update with retries, several items in one transaction, row locks in the order of the list, Redis changed inside a MySQL transaction | no overselling, no lost update, all or nothing, totals equal lines, a cart is ordered once, every request ends |
| Cart (`apps/cart/views.py`) | Redis hash `cart_<user>` | add, update, delete, cart page | read-modify-write over two Redis commands, stock read earlier, rows deleted meanwhile | adds sum up, entries were compared with the stock |
| Payment and comments (`apps/order/views.py` 209-412) | `order_status`, `trade_no`, `comment`; the trade at Alipay | pay, check (polls), comment form | a row is held while the view polls, whole rows are saved, no notification from Alipay, comments saved line by line, no test of the status before the comment form is taken | settled means paid (but for comment forms of unpaid orders), a reported success stays, finished means commented, polling ends |
| Accounts (`apps/user/views.py` 21-142) | `df_user`, signed tokens, mail tasks, sessions | register, activate, login, logout | two saves, lost mail, expired token | only activated users log in; a name is registered once |
| Addresses (`apps/user/views.py` 218-275) | `df_address` | add, show default | test and insert are two statements | one default address |
| Browsing history (`apps/goods/views.py` 52-95, `apps/user/views.py` 145-163) | Redis list `history_<user>` | view an item, show history | three Redis commands, rows deleted meanwhile | no duplicates, at most five |
| Lists (`apps/user/views.py` 166-215, `apps/goods/views.py` 98-164) | none | order list, item list | limits of the page number | the current page exists and is in a window of at most five links |
| Index page (`apps/goods/views.py` 11-48, `apps/goods/admin.py`, `celery_tasks/tasks.py`) | cache entry, static file, banner tables | show, edit in the admin site, generate | invalidation before the commit, tasks out of order | what is shown was saved, and misses a saved form only by a read that came too early |
| Item administration (`apps/goods/admin.py`) | `df_goods_sku` | open, save and delete a row | a form overwrites all columns | orders are not undone by an old form |
| Order page, file storage, search index, settings, urls, login mixin | none of their own | | | read-only, pure I/O or configuration, not modelled |

There is no in-process shared state: everything that requests share is in MySQL, Redis,
the file system or at Alipay, so one SQL statement, one Redis command, one broker call or one query to
Alipay is the unit of interleaving. The cart and the order views share the Redis hash of a
customer and the table `df_goods_sku`. Order commit creates the row that pay, check and
comment change later. The pages (`templates/`) decide which requests follow each other: the
order list posts `/order/check` right after `/order/pay`, and links the comment form
only for status 4; the view behind that link does not test the status, so the models send the form
for an order of any status.

### The server

| Component | State it keeps | Operations | Hard behaviour | What makes it correct |
|---|---|---|---|---|
| Master and workers (`core/master.c`, `master_utils.c`, `master_checks.c`, `master_events.c`, `fifo.c`, `loop.c`, `uwsgi.c`) | `uwsgi.workers[]` in shared memory, `uwsgi.status` | fork, bury, respawn, curse, reload, chain reload, cheaper, harakiri, signals, fifo commands | slots written by two processes without a lock, handlers that run between any two statements, forks that fail | slots tell the truth, dead workers are replaced, reload and shutdown end |
| Cache (`core/cache.c`) | items, hash table, stack of unused items, bitmap, LRU list, store file | set, update, delete, clear, get, sweep, udp update, restart | readers that delete, structures that must agree, an old file under a new instance | what is stored is found, no slot or block is lost or shared, expired items go; until two readers delete at once |
| Locks (`core/lock.c`, the deadlock detector in `core/master_utils.c`) | lock and pid of a holder | lock, unlock, release for the dead | pid and lock are two writes, a death in between | a writer is alone, nothing stays locked by the dead |
| Queue (`core/queue.c`) | ring and two positions | push, pull, pop, set | overflow, empty pop, a worker killed in the middle of any call | a double-ended queue |
| Spooler (`core/spooler.c`) | files and their fcntl locks | spool a request, scan, run, retry, destroy | several spoolers on one directory, kills between two system calls | each task is run by one spooler, complete, and in the end |
| Legion (`core/legion.c`) | what a node knows of the others, its vote, Lord or not | announce, receive, expire, elect, die | lost packets, nodes that die or fail as Lord | one Lord |
| Subscriptions and router (`core/subscription.c`, `plugins/corerouter`) | list of backends of a key, references, cheap mode | subscribe, unsubscribe, map, retry, close | backends that go while sessions use them | references are exact, the least loaded is picked, nobody starves |
| Emperor, signals, cron, mules, daemons, gateways, async mode, offload, protocols, internal routing, static files, options, hooks, logging, statistics, plugins | | | | not modelled, see section 5 |

The master forks and buries the processes that use the cache, the locks, the queue and the
spooler, and releases the locks of those it has buried. Other instances reach an
instance through udp: the cache, the Legion, the subscriptions.

## 2. Modules

| Module | Models | Uses |
|---|---|---|
| `Redis` | the hash commands the views call (external) | |
| `OrderCommit` | `OrderCommitView` | `Redis`, refines `Inventory` |
| `Inventory` | abstract: an order moves its quantities from stock to sales in one step | `Redis` |
| `Cart` | the four cart views | `Redis` |
| `ItemAdmin` | the cart views while rows are sold, edited and deleted | `Cart` |
| `Shop` | cart and order commit on shared state | `OrderCommit`, INSTANCE of `Cart` |
| `OrderPayment` | `OrderPayView`, `OrderCheckView`, `CommentView`, Alipay as environment | |
| `Account`, `Address`, `History` | accounts and sessions; addresses; item pages, history and list pages | `Address` and `History` use `Account`, `History` uses `Pagination` |
| `Pagination` | the page check and the window of links, as operators | |
| `Site` | account, address, history and list pages on shared state | `Address`, `History` |
| `IndexPage` | `IndexView`, `BaseModelAdmin`, the Celery task | |
| `Worker`, `Master` | a worker and its slot; the master loop | `Master` uses `Worker` |
| `UwsgiCache` | the shared cache | |
| `Lock`, `Queue`, `Spooler`, `Legion`, `Router` | the services of the server | `Queue` refines `Deque` |
| `Deque` | abstract: a double-ended queue | |
| `Services` | one of the five services at a time | the five |
| `SumLemmas` | sums over finite sets of rows or lines | |
| `ShopProofs`, `OrderPaymentProofs`, `ServicesProofs`, `SiteProofs`, `CartProofs`, `MasterProofs`, `UwsgiCacheProofs` | theorems | the module they are named after; `ShopProofs` is about `OrderCommit` too, `CartProofs` about `ItemAdmin`, `SiteProofs` about `IndexPage` |
| `MC...` | values for TLC; `MCSite` also lets a behaviour be one of `Site` or one of `IndexPage` | the module they are named after |

A definition that is preceded by a comment "Mutant:" is not part of a model: it is a
plausible wrong version of the definition that follows, and `mutants` in `PROJECT.json`
names the property that TLC finds violated with it.

### OrderCommit

`sku` holds the committed rows of `df_goods_sku`, `dirty` the newest version of each
row (equal to `sku` unless a transaction has written it), `lock` the transaction that
holds a row, `orders` the committed orders with their lines, `cart` the Redis hashes,
`now` the clock that order ids are made of, `req[r]` the local variables of one POST.
`req[r].pc` names the statement that comes next; `at` and `i` are the positions in
the two nested loops.

| Action | Code |
|---|---|
| `Refuse`, `Accept` | the checks (lines 85-106) and `order_id` (114) |
| `Create` | `OrderInfo.objects.create`: waits for an uncommitted order with the same key, fails on a committed one. Django then refuses `savepoint_rollback` too, so the reply is a server error |
| `GetSku`, `HgetCount` | reads of the row and of the cart entry with the stock check; `int(None)` ends in the outer `except` with reply 7 |
| `UpdateSku`, `UpdateMissed` | the update `WHERE stock=orgin_stock` that matches, with the order line and the totals; or that does not, with the retry. `i == 2` is kept as in the code, where it never holds |
| `SaveOrder`, `DeleteFromCart`, `Commit` | `order.save()`, `conn.hdel` and the end of `transaction.atomic` |
| `LockError`, `RedisError`, `Crash` | deadlock victim or lock wait timeout; Redis failing inside the `try`; the worker or MySQL failing anywhere |

MySQL is modelled as Django 2.x uses it: READ COMMITTED, an update takes the row lock
until the transaction ends and compares with the newest version. `RollBack` stands for
both `savepoint_rollback` with the commit of nothing after it and the rollback of the
whole transaction: the savepoint is taken before the first write, so they leave the
same state. The address row and the pay method only take part in the checks.

### Cart, ItemAdmin and Shop

`req[r]` holds the local variables of one cart request. `asked` (the count of the form)
and `seen` (what `hget` returned) are remembered for the properties only. `AddCounts` has
non-positive numbers because the minus button of `detail.html` has no lower bound;
`UpdateCounts` has not, as `cart.html` stops at one.

`ItemAdmin` adds what changes the rows behind the carts: `Sell` (orders of others),
`OpenForm` and `SaveForm` (the admin form shows all columns when it is opened and writes all of
them when it is saved) and the deletion of a row. `form` is the stock shown by the form that
is open; `sold`, `overwritten` and `late` are history for the properties.

`Shop` runs `OrderCommit` and `Cart` together: `cart` is the same variable, the stock
column of the cart module is that of the committed rows. Carts change while an order is
being committed.

### OrderPayment

`order` has the two columns the views change, `comment` the lines with a saved comment,
`trade` Alipay's state, `url` the orders for which a browser has got the payment
address. A click of the customer is one request identity: pay followed by check, as the
page posts them, or the comment form. `req[r].order` is the row the view holds; `CheckSave`
and `CommentSave` write all its columns back, as `order.save()` does. While a trade is
unknown or unpaid, `CheckQuery` is disabled: the code sleeps and asks again. `CommentForm` takes any order,
as `CommentView` does: the page links it for status 4 only, but neither `get` nor `post` tests that.
`EarlyComments` are the forms that were answered although the order they had read was not paid; they are the exception
that `SettledMeansPaid` and `ReopenedOnlyByLateCheck` name.

### Account, Address, History, Pagination and Site

`users` is `is_active` of each row of `df_user`, `token` where the activation mail of a name is (not yet sent, mailed,
expired, lost), `session` whether the browser of a name has logged in. `RegistView` is four steps: the
query for the name, `create_user` (which saves an active row and fails on a name that is
taken meanwhile), the second save that deactivates it, and `send_register_active_email.delay`; it can die
between any two. `BadForm` is what the views refuse before they ask the database; a missing field is a server error, because the
template of that reply is misspelt (`regsister.html`). `LoggedIn` is Django's `get_user`: the session of an inactive user is anonymous.

`Address` splits `POST /user/address` into `get_default_address` and the insert. `History` has
`lrem`, `lpush` and `ltrim` of `DetailView` as three steps, `lrange` and one query per item in `UserInfoView`,
and list pages over rows that are deleted meanwhile; a list of an unknown type renders a template that is named after the url of the index page, which does not exist. `Pagination` has
the test of the page number and the window of links; `LinksAreAWindow` compares the
window with a reference definition for every number of pages that occurs. `Site` lets a request be served by
one of the views; `LoginRequiredMixin` is the test `LoggedIn`.

### IndexPage

Data are represented by the set of edits they show, so `cache` and `page` tell exactly which
saved forms they miss. `IndexView` is `cache.get`, two reads (the types, then the lazy query sets of the
banners) and `cache.set`. An admin request saves, calls `delay` and `cache.delete` inside its
transaction, and then commits or rolls back; "delete selected" does not call `delete_model` and only commits. The
task reads the tables, truncates the file and writes it. A task may be lost or die.

### Worker and Master

`w` is `uwsgi.workers[]`: pid, `cheaped`, `accepting`, `in_request`, `manage_next_request`, the
mercy of a cursed worker and the harakiri deadline, times being "not set", "set" or "overdue". `proc` is the
process in each slot with its pending signals. `mpc` is where the master is in
`master_loop`: the checks at the top, cheaper, `waitpid`, the respawn of the worker it has
buried, and the events (fifo commands). Signal handlers of the
master (`grace_them_all`, `reap_them_all`, `kill_them_all`) are enabled at every position of the
loop, as the code does not block signals there. A worker forks, loads the application (which may fail), and goes
through `uwsgi_ignition`, the loop test, `accept` and the request; it may die anywhere. Events from outside
(signals, fifo commands, deaths, failing forks) are bounded by `MaxEvents`, and a configuration says which kinds may happen.

### UwsgiCache

`c` is `struct uwsgi_cache` with its items, chains (`prev`, `next`), table, stack of unused items,
bitmap of blocks with the position of the scan, and LRU list. A writer holds the write lock for the whole operation, so an operation
is one step; with `lazy_expire` a reader finds an expired item, enters `uwsgi_cache_del2` and leaves it in three steps, as it has the
read lock only and other readers go on beside it. When a reader enters while another is inside, with the same item or with another one, both write
the bitmap, the stack, the chains, the LRU list and `n_items`: that is a data race, `seen` gets `raced`, and from then on anything may have happened, so
no property speaks of the structures any more and no operation is modelled. The
sweeper takes the lock for each item. `Restart` maps an old store file: items and chains
are taken over, the stack is made anew, the bitmap and the LRU list are not. `uc` is one of the
configurations of `MCUwsgiCache`. `ByteSize` is the number of blocks per byte of the bitmap, 8 in the code.
`sweep_on_full` is the number of seconds of the option, 0 without it; for the invariants it is at most `MaxTime`.

### Lock, Queue, Spooler, Legion, Router and Services

`Lock`: taking the lock and recording the pid are two steps, and so are releasing it and clearing
the pid; a process may die between any two, and `DeadlockCheck` is what the master does when it
buries it, with `DeadlockClear` for the pid that it clears after it has released the lock. `StrayUnlock` is the unlock of `uwsgi_sharedarea_wait` that no lock precedes on a path.

`Queue`: the callers hold the lock, so an operation is a step, but a worker can be killed in the middle of one, and the
detector then releases the lock: `QueuePushKilled`, `QueuePullKilled` and `QueuePopKilled` have the states it can leave (a slot
written and a position not moved, a position moved and a slot not emptied, a position behind the last slot that was not wrapped around). A
call at such a position reads and writes memory that is no part of the ring. `misused` remembers these kills and the calls that a
deque does not cover; until then the ring is mapped to a sequence and every operation to one of `Deque`.

`Spooler`: the writer creates, locks, writes three parts, sets the time and closes; a spooler
scans, stats, opens, locks, reads, runs, unlinks and closes; each is a system call and a step. A lock is
dropped when its owner closes the file or dies.

`Legion`: an action is a turn of `legion_loop`, with or without a packet; a packet that arrives says what its
sender holds at that moment, and `Expire` is a node that was not heard for too long. Members are
numbered in the order of valor and uuid; a checksum is the set it is computed from, while the code adds up valors and the bytes of uuids.

`Router`: `nodes` is the linked list with references, weight and the turns left of
each node (`Swept` and `Without` say by index which nodes are left); a session asks for a node, connects, and closes, or its peer fails (before it is connected it retries). `passed` and `least` record
what the last picks were, for the properties.

`Services` chooses one of the five in the initial state: they share no state, so nothing is lost by
checking them one at a time.

## 3. Runs

A property that a run checks is often the conjunction of named parts, one for each thing that can go
wrong; the parts are in brackets.

| Run | Shows |
|---|---|
| `commit` | three POSTs of two customers with two items named in both orders and one without a row: `NoOversell`; `OrdersAreSound` (`Ledger`: what left the stock is on orders; `TotalsMatchLines`; `OrderedAtMostOnce`: a cart is ordered once); `SkippedOnlyUnderContention`: an item is left out only after two other orders of it were committed; `FailureLeavesNoTrace`; `CartKeptOnRefusal`; and the inductive invariant `IndInv` |
| `commit_answers` | under fairness every accepted POST is answered in spite of opposite lock orders (`EveryRequestAnswered`), and `OrderCommit` implements `Inventory` (`AtomicOrders`) |
| `commit_retries` | **violated**: `OrderComplete`. A lost race on both tries leaves the item out of a committed order; the comment in line 172 says the order is rolled back (`findings` in `PROJECT.json`) |
| `cart` | three requests of a customer while units are sold and rows edited and deleted: what is stored was compared with the stock as a whole (`EntriesAreSound`), adds are lost only if two read the same entry (`AddsLostOnlyByRace`), sold units come back only by a stale form (`UnitsReturnOnlyByStaleForm`), and an item without a row cannot be taken out of the cart by later requests (`OrphansStayInCart`) |
| `shop` | two order requests and two cart requests of one customer: the `Ledger` of stock and orders, and every line has a count that the cart held (`LinesWereInCart`) |
| `payment` | three clicks, comment forms of unpaid orders among them: an order is settled only by a payment or such a form (`SettledMeansPaid`), finished orders are commented (`FinishedMeansCommented`), a finished order is reopened only by a late check after another check or such a form (`ReopenedOnlyByLateCheck`), and the inductive invariant (with `SuccessIsRecorded`: a reported success is not undone); under fairness polling ends once the trade is decided (`DecidedIsAnswered`) |
| `payment_unpaid` | **violated**: `FinishedMeansPaid`. The comment form of an order that was never paid finishes it (`findings` in `PROJECT.json`) |
| `site` | three requests of two visitors: `AccountsAreSound` (active without a token only in the gap of the registration; a name is registered once; only active accounts leave traces), `OneDefaultAddress` (there is one, and two only by a race), `HistoryIsRecent` (bounded; an item twice only by a race), `KeptUntilPushedOut`, `ListPagesExist` (the window of links; errors only for page 0). The other half of its behaviours, as the two share no state, are of the index page: three page views or admin forms, with `CacheIsSound` (when the entry can miss a saved form, and that nothing rolled back is shown), and `PageStaleOnlyByEarlyRead` for the static page |
| `master` | two workers and a master in eleven configurations: `WorkersAreKnown` (slots match processes; a worker outlives a reload only if it was spawned after the signal), `EnoughWorkers` (an empty slot means a failed fork; a chain reload takes one worker at a time; cheaper keeps its minimum) |
| `master_ends` | under fairness a reload, a shutdown, a chain reload and an overdue request end (`OperationsEnd`) |
| `cache` | the cache in nine configurations, one with both the bitmap and lazy expiry: `ItemsAreSound` (slots, hash chains, LRU list), `BlocksAreSound` (bitmap and its scan), `ExpiryIsRemembered` |
| `services` | `LocksAreSound` (a writer is alone, the dead hold nothing), `QueueIsDeque` (refinement of `Deque`, and nothing is hidden), `TasksRunProperly` (one spooler, once, complete, on time), `EveryTaskEnds`, `OneLord` (two only in a handover, where the lower one already votes for a node as good as the other; one at rest), `NodesAreSound` (references and sleep of the router), `FairPicks` |

A property named `...OnlyBy...`, `...OnlyIf...` or `...OnlyUnder...` says what is true and names the one sequence of events after
which it is not: without the exception TLC shows the sequence. What they say of the code:

- two overlapping adds to a cart lose one of them; a zero or negative count of `detail.html` is
  stored; an `hset` that comes after the commit brings ordered units back into the cart;
- an item whose row is deleted stays in the carts and breaks the cart page;
- two first addresses at once are both default, and then every page that asks for the default one fails;
- a worker that dies between the two saves of a registration leaves an account that is active
  without a token;
- a comment form of an order that was never paid finishes it;
- a payment check that read the order before it was settled by another check or by such a form saves status 4 over 5, and polling
  has no end as long as Alipay does not decide;
- a page view that read before the commit of an admin form sets the cache after the form deleted it;
- a signal between the master's test for reloading and its respawn leaves a worker that nobody curses, and a failed fork
  leaves a slot that nobody fills;
- two lazy readers may delete expired items at once, the same one or different ones, and then nothing holds for the cache; a store file and a new bitmap disagree after
  a restart; the bitmap scan misses a free run around its position;
- a process that dies between unlock and clearing its pid makes the detector release the lock of the next holder;
- a pop of an empty queue hides what is pushed next, and so does a worker killed in the middle of a push, pull or pop;
- a spool file of a killed writer may lack its body; a spooler that is killed after the task runs it again;
- a Legion node that declared itself dead is not taken in again, and may become a second Lord.

**Bounds.** `commit` needs three requests: a request loses its second try only
if two others commit, one before each of its updates; two items are needed for partial failure and for
opposite lock orders. Two seconds (`MaxNow = 1`) are enough for order ids to collide or not.
In `cart` three requests let one overwrite the result of two others; the stock of 3 can
be reached and exceeded by adds of 2. In `shop` two orders and two cart requests give every
pattern of one late write around one commit, and a second order to use it. In `payment` three
clicks are two checks and a comment form of one order, or one check and two forms: enough for every kind of stale row to meet every kind of save,
after somebody else's (the theorems are for any number of clicks); `payment_unpaid` needs one form. In `site` three requests give every race of two and a third that meets its result;
`Keep` is 2 instead of 5, so that the list overflows with three views; as a page has one item, six items make up to six
pages, more than the window has links, and `MaxPage` asks for one past the end. Three requests for the index page are two forms and a view, or a form and two views. In `master` two workers show what one does to
the other, and two events of the kinds of a configuration show every pair, such as a signal while a worker dies. In `cache`
three of four keys collide, three items fit, and four blocks in bytes of three are enough for runs that straddle a byte and for padding. In `services` three processes
are a holder, a next holder and a waiter; the ring of three is filled, wrapped and emptied; two spoolers compete for
a new task and one that was left by an earlier instance; three Legion nodes, one an arbiter, have a quorum of two; three
backends of different weight serve two sessions. `MaxTrouble`, `MaxFaults`, `MaxRetries` and `MaxEvents` bound the faults.

Requests are interchangeable and so are lines, colliding keys and readers; symmetry is used in the runs without
liveness properties.

The largest runs are `master` (1,246,525 distinct states), `shop` (926,857), `commit` (798,853), `cache` (639,021), `site` (601,996) and `services` (467,835).

**Deadlock** is checked, except in `site` and `services`, where all requests may be answered, or
all tasks done, and nothing is left to do. Elsewhere a state in which everything has
ended stutters, and any other state without a successor is reported.

**Fairness.** In `OrderCommit` and `OrderPayment` it is weak fairness of the steps of a worker that
serves a request (`View(r)`): uWSGI does not stop serving an accepted request. In `OrderCommit` it
includes `LockError`: InnoDB detects deadlocks and limits lock waits
(`innodb_lock_wait_timeout`), so a wait ends by itself. Nothing is assumed of clients,
of the buyer or of Alipay. In `Master`
the master loop, starting workers, the loop test, the delivery of signals and the passing of the mercy time are fair,
and requests are not: they may run for ever. In `Services` writers, spoolers and the clock are fair, and the
master starts a dead spooler again. Crashes and errors are possible and never required.

## 4. Proofs

All theorems hold for any sets of users, items, lists, requests, processes, tasks, nodes and cache keys, under the
assumptions stated in the modules: the sets are finite where something is counted over them, `Nil` (Python's
`None`) and the other "nothing" values are none of the values they stand beside, initial stock is not negative, and a list
names an item at most once (the checkboxes of `cart.html` do). Two theorems have a hypothesis of their own:
`OrdersAddUp` that no cart starts with an entry that is not positive (`PositiveCarts`), and `OneLordHolds` that
the quorum of the Legion is more than half of its nodes.

Each theorem `Spec => []P` is proved from an inductive invariant: `P` by itself speaks of committed or shared
state, and what makes it true is what requests or processes hold in local variables between two steps.

**SumLemmas.** `SumOf` of a finite set takes out one member after another. The lemmas show that this recursion has a solution, that
the order does not matter, and what a new, a removed or a changed member does to the sum. Induction over the size of the set is done with a set of numbers in place of a predicate (`NatSetInduction`),
which the provers can use.

**ShopProofs, the orders alone.** `NoOversell` and `Conservation` are not inductive: the update writes
values computed from a row read earlier, and other transactions write in between.
`IndInv` adds what ties those pieces together:

- `LocalsOK`: a row that a request holds between read and update had consistent columns
  (stock plus sales is the total), the count is covered by its stock, and only items before the current one have a
  line. The last part needs the lists without duplicates: otherwise an item could be
  taken twice in a transaction, from its own uncommitted version.
- `LocksMatchLines`: a row is locked by exactly the transaction that has a line for it.
- `RowVersions`: the uncommitted version of a row is the committed one with the holder's
  line moved from stock to sales; an unlocked row has one version only.
- `OrdersAnswered`: committed orders belong to requests that were answered with 5.

The key step is `UpdateSku`: the test `stock = orgin_stock` compares one column, but as
both the row read and the newest version have the same total, sales is equal as well,
so writing the stale `new_sales` loses nothing. From `[]IndInv` (`Isolation`) follow
`TypeCorrect`, `NeverOversold`, `StockAndSales` and `FailuresAreClean`; `RefusalsKeepCart`
needs its own induction on top of it. `OrdersAreAtomic` proves the refinement of `Inventory`:
`Commit` is a `Purchase` (by `RowVersions`), every other step leaves the committed rows and orders alone.

Four more results add sums and history to it. `LedgerHolds`: what an item has sold is the sum of the committed lines, as
`Commit` adds one order and `RowVersions` says what it moved. `TotalsAreRight`: the totals that a request carries are the sums over the
lines it has made. `OrdersAddUp`: a line that is committed was covered by the cart, and `hdel` removed the entry before the commit, so a customer's
lines of an item never exceed what the cart held. `SkipsAreContended`: each failed update saw a stock other than the one read,
and so another transaction's commit between the two; the two tries need two different orders.

**ShopProofs, with the cart views.** The same invariant, the refinement and the ledger hold when cart views change the
carts at any moment: the orders rely on the type of the cart entries only, so all
that is added is the type of the cart requests' local variables (`ShopInv`). `ShopLinesWereInCart`
adds the values a cart entry has had.

**CartProofs.** The theorems are about `ItemAdmin`, the cart views with sales, forms and deletions. `EntriesChecked` follows what a
request read to the `hset` that stores it; `AddsSumUp` follows the sum of the
counts asked for, and blames a difference on two requests that read one entry; `UnitsStaySold` counts what a stale form brought back;
`OrphansRemain` follows the requests that had found a row before it was deleted.

**OrderPaymentProofs.** `SettledMeansPaid`, `SuccessIsRecorded` and `FinishedMeansCommented` depend on
each other through the rows that views hold. `HeldRowsAreSafe` says when such a row may
be saved: a check that is about to save has seen the payment; a comment form holds a row that was unpaid, or one that was settled, with the number
of its trade or after an early comment; and the lines not yet saved by it are the only ones that can be missing.
Together they are inductive (`RowsStaySafe`). Early comments are never forgotten, because an answered request keeps the row it
had read, so the exceptions of the theorems are stable. `FinishedOrdersStayFinished` adds that only a check whose row was read
before the order was finished can save an earlier status, and that the order was then settled twice.

**SiteProofs.** `AccountInv`, `AddressInv`, `HistoryInv` and `OnlyActiveUsersLeaveTraces` are proved together, as a step of any view is a
step of its own part and keeps the others. `AddressInv` orders the queries for the default address and the inserts. `HistoryInv` bounds the list by `Keep`
and the views between `lpush` and `ltrim`, and counts how often an item is listed; what `lrem` leaves is proved by induction over
the positions of the list. `ListPagesAreShown` has the window of links for every number of pages. `HistoryIsKept` is an action property.

**SiteProofs, the index page.** The invariant says of each request and each task at each step which committed edits the data it holds can miss, and
whose edits they can show. `CachedDataAreSound` and `PageStaleness` follow.

**ServicesProofs.**

- Locks (`LocksHold`): `PidOfHolder`, `HoldersHaveTheLock` and `HoldsAreUndone` relate the recorded pid, the holders and the
  steps that each process still has to do; the exceptions of `LocksAreSound` are the four races in which one of them is lost.
- Queue (`QueueImplementsDeque`, `SharedQueueIsDeque`): the messages from `pull_pos` to `pos`, read around the ring, are the sequence of `Deque`.
  Push, pull and pop map to its steps for every size, and what a killed worker leaves, like every other misuse, to the step that ends the promise; the
  arithmetic of the wrap is in the lemmas about places.
- Spooler (`TasksAreRunProperly`): `SpoolerInv` says what a file is while its writer is at each step, who has its lock while a spooler is at each step, and that
  a task that was done has lost its file once its spooler is gone, unless it was killed.
- Legion (`OneLordHolds`): without faults a node only learns, so the views that a node announces grow (`Learns`), and for each Lord there is a
  view of a quorum whose members all announced it, nested in every other view of a member (`Elected`). Two majorities
  have a member in common, so the views of two Lords are nested, the higher Lord is not in the view of the lower one, and so the
  lower one has been in the view of the higher one and votes for somebody as good. Writing the proof showed that an earlier form of the property,
  in which the lower one votes for exactly the other Lord, is true for three nodes and false for five: a still better third
  node may have been heard of. The property says what is true now.
- Router (`NodesStaySound`, `PicksAreFair`): `RouterInv` has three parts. `Fits` says of the list and the backends that the sessions use that names are
  unique, every backend in use is listed, and a node's references are its users; each operation on the list (sweep, refill, take, release,
  remove, append) keeps it, as each node of the new list is traced to its place in the old one (`Traced`). `Patient` bounds how long `Watched` waits by
  a potential: the picks it was passed over, the turns that the others have left, and a share of everybody while `Watched` has had none
  are together at most two shares. The loops of lrc and wlrc, with their minimum of 0 that counts as none and their early stop, are followed turn by
  turn with the invariant `Knows`.

**MasterProofs.** `MasterInv` has three parts, and every step of a worker, of the master and of a handler keeps them.

- `SlotsInv` says of each slot and its process what `WorkersAreKnown` and `EmptySlotOnlyByForkFailure` need: between the burial of a worker and its
  respawn the slot is empty although nothing else happened, so the place of the master (`mpc`, `dead`) is part of it; a pid without a process can only be
  respawned in a slot that is cheaped; a master that listens itself has no workers, and is cheap. With that no running worker is replaced.
- `ChainInv` describes an undisturbed chain reload: every worker is `Steady` but for one, which is `Doomed` (cursed, from the check of the
  chain to its burial) or `Starting` (respawned, until it accepts). `chain_reloading` points at the first and past the second, which is why `ChainWaits`
  holds the chain until the new worker is steady. What a harakiri or another signal would do to a steady worker shows in `seen`.
- `CheaperInv`: when the fifo has asked for nothing, only the spare algorithm retires a worker, and it does so when more than
  `CheaperCount` are active and one of them is free. That a retirement put off because all are busy cannot come from the algorithm (a busy round raises the overload
  count) is part of the proof.

`CurseAllIs`, `KillIs`, `SpawnIs` and the like say once what a handler or a fork does to all slots.

**UwsgiCacheProofs.** `CacheInv` is inductive (`CacheStaysSound`) for any number of items, keys, blocks and readers, any hash function and
any options of the cache; the three invariants that `cache` checks follow.

- The chains of the hash table and the LRU list are one notion: `Linked` says that the items of a set stand in some order, along which
  `next` and `prev` lead from the head to the tail. `ListRemove` and `ListAppend` are the writes that `uwsgi_cache_del2`, `uwsgi_cache_set2`,
  `lru_remove_item` and `lru_add_item` have in common; `WalkAlong` says what a loop along such a list returns, and so what `Find`, `ChainEnd` and
  the walk of `LruListIsComplete` are.
- `Sound` puts the parts together: the stack has the items that are not used (`Stacked`), keys are stored once (`Keyed`), every chain links the items of
  its hash (`Chained`), the bitmap has the padding and the blocks of the items (`Padded`, `Exact`), the LRU list links all items in use (`Listed`). Each write to the
  cache is a lemma that says what it leaves alone (`OnlyChains`, `OnlyLru`, `Dropped`, `Placed`, `Marked`).
- `Rem` is what the sweeper knows. It is no property of an operation's result alone: with `sweep_on_full` a full cache may put a due scan off (`PutOff`)
  beyond the next expiry. So every operation is shown to be `Fine`: it ends in a sound cache, and either keeps `Rem` or has put off a scan that was due.
  `Fine` is transitive, and `uwsgi_cache_set2` is a chain of such steps: lookup, deletes of a full cache, reminder, placing.
- A restart keeps chains and items; that the heads `uwsgi_cache_fix` finds (items without `prev`) are those of the lost table is `HeadIs`, and the stack it
  makes is `FixStackIs`. The bitmap and the LRU list are given up, as the exceptions of the properties say.
- `Alone` says of the readers that delete under the read lock that, until there is a race, one at most is in `uwsgi_cache_del2`, and its item is still in use: nobody else
  can have deleted it, as writers are shut out. So the single reader deletes like a writer (`LazyDropKeeps`). After the race nothing is claimed of the structures; the types hold in
  every state of the model.

**Only model-checked.** Liveness under fairness (`EveryRequestAnswered`, `DecidedIsAnswered`,
`OperationsEnd`, `EveryTaskEnds`) is out of the prover's reach. `OrderComplete` and `FinishedMeansPaid` are false (section 3).

## 5. What is not modelled

Of the shop: the order page, which changes nothing; prices of cart entries and the sums shown on pages;
the texts of comments, addresses and replies; CSRF tokens and cookies; Redis
persistence (a crash of Redis is a failing command, its data stay); forms that the shop's own pages do not send, but for the
comment form of an order that is not paid; the FastDFS wrapper and the search index, which are pure I/O.

Of the server, which has 113,000 lines of C, the models cover the code that keeps shared
state between processes or machines. Most of the rest is no state machine of its own: parsers of
protocols and options, buffers, system calls and their error texts, bindings of interpreters, tables of options, byte-level
encodings, statistics and logs. A model of it would repeat it line by line and have no property that
several steps or actors can violate. What has state and is left out:

- the Emperor, whose vassals are instances like the one in `Master` and whose decisions depend on `stat` of
  files;
- mules, cron, signals, daemons and gateways: in `Master` they are other children that are
  started, cursed and buried;
- threads, async mode, offload engines and suspension of workers: a worker serves one request at a time;
- the sync of a whole cache from another node, the math operations and the protocol of the cache;
- a worker killed in the middle of an operation on the cache (in the queue it is modelled), what readers do after they raced in `uwsgi_cache_del2`, and a position of the queue
  that a second kill at the same statement moves further out of the ring; `uwsgi_queue_set` with a message that runs over into the next slot;
- two sets of Legion nodes with the same checksum, which is a sum;
- scrolls, encryption and most hooks of the Legion; signatures, SNI and other mappers of the router.

`components` in `PROJECT.json` lists all of them; `hazards` lists what can go wrong, with the properties
that cover it.

## 6. Plan

Done: all modules of section 2 with their runs, and the theorems of section 4. Next, in this order:

1. The Emperor with its vassals, on top of `Master`; signals and mules with the queue of signals in shared memory.
2. The sync of a whole cache from another node, and the math operations of the cache.
