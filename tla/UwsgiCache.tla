----------------------------- MODULE UwsgiCache -----------------------------
(****************************************************************************)
(* The shared-memory cache of uWSGI (core/cache.c): items in an array,      *)
(* found through a hash table of doubly linked chains, with a stack of      *)
(* unused items, an optional bitmap of blocks and an optional LRU list.     *)
(* Writers hold the write lock for a whole operation, so an operation is    *)
(* one step; readers share the read lock, and with lazy_expire they delete: *)
(* two deletes at once are a data race, after which nothing is known of the *)
(* cache, and the model stops.  That a worker is killed in the middle of an *)
(* operation, and leaves it half done, is left out.                         *)
(****************************************************************************)
EXTENDS Integers, Sequences, FiniteSets

CONSTANTS
    Key, NoKey,
    Hash,           \* [Key -> 0..(HashSize - 1)]
    HashSize,
    MaxItems,       \* max_items; item 0 is never used
    Blocks,         \* blocks, for the bitmap
    ByteSize,       \* bits in a byte of the bitmap, 8 in the code
    MaxTime,        \* the last second of the model
    Reader,         \* processes that read under the read lock
    CacheConfigs    \* the caches to be checked

CacheConfig == [bitmap: BOOLEAN, purge_lru: BOOLEAN, lazy_expire: BOOLEAN,
                sweep_on_full: 0..MaxTime, clear_on_full: BOOLEAN, udp: BOOLEAN,
                store: BOOLEAN, lifetimes: SUBSET Nat]

ASSUME CacheAssumption ==
    /\ HashSize \in Nat \ {0} /\ Hash \in [Key -> 0..(HashSize - 1)]
    /\ NoKey \notin Key
    /\ MaxItems \in Nat \ {0} /\ ByteSize \in Nat \ {0} /\ MaxTime \in Nat \ {0}
    /\ Blocks \in Nat /\ Blocks >= MaxItems
    /\ CacheConfigs \subseteq CacheConfig
    /\ \A o \in CacheConfigs : o.lifetimes \subseteq 0..MaxTime

VARIABLES
    uc,             \* the options of the cache; the lifetimes that are asked for
    c,              \* struct uwsgi_cache with its items
    now,            \* uwsgi_now()
    rd,             \* what each reader is about to do
    sweep,          \* the item the sweeper looks at next, 0 when it sleeps
    seen            \* "raced": two readers deleted at once; "restarted"; "swept"

vars == <<uc, c, now, rd, sweep, seen>>

Index == 1..(MaxItems - 1)
Bytes == (Blocks + ByteSize - 1) \div ByteSize
Bits == 0..(Bytes * ByteSize - 1)
None == -1
Unused == [key |-> NoKey, hash |-> 0, size |-> 0, first |-> 0, prev |-> 0, next |-> 0,
           lru_prev |-> 0, lru_next |-> 0, expires |-> 0, abs |-> FALSE]

Used(d) == {i \in Index : d.items[i].key # NoKey}

\* The last byte of the bitmap is padded with used blocks.
EmptyCache ==
    [items |-> [i \in Index |-> Unused],
     hashtable |-> [h \in 0..(HashSize - 1) |-> 0],
     unused |-> [i \in Index |-> i], n_items |-> 0,
     bitmap |-> {b \in Bits : b >= Blocks}, pos |-> 0,
     lru_head |-> 0, lru_tail |-> 0, next_scan |-> 0]

Init ==
    /\ uc \in CacheConfigs
    /\ c = EmptyCache /\ now = 1
    /\ rd = [r \in Reader |-> [at |-> "idle", slot |-> 0]]
    /\ sweep = 0 /\ seen = {}

------------------------------------------------------------------------------
(* The bitmap.                                                              *)

Run(first, n) == first..(first + n - 1)

Free(d, first, n) == Run(first, n) \subseteq Bits \ d.bitmap

\* Where the second round of the scan ends: after the bytes before the start,
\* and after the byte of the start if it was entered in the middle.
ScanEnd(d) ==
    ((d.pos \div ByteSize) + IF d.pos % ByteSize > 0 THEN 1 ELSE 0) * ByteSize

Least(S) == CHOOSE x \in S : \A y \in S : x =< y

\* uwsgi_cache_find_free_blocks: from the position to the end, then from 0;
\* a run never crosses from the end to the beginning.
FindFreeBlocks(d, n) ==
    LET ahead == {b \in Bits : b >= d.pos /\ Free(d, b, n)}
        behind == {b \in Bits : Free(d, b, n) /\ b + n =< ScanEnd(d)} IN
    IF ahead # {} THEN Least(ahead) ELSE IF behind # {} THEN Least(behind) ELSE None

\* cache_mark_blocks, and the position of the next scan.
MarkBlocks(d, first, n) ==
    [d EXCEPT !.bitmap = @ \cup Run(first, n),
              !.pos = IF first + n >= Blocks THEN 0 ELSE first + n]

\* Without the bitmap the block of an item is the one with its number.
Occupy(d, first, n) == IF uc.bitmap THEN MarkBlocks(d, first, n) ELSE d

\* Mutant: only the first block is freed.
UnmarkBlocksFirst(d, i) ==
    IF uc.bitmap THEN [d EXCEPT !.bitmap = @ \ {d.items[i].first}] ELSE d

\* cache_unmark_blocks.  The size of an item in use is never 0: a value without
\* content is refused, and an item that is deleted again fails the test of Del.
UnmarkBlocks(d, i) ==
    IF uc.bitmap
    THEN [d EXCEPT !.bitmap = @ \ Run(d.items[i].first, d.items[i].size)] ELSE d

------------------------------------------------------------------------------
(* The hash chains and the LRU list.                                        *)

\* The item that a walk along a chain from i gets to: the one with key k, the
\* last one if k is NoKey, or 0.
NextInChain(d, k, i) ==
    IF i = 0 \/ d.items[i].key = k THEN i
    ELSE IF k = NoKey /\ d.items[i].next = 0 THEN i ELSE d.items[i].next
Walk(d, k, h) ==
    LET at[n \in 0..MaxItems] ==
            IF n = 0 THEN d.hashtable[h] ELSE NextInChain(d, k, at[n - 1])
    IN at[MaxItems]

\* uwsgi_cache_get_index without check_lazy: the item with key k, or 0.
Find(d, k) == Walk(d, k, Hash[k])

\* The last item of a chain that is not empty.
ChainEnd(d, h) == Walk(d, NoKey, h)

\* lru_remove_item.
LruRemove(d, i) ==
    LET p == d.items[i].lru_prev
        n == d.items[i].lru_next
        d1 == IF n # 0 THEN [d EXCEPT !.items[n].lru_prev = p] ELSE [d EXCEPT !.lru_tail = p]
    IN IF p # 0 THEN [d1 EXCEPT !.items[p].lru_next = n] ELSE [d1 EXCEPT !.lru_head = n]

\* lru_add_item.
LruAdd(d, i) ==
    LET t == d.lru_tail
        d1 == IF t # 0 THEN [d EXCEPT !.items[t].lru_next = i] ELSE [d EXCEPT !.lru_head = i]
    IN [d1 EXCEPT !.items[i].lru_next = 0, !.items[i].lru_prev = t, !.lru_tail = i]

\* A get or an update makes the item the most recently used one.
Touch(d, i) == IF uc.purge_lru THEN LruAdd(LruRemove(d, i), i) ELSE d

\* Mutant: the item that comes after keeps its prev.
UnlinkForward(d, i) ==
    LET p == d.items[i].prev
        n == d.items[i].next
        d1 == IF p # 0 THEN [d EXCEPT !.items[p].next = n]
              ELSE [d EXCEPT !.hashtable[d.items[i].hash] = n]
    IN IF p = 0 /\ n = 0 THEN [d1 EXCEPT !.hashtable[d.items[i].hash] = 0] ELSE d1

\* The item leaves its chain.
Unlink(d, i) ==
    LET p == d.items[i].prev
        n == d.items[i].next
        d1 == IF p # 0 THEN [d EXCEPT !.items[p].next = n]
              ELSE [d EXCEPT !.hashtable[d.items[i].hash] = n]
        d2 == IF n # 0 THEN [d1 EXCEPT !.items[n].prev = p] ELSE d1
    IN IF p = 0 /\ n = 0 THEN [d2 EXCEPT !.hashtable[d.items[i].hash] = 0] ELSE d2

\* The item becomes the last of its chain.
LinkAfter(d, i, last) == [d EXCEPT !.items[last].next = i, !.items[i].prev = last]
Link(d, i) ==
    LET h == d.items[i].hash IN
    IF d.hashtable[h] = 0 THEN [d EXCEPT !.hashtable[h] = i]
    ELSE LinkAfter(d, i, ChainEnd(d, h))

------------------------------------------------------------------------------
(* Deleting.                                                                *)

\* What uwsgi_cache_del2 does with an item whose keysize it found positive.
LruForget(d, i) == IF uc.purge_lru THEN LruRemove(d, i) ELSE d
Drop(d, i) ==
    [LruForget(Unlink([UnmarkBlocks(d, i) EXCEPT !.unused = Append(@, i)], i), i)
        EXCEPT !.items[i] = Unused, !.n_items = @ - 1]

\* uwsgi_cache_del2 of the item i.
Del(d, i) == IF d.items[i].key = NoKey THEN d ELSE Drop(d, i)

\* Every item of S is deleted, in the order of the array.
DelEach(d, S) ==
    LET upto[i \in 0..(MaxItems - 1)] ==
            IF i = 0 THEN d ELSE IF i \in S THEN Del(upto[i - 1], i) ELSE upto[i - 1]
    IN upto[MaxItems - 1]

Expired(d, i) == d.items[i].expires > 0 /\ d.items[i].expires =< now

\* cache_full: the LRU item goes, then (not more often than the option says)
\* what has expired, and if nothing has, everything.
ScanDue(d) == uc.sweep_on_full > 0 /\ d.next_scan =< now
Outdated(d) == {i \in Index : Expired(d, i)}
LruEvicted(d) == IF uc.purge_lru /\ d.lru_head # 0 THEN Del(d, d.lru_head) ELSE d
Swept(d) ==
    IF ScanDue(d)
    THEN [DelEach(d, Outdated(d)) EXCEPT !.next_scan = now + uc.sweep_on_full] ELSE d
Emptied(d) ==
    IF uc.clear_on_full /\ ~(ScanDue(d) /\ Outdated(d) # {})
    THEN DelEach(Swept(d), Index) ELSE Swept(d)
CacheFull(d) == Emptied(LruEvicted(d))

\* uwsgi_cache_get_index with check_lazy.
CheckLazy(d, i) ==
    IF i # 0 /\ uc.lazy_expire /\ Expired(d, i)
    THEN [c |-> Del(d, i), slot |-> 0] ELSE [c |-> d, slot |-> i]
Lookup(d, k) == CheckLazy(d, Find(d, k))

------------------------------------------------------------------------------
(* Setting.                                                                 *)

\* The absolute expiry, which with purge_lru is not computed.
Expiry(e, fl) == IF e > 0 /\ ~uc.purge_lru /\ "abs" \notin fl THEN e + now ELSE e

\* The sweeper is to scan when the item expires; not for an absolute expiry.
Remind(d, e, fl) ==
    IF /\ e > 0 /\ ~uc.purge_lru /\ "abs" \notin fl
       /\ d.next_scan = 0 \/ d.next_scan > e + now
    THEN [d EXCEPT !.next_scan = e + now] ELSE d

\* uwsgi_cache_set2 for a key that is not there.  Without free blocks the item
\* goes back to the stack, and there is no second try.
Store(d, i, item) ==
    [d EXCEPT !.unused = SubSeq(@, 1, Len(@) - 1), !.items[i] = item, !.n_items = @ + 1]
LruInsert(d, i) == IF uc.purge_lru THEN LruAdd(d, i) ELSE d
NewItem(k, n, e, fl, first) ==
    [Unused EXCEPT !.key = k, !.hash = Hash[k], !.size = n, !.first = first,
                   !.expires = Expiry(e, fl), !.abs = "abs" \in fl]
SetAt(d, i, first, k, n, e, fl) ==
    IF first = None THEN CacheFull(d)
    ELSE Link(LruInsert(Store(Occupy(Remind(d, e, fl), first, n), i,
                              NewItem(k, n, e, fl, first)), i), i)
SetTop(d, i, k, n, e, fl) ==
    SetAt(d, i, IF uc.bitmap THEN FindFreeBlocks(d, n) ELSE i, k, n, e, fl)
SetIfRoom(d, k, n, e, fl) ==
    IF d.unused = <<>> THEN d ELSE SetTop(d, d.unused[Len(d.unused)], k, n, e, fl)
SetNew(d, k, n, e, fl) == SetIfRoom(IF d.unused = <<>> THEN CacheFull(d) ELSE d, k, n, e, fl)

\* uwsgi_cache_set2 for a key that is there: nothing without "update"; with
\* the bitmap the value moves to new blocks.
Renew(d, i, e, fl) ==
    IF "fixexpire" \in fl THEN d
    ELSE [Remind(Touch(d, i), e, fl)
            EXCEPT !.items[i].expires = Expiry(e, fl), !.items[i].abs = "abs" \in fl]
MoveTo(d, i, n, first) ==
    IF first = None THEN CacheFull(d)
    ELSE [UnmarkBlocks(MarkBlocks(d, first, n), i)
            EXCEPT !.items[i].first = first, !.items[i].size = n]
Move(d, i, n) == IF uc.bitmap THEN MoveTo(d, i, n, FindFreeBlocks(d, n)) ELSE d
SetOld(d, i, n, e, fl) ==
    IF "update" \in fl THEN Move(Renew(d, i, e, fl), i, n) ELSE d

SetFound(d, i, k, n, e, fl) ==
    IF i = 0 THEN SetNew(d, k, n, e, fl) ELSE SetOld(d, i, n, e, fl)
Set2(k, n, e, fl) == LET found == Lookup(c, k) IN SetFound(found.c, found.slot, k, n, e, fl)

------------------------------------------------------------------------------
(* The operations.                                                          *)

\* The write lock is free.
Writable == \A r \in Reader : rd[r].at = "idle"

Step == "raced" \notin seen

Sizes == 1..(IF uc.bitmap THEN 2 ELSE 1)

\* "fixexpire" keeps the expiry and the place in the LRU list, if there is one.
Flags ==
    {{}, {"update"}} \cup
    IF uc.lifetimes # {0} \/ uc.purge_lru THEN {{"update", "fixexpire"}} ELSE {}

\* Whether cache_full has put off the next scan.
Noted == IF c'.next_scan > c.next_scan /\ c.next_scan > 0 THEN seen \cup {"swept"} ELSE seen

\* uwsgi_cache_magic_set, and the items given on the command line.
MagicSet ==
    /\ Step /\ Writable
    /\ \E k \in Key, n \in Sizes, e \in uc.lifetimes, fl \in Flags : c' = Set2(k, n, e, fl)
    /\ seen' = Noted
    /\ UNCHANGED <<uc, now, rd, sweep>>

\* uwsgi_cache_magic_del; a command of the udp server does the same.
MagicDel ==
    /\ Step /\ Writable
    /\ \E k \in Key :
          LET found == Lookup(c, k) IN
          c' = IF found.slot = 0 THEN found.c ELSE Del(found.c, found.slot)
    /\ UNCHANGED <<uc, now, rd, sweep, seen>>

\* uwsgi_cache_magic_clear.
MagicClear ==
    /\ Step /\ Writable
    /\ c' = DelEach(c, Index)
    /\ UNCHANGED <<uc, now, rd, sweep, seen>>

\* uwsgi_cache_magic_get with purge_lru, which takes the write lock.
MagicGet ==
    /\ Step /\ Writable /\ uc.purge_lru
    /\ \E k \in Key :
          LET found == Lookup(c, k) IN
          c' = IF found.slot = 0 THEN found.c ELSE Touch(found.c, found.slot)
    /\ UNCHANGED <<uc, now, rd, sweep, seen>>

\* Under the read lock, uwsgi_cache_magic_exists (and uwsgi_cache_magic_get
\* without purge_lru) finds an expired item ...
LazyFound(r) ==
    /\ Step /\ uc.lazy_expire /\ rd[r].at = "idle"
    /\ \E k \in Key :
          /\ Find(c, k) # 0 /\ Expired(c, Find(c, k))
          /\ rd' = [rd EXCEPT ![r] = [at |-> "test", slot |-> Find(c, k)]]
    /\ UNCHANGED <<uc, c, now, sweep, seen>>

\* ... and enters uwsgi_cache_del2, which goes on if the item is in use.  When
\* another reader is in there too, with the same item or with another one, both
\* write the bitmap, the stack, the chains, the LRU list and n_items.
LazyTest(r) ==
    /\ Step /\ rd[r].at = "test"
    /\ IF c.items[rd[r].slot].key = NoKey
       THEN /\ rd' = [rd EXCEPT ![r] = [at |-> "idle", slot |-> 0]]
            /\ UNCHANGED seen
       ELSE /\ rd' = [rd EXCEPT ![r].at = "drop"]
            /\ seen' = IF \E s \in Reader : rd[s].at = "drop"
                       THEN seen \cup {"raced"} ELSE seen
    /\ UNCHANGED <<uc, c, now, sweep>>

\* A reader that is alone in uwsgi_cache_del2 ends it.
LazyDrop(r) ==
    /\ Step /\ rd[r].at = "drop"
    /\ c' = Drop(c, rd[r].slot)
    /\ rd' = [rd EXCEPT ![r] = [at |-> "idle", slot |-> 0]]
    /\ UNCHANGED <<uc, now, sweep, seen>>

\* cache_udp_server_loop: another node has set a key; the expiry is absolute.
UdpSet ==
    /\ Step /\ Writable /\ uc.udp
    /\ \E k \in Key, n \in Sizes, e \in {0, now, now + 1} :
          c' = Set2(k, n, e, {"update", "abs"})
    /\ seen' = Noted
    /\ UNCHANGED <<uc, now, rd, sweep>>

\* cache_sweeper_free_items: nothing to do before next_scan ...
SweepStart ==
    /\ Step /\ sweep = 0
    /\ ~uc.purge_lru /\ ~uc.lazy_expire
    /\ c.next_scan # 0 /\ c.next_scan =< now
    /\ Index # {}
    /\ sweep' = 1
    /\ UNCHANGED <<uc, c, now, rd, seen>>

\* Mutant: next_scan is reset by the last item and not by the first.
SweepItemReset ==
    /\ Step /\ Writable /\ sweep # 0
    /\ c' = LET d == IF Expired(c, sweep) THEN Del(c, sweep) ELSE c IN
            IF sweep = MaxItems - 1 THEN [d EXCEPT !.next_scan = 0] ELSE d
    /\ sweep' = (sweep + 1) % MaxItems
    /\ UNCHANGED <<uc, now, rd, seen>>

\* ... then one item at a time, releasing the lock after each.
SweepAt(d, i) ==
    LET e == d.items[i].expires IN
    IF e = 0 THEN d
    ELSE IF e =< now THEN Del(d, i)
    ELSE IF d.next_scan = 0 \/ d.next_scan > e THEN [d EXCEPT !.next_scan = e] ELSE d
SweepItem ==
    /\ Step /\ Writable /\ sweep # 0
    /\ c' = SweepAt(IF sweep = 1 THEN [c EXCEPT !.next_scan = 0] ELSE c, sweep)
    /\ sweep' = (sweep + 1) % MaxItems
    /\ UNCHANGED <<uc, now, rd, seen>>

\* The stack that uwsgi_cache_fix makes, after each item of the array.
FixStack(d) ==
    LET stack[i \in 0..(MaxItems - 1)] ==
            IF i = 0 THEN <<>>
            ELSE IF d.items[i].key = NoKey THEN Append(stack[i - 1], i) ELSE stack[i - 1]
    IN stack[MaxItems - 1]

\* The instance is started again with a store file, which holds the items:
\* uwsgi_cache_fix makes the stack and the hash table anew, not the bitmap
\* and not the LRU list.
Restart ==
    /\ Step /\ uc.store /\ "restarted" \notin seen
    /\ c' = [EmptyCache EXCEPT
               !.items = c.items, !.unused = FixStack(c), !.n_items = Cardinality(Used(c)),
               !.hashtable = [h \in 0..(HashSize - 1) |->
                   LET heads == {i \in Used(c) : c.items[i].hash = h /\ c.items[i].prev = 0}
                   IN IF heads = {} THEN 0 ELSE CHOOSE i \in heads : \A j \in heads : j =< i],
               !.next_scan = LET E == {c.items[i].expires : i \in Used(c)} \ {0}
                             IN IF E = {} THEN 0 ELSE Least(E)]
    /\ rd' = [r \in Reader |-> [at |-> "idle", slot |-> 0]]
    /\ sweep' = 0
    /\ seen' = seen \cup {"restarted"}
    /\ UNCHANGED <<uc, now>>

Tick ==
    /\ Step /\ now < MaxTime /\ uc.lifetimes # {0}
    /\ now' = now + 1
    /\ UNCHANGED <<uc, c, rd, sweep, seen>>

\* Nothing is known of the cache after the race.
Corrupted ==
    /\ ~Step
    /\ UNCHANGED vars

Next ==
    \/ MagicSet \/ MagicDel \/ MagicClear \/ MagicGet
    \/ \E r \in Reader : LazyFound(r) \/ LazyTest(r) \/ LazyDrop(r)
    \/ UdpSet \/ SweepStart \/ SweepItem \/ Restart \/ Tick \/ Corrupted

Spec == Init /\ [][Next]_vars

------------------------------------------------------------------------------
(* Properties.                                                              *)

Items0 == 0..(MaxItems - 1)

\* The cache, the clock, the readers and the sweeper keep their types.
TypeOK ==
    /\ uc \in CacheConfigs /\ now \in 1..MaxTime /\ sweep \in Items0
    /\ seen \subseteq {"raced", "restarted", "swept"}
    /\ rd \in [Reader -> [at: {"idle", "test", "drop"}, slot: Items0]]
    /\ c.items \in [Index -> [key: Key \cup {NoKey}, hash: 0..(HashSize - 1),
                              size: 0..2, first: 0..Blocks, prev: Items0, next: Items0,
                              lru_prev: Items0, lru_next: Items0,
                              expires: 0..(2 * MaxTime), abs: BOOLEAN]]
    /\ c.hashtable \in [0..(HashSize - 1) -> Items0]
    /\ c.unused \in Seq(Index) /\ c.n_items \in 0..(MaxItems - 1)
    /\ c.bitmap \subseteq Bits /\ c.pos \in 0..(Blocks - 1)
    /\ c.lru_head \in Items0 /\ c.lru_tail \in Items0
    /\ c.next_scan \in 0..(2 * MaxTime)

\* Every item is either in use or exactly once on the stack of unused items,
\* and n_items counts the ones in use.  Only two readers that delete expired
\* items at once, under the read lock, break this.
SlotsAccountedFor ==
    "raced" \in seen \/
    /\ {c.unused[i] : i \in 1..Len(c.unused)} = Index \ Used(c)
    /\ Len(c.unused) + Cardinality(Used(c)) = MaxItems - 1
    /\ c.n_items = Cardinality(Used(c))

\* A key that is stored is found by its hash chain, and stored once; the chain
\* has no other keys than those of its hash.
LookupFindsStored ==
    "raced" \in seen \/
    \A i \in Used(c) : /\ Find(c, c.items[i].key) = i
                       /\ c.items[i].prev # 0 => c.items[c.items[i].prev].next = i
                       /\ c.items[i].next # 0 => c.items[c.items[i].next].prev = i

\* Two items never share a block, and exactly the blocks of items are marked:
\* none is lost.  A restart from a store file breaks this, because the bitmap
\* is not made anew, and so do two readers that delete at once.
BlocksOverlapOnlyAfterRestart ==
    uc.bitmap /\ seen \cap {"raced", "restarted"} = {} =>
        /\ \A i, j \in Used(c) : i # j =>
              Run(c.items[i].first, c.items[i].size) \cap Run(c.items[j].first, c.items[j].size) = {}
        /\ c.bitmap = {b \in Bits : b >= Blocks} \cup
                      UNION {Run(c.items[i].first, c.items[i].size) : i \in Used(c)}

\* The scan for free blocks finds a run whenever there is one, except a run
\* that begins before the position of the scan and ends after the byte of
\* that position: then the cache is called full although the value would fit.
FullOnlyIfRunsStraddle ==
    uc.bitmap => \A n \in Sizes, b \in Bits :
        Free(c, b, n) /\ FindFreeBlocks(c, n) = None =>
            b < c.pos /\ b + n - 1 >= (c.pos \div ByteSize) * ByteSize + (IF c.pos % ByteSize > 0 THEN ByteSize ELSE 0)

\* The LRU list, from head to tail, holds the items in use, so that a full
\* cache can always make room.  The list is lost by a restart.
LruListIsComplete ==
    uc.purge_lru /\ seen \cap {"raced", "restarted"} = {} =>
        LET walk[n \in 0..MaxItems] ==
                IF n = 0 THEN c.lru_head
                ELSE IF walk[n - 1] = 0 THEN 0 ELSE c.items[walk[n - 1]].lru_next
            listed == {walk[n] : n \in 0..MaxItems} \ {0} IN
        /\ listed = Used(c)
        /\ walk[Cardinality(Used(c))] = 0
        /\ Used(c) # {} => walk[Cardinality(Used(c)) - 1] = c.lru_tail

\* The sweeper does not forget an item that expires: the next scan is not
\* after the expiry, or it is under way and has yet to reach the item.  Only
\* an expiry that another node sent is forgotten, because it does not set
\* next_scan, and sweep_on_full may put the scan off.
ExpiryIsRemembered ==
    ~uc.purge_lru /\ ~uc.lazy_expire /\ "swept" \notin seen =>
        \A i \in Used(c) :
            \/ c.items[i].expires = 0 \/ c.items[i].abs
            \/ c.next_scan # 0 /\ c.next_scan =< c.items[i].expires
            \/ sweep # 0 /\ sweep =< i

\* Items, hash chains, stack of unused items and LRU list agree with each other.
ItemsAreSound == TypeOK /\ SlotsAccountedFor /\ LookupFindsStored /\ LruListIsComplete

\* The bitmap has the blocks of the items, and its scan finds what is free.
BlocksAreSound == BlocksOverlapOnlyAfterRestart /\ FullOnlyIfRunsStraddle
==============================================================================
