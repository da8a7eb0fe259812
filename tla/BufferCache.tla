----------------------------- MODULE BufferCache -----------------------------
(***************************************************************************)
(* The shared-memory buffer cache of ngx_buffer_cache.c.                   *)
(*                                                                         *)
(* The worker processes of one nginx instance share a memory zone that     *)
(* holds an array of entries growing up from its start and a cyclic queue  *)
(* of variable-size buffers growing down from its end.  Every operation    *)
(* takes the zone's mutex, but a store copies its data, marks the entry    *)
(* ready and drops its reference after unlocking, and a fetch hands out a  *)
(* pointer into the zone that is used after unlocking.  Those windows are  *)
(* protected by a reference count that is honoured only for a few seconds  *)
(* after the last access, so that the references of killed workers do not  *)
(* pin the cache forever.                                                  *)
(*                                                                         *)
(* Addresses are byte offsets from entries_start.  An entry is named by    *)
(* its address.  The red-black tree is the set of the entries it links.    *)
(* Of the statistics only store_ok - evicted is kept.                      *)
(***************************************************************************)
EXTENDS Integers, Sequences, FiniteSets

CONSTANTS
    Procs,                  \* the worker processes
    Keys,                   \* cache keys
    Sizes,                  \* sizes of the buffers that are stored
    None,                   \* no process / no key / no entry
    EntrySize,              \* sizeof(ngx_buffer_cache_entry_t)
    BuffersEnd,             \* sh->buffers_end, fixed when the zone is created
    EntriesAllocMargin,     \* ENTRIES_ALLOC_MARGIN, in bytes
    BUFFER_ALIGNMENT,
    CACHE_LOCK_EXPIRATION,
    ENTRY_LOCK_EXPIRATION,
    MAX_EVICTIONS_PER_STORE,
    Expiration,             \* cache->expiration, 0 when entries do not expire
    MaxLag,                 \* the longest an event handler runs, in seconds
    HoldAcrossHandlers,     \* a fetched buffer is used after its handler ended
    MaxTime,                \* bound: the clock stops here
    MaxLosses,              \* bound: workers killed and references not released
    StatsReset              \* the status page zeroes the statistics

ASSUME ProcsAssumption == None \notin Procs /\ None \notin Keys
ASSUME SizesAssumption ==
    /\ Sizes \subseteq Nat
    /\ EntrySize \in Nat \ {0}
    /\ BuffersEnd \in Nat \ {0}
    /\ EntriesAllocMargin \in Nat
    /\ BUFFER_ALIGNMENT \in Nat \ {0}
ASSUME TimesAssumption ==
    /\ CACHE_LOCK_EXPIRATION \in Nat
    /\ ENTRY_LOCK_EXPIRATION \in Nat
    /\ MAX_EVICTIONS_PER_STORE \in Nat
    /\ Expiration \in Nat
    /\ MaxLag \in Nat
    /\ HoldAcrossHandlers \in BOOLEAN
    /\ MaxTime \in Nat
    /\ MaxLosses \in Nat
    /\ StatsReset \in BOOLEAN

VARIABLES
    mutex,              \* the process holding shpool->mutex, or None
    reset,              \* sh->reset
    sh_access_time,     \* sh->access_time
    rbtree,             \* the entries linked into the tree
    used_queue,         \* oldest entry first
    free_queue,
    entries_end,
    buffers_start,
    buffers_read,
    buffers_write,
    live,               \* stats.store_ok - stats.evicted
    entry,              \* the entry at each address
    pc,                 \* where each process is
    loc,                \* the local variables of each process
    clock,              \* wall-clock time in seconds
    now,                \* ngx_time() of each process: a cached clock
    losses              \* workers killed and references leaked so far

sh == <<reset, sh_access_time, rbtree, used_queue, free_queue, entries_end,
        buffers_start, buffers_read, buffers_write, live>>
time == <<clock, now, losses>>
vars == <<mutex, sh, entry, pc, loc, time>>

-----------------------------------------------------------------------------
(* Types *)

EntryAddrs == 0 .. BuffersEnd

\* ngx_buffer_cache_entry_t; data is the key whose bytes the buffer holds,
\* None until the copy that follows the allocation is complete.
Entry == [state: {"FREE", "ALLOCATED", "READY"},
          ref_count: Int,
          key: Keys \cup {None},
          start_offset: Int,
          buffer_size: Nat,
          access_time: Nat,
          write_time: Nat,
          data: Keys \cup {None}]

NoEntry == [state |-> "FREE", ref_count |-> 0, key |-> None,
            start_offset |-> 0, buffer_size |-> 0, access_time |-> 0,
            write_time |-> 0, data |-> None]

\* Program points.  The ones of StorePcs are reached with the mutex held.
FreeOldestPcs == {"free_unlink", "free_dequeue", "free_account"}
StorePcs == {"expire", "lookup", "get_free_entry", "get_free_buffer",
             "find_room", "init_entry", "commit"} \cup FreeOldestPcs
WritePcs == {"copy", "set_ready", "unref"}
Pcs == {"idle", "hold"} \cup StorePcs \cup WritePcs

\* size is the allocated size, the terminating NUL included; caller is where
\* ngx_buffer_cache_free_oldest_entry returns to.
Locals == [key: Keys \cup {None},
           size: Nat,
           entry: EntryAddrs \cup {None},
           victim: EntryAddrs \cup {None},
           buffer_start: Int,
           evictions: Nat,
           caller: {"idle", "expire", "get_free_entry", "find_room"},
           token: Nat]

NoLocals == [key |-> None, size |-> 0, entry |-> None, victim |-> None,
             buffer_start |-> 0, evictions |-> 0,
             caller |-> "idle", token |-> 0]

\* Everything a store changes only with the mutex held.
TypeOK ==
    /\ mutex \in Procs \cup {None}
    /\ reset \in BOOLEAN
    /\ sh_access_time \in Nat
    /\ rbtree \subseteq EntryAddrs
    /\ used_queue \in Seq(EntryAddrs)
    /\ free_queue \in Seq(EntryAddrs)
    /\ entries_end \in Nat
    /\ buffers_start \in Int
    /\ buffers_read \in Int
    /\ buffers_write \in Int
    /\ live \in Int
    /\ entry \in [EntryAddrs -> Entry]
    /\ pc \in [Procs -> Pcs]
    /\ loc \in [Procs -> Locals]
    /\ clock \in Nat
    /\ now \in [Procs -> Nat]
    /\ losses \in Nat

-----------------------------------------------------------------------------
(* Helpers *)

\* Where a buffer of the given size ends up when it is placed before write:
\* its start is rounded down to the alignment.
AlignedBefore(write, size) == (write - size) - ((write - size) % BUFFER_ALIGNMENT)

\* ngx_buffer_cache_rbtree_lookup
rbtree_lookup(k) == {e \in rbtree : entry[e].key = k}

\* Mutant: the lock is measured from the store instead of the last access.
EntryLocked_sinceStore(p, e) ==
    /\ entry[e].ref_count # 0
    /\ now[p] < entry[e].write_time + ENTRY_LOCK_EXPIRATION

\* A reference protects its entry for ENTRY_LOCK_EXPIRATION seconds after the
\* last access.  ref_count is unsigned: > 0 is "not zero".
EntryLocked(p, e) ==
    /\ entry[e].ref_count # 0
    /\ now[p] < entry[e].access_time + ENTRY_LOCK_EXPIRATION

\* Mutant: an expired entry is freed although it is in use.
CanFreeOldest_expired(p, expiration) ==
    /\ used_queue # <<>>
    /\ \/ expiration = 0 /\ ~EntryLocked(p, Head(used_queue))
       \/ expiration # 0 /\ now[p] >= entry[Head(used_queue)].write_time + expiration

\* The cases in which ngx_buffer_cache_free_oldest_entry does not return NULL.
CanFreeOldest(p, expiration) ==
    /\ used_queue # <<>>
    /\ ~EntryLocked(p, Head(used_queue))
    /\ expiration = 0 \/ now[p] >= entry[Head(used_queue)].write_time + expiration

Goto(p, label) == pc' = [pc EXCEPT ![p] = label]

\* Unlock the mutex and leave the operation.
UnlockAndReturn(p) ==
    /\ mutex' = None
    /\ Goto(p, "idle")
    /\ loc' = [loc EXCEPT ![p] = NoLocals]

CallFreeOldest(p, caller) ==
    /\ Goto(p, "free_unlink")
    /\ loc' = [loc EXCEPT ![p].caller = caller, ![p].victim = Head(used_queue)]

-----------------------------------------------------------------------------
(* ngx_buffer_cache_free_oldest_entry, called with the mutex held.  A kill *)
(* can separate its updates of the tree, of the queues and of the heads.   *)

free_unlink(p) ==
    /\ pc[p] = "free_unlink"
    /\ entry' = [entry EXCEPT ![loc[p].victim].state = "FREE"]
    /\ rbtree' = rbtree \ {loc[p].victim}
    /\ Goto(p, "free_dequeue")
    /\ UNCHANGED <<mutex, reset, sh_access_time, used_queue, free_queue,
                   entries_end, buffers_start, buffers_read, buffers_write,
                   live, loc, time>>

free_dequeue(p) ==
    /\ pc[p] = "free_dequeue"
    /\ used_queue' = Tail(used_queue)
    /\ Goto(p, "free_account")
    /\ UNCHANGED <<mutex, reset, sh_access_time, rbtree, free_queue,
                   entries_end, buffers_start, buffers_read, buffers_write,
                   live, entry, loc, time>>

\* Mutant: the read head moves to the freed buffer even when the queue is empty.
ReadAfterFree_noReset(p) == entry[loc[p].victim].start_offset

\* The read head after the victim left the queue.
ReadAfterFree(p) ==
    IF used_queue = <<>> THEN BuffersEnd ELSE entry[loc[p].victim].start_offset

\* Mutant: the eviction is not counted.
CountEvicted_never == UNCHANGED live

CountEvicted == live' = live - 1

\* The other fields of a free entry are dead until it is initialized again:
\* the model forgets them.
free_account(p) ==
    /\ pc[p] = "free_account"
    /\ free_queue' = Append(free_queue, loc[p].victim)
    /\ buffers_read' = ReadAfterFree(p)
    /\ buffers_write' = IF used_queue = <<>> THEN BuffersEnd ELSE buffers_write
    /\ CountEvicted
    /\ entry' = [entry EXCEPT ![loc[p].victim] = NoEntry]
    /\ Goto(p, loc[p].caller)
    /\ loc' = [loc EXCEPT ![p].caller = "idle", ![p].victim = None]
    /\ UNCHANGED <<mutex, reset, sh_access_time, rbtree, used_queue,
                   entries_end, buffers_start, time>>

-----------------------------------------------------------------------------
(* ngx_buffer_cache_store_gather *)

\* Mutant: a reset does not count the entries it forgets.
CountAllEvicted_never == UNCHANGED live

CountAllEvicted == live' = 0

\* ngx_buffer_cache_reset: forget every entry, keep the reset flag.
cache_reset ==
    /\ entry' = [e \in EntryAddrs |-> NoEntry]
    /\ entries_end' = 0
    /\ buffers_start' = BuffersEnd
    /\ buffers_read' = BuffersEnd
    /\ buffers_write' = BuffersEnd
    /\ rbtree' = {}
    /\ used_queue' = <<>>
    /\ free_queue' = <<>>
    /\ CountAllEvicted

\* Mutant: the first store after a kill resets the cache at once.
ResetAllowed_atOnce(p) == TRUE

\* After a store that was killed the cache must be reset, but not before
\* CACHE_LOCK_EXPIRATION seconds passed since the last access.
ResetAllowed(p) == now[p] >= sh_access_time + CACHE_LOCK_EXPIRATION

\* Mutant: a refused store counts as an access.
store_refused_touch(p) ==
    /\ pc[p] = "idle"
    /\ mutex = None
    /\ reset
    /\ ~ResetAllowed(p)
    /\ sh_access_time' = now[p]
    /\ UNCHANGED <<mutex, reset, rbtree, used_queue, free_queue, entries_end,
                   buffers_start, buffers_read, buffers_write, live, entry, pc,
                   loc, time>>

\* Until the reset is allowed every store returns 0.
store_refused(p) ==
    /\ pc[p] = "idle"
    /\ mutex = None
    /\ reset
    /\ ~ResetAllowed(p)
    /\ UNCHANGED vars

\* Lock, and reset the cache if a store was killed.
store_begin(p, k, size) ==
    /\ pc[p] = "idle"
    /\ mutex = None
    /\ mutex' = p
    /\ loc' = [loc EXCEPT ![p] = [NoLocals EXCEPT
                    !.key = k, !.size = size + 1,
                    !.evictions = MAX_EVICTIONS_PER_STORE]]
    /\ \/ /\ ~reset
          /\ Goto(p, IF Expiration = 0 THEN "lookup" ELSE "expire")
          /\ UNCHANGED <<sh, entry>>
       \/ /\ reset
          /\ ResetAllowed(p)
          /\ cache_reset
          /\ Goto(p, "get_free_entry")
          /\ UNCHANGED <<reset, sh_access_time>>
    /\ UNCHANGED time

\* Mutant: a store evicts as many expired entries as there are.
EvictMore_unbounded(p) == CanFreeOldest(p, Expiration)

EvictMore(p) == loc[p].evictions > 0 /\ CanFreeOldest(p, Expiration)

\* Evict expired entries.  The reset flag is still off.
store_expire(p) ==
    /\ pc[p] = "expire"
    /\ IF EvictMore(p)
       THEN /\ Goto(p, "free_unlink")
            /\ loc' = [loc EXCEPT ![p].caller = "expire",
                                   ![p].victim = Head(used_queue),
                                   ![p].evictions = @ - 1]
       ELSE /\ Goto(p, "lookup")
            /\ UNCHANGED loc
    /\ UNCHANGED <<mutex, sh, entry, time>>

\* Mutant: the reset flag is not raised before the structures change.
store_lookup_noFlag(p) ==
    /\ pc[p] = "lookup"
    /\ IF rbtree_lookup(loc[p].key) # {}
       THEN UnlockAndReturn(p)
       ELSE Goto(p, "get_free_entry") /\ UNCHANGED <<mutex, loc>>
    /\ UNCHANGED <<sh, entry, time>>

\* A key that is present, ready or not, is not stored again.
store_lookup(p) ==
    /\ pc[p] = "lookup"
    /\ \/ /\ rbtree_lookup(loc[p].key) # {}
          /\ UnlockAndReturn(p)
          /\ UNCHANGED reset
       \/ /\ rbtree_lookup(loc[p].key) = {}
          /\ reset' = TRUE
          /\ Goto(p, "get_free_entry")
          /\ UNCHANGED <<mutex, loc>>
    /\ UNCHANGED <<sh_access_time, rbtree, used_queue, free_queue, entries_end,
                   buffers_start, buffers_read, buffers_write, live,
                   entry, time>>

\* The error label: clear the flag, unlock, return 0.
StoreError(p) ==
    /\ reset' = FALSE
    /\ UnlockAndReturn(p)

EntriesCanGrow == entries_end + EntrySize < buffers_start

\* ngx_buffer_cache_get_free_entry: the head of the free queue, a new entry at
\* the end of the array, or the oldest entry (which becomes the head of the
\* empty free queue, so the caller finds it there).
get_free_entry(p) ==
    /\ pc[p] = "get_free_entry"
    /\ \/ /\ free_queue # <<>>
          /\ loc' = [loc EXCEPT ![p].entry = Head(free_queue)]
          /\ Goto(p, "get_free_buffer")
          /\ UNCHANGED <<mutex, reset, free_queue, entries_end, entry>>
       \/ /\ free_queue = <<>>
          /\ EntriesCanGrow
          /\ entries_end' = entries_end + EntrySize
          /\ entry' = [entry EXCEPT ![entries_end].state = "FREE"]
          /\ free_queue' = <<entries_end>>
          /\ loc' = [loc EXCEPT ![p].entry = entries_end]
          /\ Goto(p, "get_free_buffer")
          /\ UNCHANGED <<mutex, reset>>
       \/ /\ free_queue = <<>>
          /\ ~EntriesCanGrow
          /\ IF CanFreeOldest(p, 0)
             THEN CallFreeOldest(p, "get_free_entry") /\ UNCHANGED <<mutex, reset>>
             ELSE StoreError(p)
          /\ UNCHANGED <<free_queue, entries_end, entry>>
    /\ UNCHANGED <<sh_access_time, rbtree, used_queue, buffers_start,
                   buffers_read, buffers_write, live, time>>

\* Mutant: sizes that can never fit are not refused.
NeverFits_unchecked(size) == FALSE

\* "check whether it's possible to allocate the requested size"
NeverFits(size) ==
    entries_end + EntriesAllocMargin + size + BUFFER_ALIGNMENT > BuffersEnd

\* ngx_buffer_cache_get_free_buffer, up to its loop.
get_free_buffer(p) ==
    /\ pc[p] = "get_free_buffer"
    /\ IF NeverFits(loc[p].size)
       THEN StoreError(p)
       ELSE /\ loc' = [loc EXCEPT ![p].buffer_start =
                                AlignedBefore(buffers_write, loc[p].size)]
            /\ Goto(p, "find_room")
            /\ UNCHANGED <<mutex, reset>>
    /\ UNCHANGED <<sh_access_time, rbtree, used_queue, free_queue, entries_end,
                   buffers_start, buffers_read, buffers_write, live,
                   entry, time>>

\* Mutant: a full ring is taken for an empty one.
WriteBelowRead_orEqual == buffers_write <= buffers_read

\* Layout "S  W/////R  E": the live buffers are between the heads.
WriteBelowRead ==
    \/ buffers_write < buffers_read
    \/ buffers_write = buffers_read /\ used_queue = <<>>

\* One iteration of the loop of ngx_buffer_cache_get_free_buffer.
find_room(p) ==
    LET b == loc[p].buffer_start
    IN
    /\ pc[p] = "find_room"
    /\ \/ /\ WriteBelowRead
          /\ \/ /\ b >= buffers_start
                /\ Goto(p, "init_entry")
                /\ UNCHANGED <<buffers_start, buffers_write, loc>>
             \/ /\ b < buffers_start
                /\ b > entries_end + EntriesAllocMargin
                /\ buffers_start' = b
                /\ Goto(p, "init_entry")
                /\ UNCHANGED <<buffers_write, loc>>
             \/ /\ b < buffers_start
                /\ b <= entries_end + EntriesAllocMargin
                /\ buffers_write' = BuffersEnd
                /\ loc' = [loc EXCEPT ![p].buffer_start =
                                AlignedBefore(BuffersEnd, loc[p].size)]
                /\ UNCHANGED <<pc, buffers_start>>
          /\ UNCHANGED <<mutex, reset>>
       \/ /\ ~WriteBelowRead            \* layout "S////R  W///E"
          /\ \/ /\ b > buffers_read
                /\ Goto(p, "init_entry")
                /\ UNCHANGED <<mutex, reset, loc>>
             \/ /\ b <= buffers_read
                /\ IF CanFreeOldest(p, 0)
                   THEN CallFreeOldest(p, "find_room") /\ UNCHANGED <<mutex, reset>>
                   ELSE StoreError(p)
          /\ UNCHANGED <<buffers_start, buffers_write>>
    /\ UNCHANGED <<sh_access_time, rbtree, used_queue, free_queue, entries_end,
                   buffers_read, live, entry, time>>

\* Mutant: the entry is ready before its data is copied.
NewEntry_ready(p) ==
    [NoEntry EXCEPT !.state = "READY", !.ref_count = 1, !.key = loc[p].key,
                    !.start_offset = loc[p].buffer_start,
                    !.buffer_size = loc[p].size - 1]

\* Mutant: the store takes no reference.
NewEntry_noReference(p) ==
    [NoEntry EXCEPT !.state = "ALLOCATED", !.key = loc[p].key,
                    !.start_offset = loc[p].buffer_start,
                    !.buffer_size = loc[p].size - 1]

\* The entry of a store that found room for its buffer.
NewEntry(p) ==
    [state |-> "ALLOCATED", ref_count |-> 1, key |-> loc[p].key,
     start_offset |-> loc[p].buffer_start, buffer_size |-> loc[p].size - 1,
     access_time |-> 0, write_time |-> 0, data |-> None]

\* Initialize the entry, move the write head, queue the entry as used.
store_init_entry(p) ==
    /\ pc[p] = "init_entry"
    /\ entry' = [entry EXCEPT ![loc[p].entry] = NewEntry(p)]
    /\ buffers_write' = loc[p].buffer_start
    /\ free_queue' = Tail(free_queue)
    /\ used_queue' = Append(used_queue, loc[p].entry)
    /\ Goto(p, "commit")
    /\ UNCHANGED <<mutex, reset, sh_access_time, rbtree, entries_end,
                   buffers_start, buffers_read, live, loc, time>>

\* Link the entry into the tree, take its times, clear the flag and unlock.
store_commit(p) ==
    /\ pc[p] = "commit"
    /\ rbtree' = rbtree \cup {loc[p].entry}
    /\ live' = live + 1
    /\ sh_access_time' = now[p]
    /\ entry' = [entry EXCEPT ![loc[p].entry].access_time = now[p],
                              ![loc[p].entry].write_time = now[p]]
    /\ reset' = FALSE
    /\ mutex' = None
    /\ Goto(p, "copy")
    /\ UNCHANGED <<used_queue, free_queue, entries_end, buffers_start,
                   buffers_read, buffers_write, loc, time>>

\* The bytes [a, a + n) and the buffer of entry e have an address in common.
Overlaps(e, a, n) ==
    /\ entry[e].start_offset < a + n
    /\ a < entry[e].start_offset + entry[e].buffer_size + 1

\* The copy and the two updates that follow it do not hold the mutex.  The copy
\* overwrites every buffer that shares an address with its target.
store_copy(p) ==
    /\ pc[p] = "copy"
    /\ entry' = [e \in EntryAddrs |->
                    IF Overlaps(e, loc[p].buffer_start, loc[p].size)
                    THEN [entry[e] EXCEPT !.data =
                            IF entry[e].start_offset = loc[p].buffer_start
                            THEN loc[p].key ELSE None]
                    ELSE entry[e]]
    /\ Goto(p, "set_ready")
    /\ UNCHANGED <<mutex, sh, loc, time>>

store_set_ready(p) ==
    /\ pc[p] = "set_ready"
    /\ entry' = [entry EXCEPT ![loc[p].entry].state = "READY"]
    /\ Goto(p, "unref")
    /\ UNCHANGED <<mutex, sh, loc, time>>

store_unref(p) ==
    /\ pc[p] = "unref"
    /\ entry' = [entry EXCEPT ![loc[p].entry].ref_count = @ - 1]
    /\ Goto(p, "idle")
    /\ loc' = [loc EXCEPT ![p] = NoLocals]
    /\ UNCHANGED <<mutex, sh, time>>

-----------------------------------------------------------------------------
(* The other operations *)

\* ngx_buffer_cache_fetch, on a hit: the caller gets a pointer into the zone
\* and the write time as a token.  A miss changes no state kept here.
fetch(p, k) ==
    /\ pc[p] = "idle"
    /\ mutex = None
    /\ ~reset
    /\ \E e \in rbtree_lookup(k) :
        /\ entry[e].state = "READY"
        /\ Expiration = 0 \/ now[p] < entry[e].write_time + Expiration
        /\ entry' = [entry EXCEPT ![e].access_time = now[p],
                                  ![e].ref_count = @ + 1]
        /\ loc' = [loc EXCEPT ![p] = [NoLocals EXCEPT
                        !.key = k, !.entry = e,
                        !.buffer_start = entry[e].start_offset,
                        !.size = entry[e].buffer_size + 1,
                        !.token = entry[e].write_time]]
    /\ sh_access_time' = now[p]
    /\ Goto(p, "hold")
    /\ UNCHANGED <<mutex, reset, rbtree, used_queue, free_queue, entries_end,
                   buffers_start, buffers_read, buffers_write, live, time>>

\* ngx_buffer_cache_release: find the entry again by its key and drop the
\* reference if the token shows that it is the entry that was fetched.
release(p) ==
    /\ pc[p] = "hold"
    /\ mutex = None
    /\ LET match == {e \in rbtree_lookup(loc[p].key) :
                        /\ ~reset
                        /\ entry[e].state = "READY"
                        /\ entry[e].write_time = loc[p].token}
       IN entry' = [e \in EntryAddrs |->
                      IF e \in match
                      THEN [entry[e] EXCEPT !.ref_count = @ - 1] ELSE entry[e]]
    /\ Goto(p, "idle")
    /\ loc' = [loc EXCEPT ![p] = NoLocals]
    /\ UNCHANGED <<mutex, sh, time>>

\* The caller stops using the buffer without releasing it: the error returns
\* of ngx_buffer_cache_fetch_multipart_perf and of
\* ngx_buffer_cache_fetch_copy_perf, and progressive requests, never release.
abandon(p) ==
    /\ losses < MaxLosses
    /\ pc[p] = "hold"
    /\ losses' = losses + 1
    /\ Goto(p, "idle")
    /\ loc' = [loc EXCEPT ![p] = NoLocals]
    /\ UNCHANGED <<mutex, sh, entry, clock, now>>

\* ngx_buffer_cache_reset_stats
reset_stats ==
    /\ StatsReset
    /\ mutex = None
    /\ live' = 0
    /\ UNCHANGED <<mutex, reset, sh_access_time, rbtree, used_queue, free_queue,
                   entries_end, buffers_start, buffers_read, buffers_write,
                   entry, pc, loc, time>>

-----------------------------------------------------------------------------
(* nginx and the machine *)

\* A worker is killed and respawned.  The master force-unlocks the mutex of a
\* dead worker.
crash(p) ==
    /\ losses < MaxLosses
    /\ pc[p] # "idle"
    /\ losses' = losses + 1
    /\ mutex' = IF mutex = p THEN None ELSE mutex
    /\ Goto(p, "idle")
    /\ loc' = [loc EXCEPT ![p] = NoLocals]
    /\ UNCHANGED <<sh, entry, clock, now>>

\* ngx_time() is refreshed when a worker's event loop calls its next handler,
\* never inside an operation.
refresh_time(p) ==
    /\ pc[p] = "idle" \/ (HoldAcrossHandlers /\ pc[p] = "hold")
    /\ now[p] # clock
    /\ now' = [now EXCEPT ![p] = clock]
    /\ UNCHANGED <<mutex, sh, entry, pc, loc, clock, losses>>

\* A second passes; no handler runs for more than MaxLag seconds.
tick ==
    /\ clock < MaxTime
    /\ \A p \in Procs : clock + 1 - now[p] <= MaxLag
    /\ clock' = clock + 1
    /\ UNCHANGED <<mutex, sh, entry, pc, loc, now, losses>>

-----------------------------------------------------------------------------
(* Specification *)

Init ==
    /\ mutex = None
    /\ reset = FALSE
    /\ sh_access_time = 0
    /\ rbtree = {}
    /\ used_queue = <<>>
    /\ free_queue = <<>>
    /\ entries_end = 0
    /\ buffers_start = BuffersEnd
    /\ buffers_read = BuffersEnd
    /\ buffers_write = BuffersEnd
    /\ live = 0
    /\ entry = [e \in EntryAddrs |-> NoEntry]
    /\ pc = [p \in Procs |-> "idle"]
    /\ loc = [p \in Procs |-> NoLocals]
    /\ clock = 0
    /\ now = [p \in Procs |-> 0]
    /\ losses = 0

\* The steps of a store after it took the mutex.
store_step(p) ==
    \/ free_unlink(p) \/ free_dequeue(p) \/ free_account(p)
    \/ store_expire(p) \/ store_lookup(p) \/ get_free_entry(p)
    \/ get_free_buffer(p) \/ find_room(p)
    \/ store_init_entry(p) \/ store_commit(p)
    \/ store_copy(p) \/ store_set_ready(p) \/ store_unref(p)

Next ==
    \/ \E p \in Procs :
        \/ \E k \in Keys, size \in Sizes : store_begin(p, k, size)
        \/ store_refused(p)
        \/ store_step(p)
        \/ \E k \in Keys : fetch(p, k)
        \/ release(p)
        \/ abandon(p)
        \/ crash(p)
        \/ refresh_time(p)
    \/ reset_stats
    \/ tick

Spec == Init /\ [][Next]_vars

\* A worker that runs an operation finishes it (the operation does not block
\* while it holds the mutex, and a fetched buffer is released by the handler
\* that fetched it), time passes, event loops turn, and requests that miss the
\* cache keep coming.
Fairness ==
    /\ \A p \in Procs :
        /\ WF_vars(store_step(p))
        /\ WF_vars(release(p))
        /\ WF_vars(refresh_time(p))
    /\ WF_vars(tick)
    /\ WF_vars(\E p \in Procs, k \in Keys, size \in Sizes : store_begin(p, k, size))

FairSpec == Spec /\ Fairness

-----------------------------------------------------------------------------
(* Properties *)

Elems(queue) == {queue[i] : i \in DOMAIN queue}
BufferEnd(e) == entry[e].start_offset + entry[e].buffer_size + 1

\* The processes that use the buffer of entry e: those that still have to
\* complete a store into it and those that fetched it.
Users(e) == {p \in Procs : pc[p] \in WritePcs \cup {"hold"} /\ loc[p].entry = e}

\* The buffers of the used entries lie between buffers_start and buffers_end,
\* above the entries array, and no two of them share a byte, whatever sequence
\* of sizes get_free_buffer and free_oldest_entry were given.
BuffersDisjoint ==
    /\ entries_end <= buffers_start
    /\ \A i \in DOMAIN used_queue :
        /\ buffers_start <= entry[used_queue[i]].start_offset
        /\ BufferEnd(used_queue[i]) <= BuffersEnd
    /\ \A i, j \in DOMAIN used_queue :
        i < j => \/ BufferEnd(used_queue[i]) <= entry[used_queue[j]].start_offset
                 \/ BufferEnd(used_queue[j]) <= entry[used_queue[i]].start_offset

\* Whenever the mutex is free and the reset flag is off, the tree and the used
\* queue hold the same entries, every entry of the array is in exactly one
\* queue, once, and no key is in the tree twice: the flag is on whenever a
\* kill could have left the structures half updated.  The number of items that
\* the statistics show (store_ok - evicted, what test/buffer_cache/main.c
\* compares with the items it can fetch) is the number of used entries, kills
\* and resets included; zeroing the statistics can only make it smaller.
StructuresAgree ==
    mutex = None /\ ~reset =>
        /\ rbtree = Elems(used_queue)
        /\ Cardinality(rbtree) = Len(used_queue)
        /\ Elems(used_queue) \cap Elems(free_queue) = {}
        /\ Cardinality(Elems(free_queue)) = Len(free_queue)
        /\ (Len(used_queue) + Len(free_queue)) * EntrySize = entries_end
        /\ \A d, e \in rbtree : entry[d].key = entry[e].key => d = e
        /\ live <= Len(used_queue)
        /\ ~StatsReset => live = Len(used_queue)

\* An entry that a fetch may return holds the complete bytes of its key: no
\* store marks ready, or writes into, a buffer that is not its own any more.
ReadyIsComplete ==
    \A e \in rbtree : entry[e].state = "READY" => entry[e].data = entry[e].key

\* What a fetch returns is complete, and while the caller uses it the entry is
\* not freed, moved or overwritten ("prevent it from being freed while the
\* caller uses the buffer", ngx_buffer_cache_fetch).
HeldBufferIntact ==
    /\ ReadyIsComplete
    /\ \A p \in Procs : pc[p] = "hold" =>
        /\ loc[p].entry \in rbtree
        /\ entry[loc[p].entry].key = loc[p].key
        /\ entry[loc[p].entry].start_offset = loc[p].buffer_start
        /\ entry[loc[p].entry].data = loc[p].key

\* The reference count of an entry is never less than the number of processes
\* that use its buffer: no late or repeated decrement takes away the reference
\* of another process.
ReferencesCounted ==
    \A e \in rbtree : entry[e].ref_count >= Cardinality(Users(e))

\* A store that fits the zone gives up for one reason only: the oldest entry is
\* locked.  In every other case the loop of get_free_buffer evicts until it finds
\* room, whatever positions the two heads are in.
RoomUnlessLocked ==
    [][\A p \in Procs :
        /\ pc[p] \in {"get_free_entry", "find_room"}
        /\ pc'[p] = "idle"
        /\ losses' = losses
        => used_queue # <<>> /\ EntryLocked(p, Head(used_queue))]_vars

\* Every store leaves the critical section: the loop of get_free_buffer ends
\* ("for (;;)", with the mutex held).
StoreTerminates ==
    \A p \in Procs : pc[p] \in StorePcs ~> pc[p] \notin StorePcs

\* The cache becomes usable again after a store was killed: the stores that are
\* refused meanwhile do not postpone the reset.
ResetHeals ==
    reset /\ mutex = None /\ clock + CACHE_LOCK_EXPIRATION <= MaxTime ~> ~reset

\* The cache implements LossyCache: its keys are those of the ready entries of
\* the tree, and a process that fetched a key reads the bytes of the entry the
\* pointer leads to.
Abstract == INSTANCE LossyCache WITH
    avail <- {entry[e].key : e \in {x \in rbtree : entry[x].state = "READY"}},
    held <- [p \in Procs |->
                IF pc[p] = "hold" THEN <<loc[p].key, entry[loc[p].entry].data>> ELSE <<>>]

\* No interleaving, eviction, reset or kill makes the cache drop or change what a
\* caller is reading, or hand out bytes of another key.
ImplementsLossyCache == Abstract!Spec
=============================================================================
