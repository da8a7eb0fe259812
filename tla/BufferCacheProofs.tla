-------------------------- MODULE BufferCacheProofs ---------------------------
(***************************************************************************)
(* Proofs about BufferCache for every number of workers, every set of keys *)
(* and sizes and every zone: the state is well typed, and the buffers of   *)
(* the used entries never share a byte, kills included.                    *)
(*                                                                         *)
(* BuffersDisjoint is not inductive: it says nothing of the heads.  The    *)
(* inductive invariant describes both layouts of the cyclic queue at once. *)
(* Good says on which side of the heads a buffer may lie, Older relates    *)
(* the buffers of two entries of which the first was stored earlier.       *)
(***************************************************************************)
EXTENDS BufferCache, TLAPS

Start(e) == entry[e].start_offset

\* Between the heads, or, once the write head wrapped, on either side of the
\* gap [buffers_read, buffers_write).
Good(e) ==
    /\ buffers_start <= Start(e)
    /\ BufferEnd(e) <= BuffersEnd
    /\ \/ BufferEnd(e) <= buffers_read
       \/ buffers_read <= buffers_write /\ buffers_write <= Start(e)
    /\ buffers_write < buffers_read => buffers_write <= Start(e)

\* d was stored before e: the ring grows downwards, and the buffers above the
\* write head are the newer ones once it wrapped.
Older(d, e) ==
    \/ /\ BufferEnd(e) <= Start(d)
       /\ buffers_write <= Start(d) => buffers_write <= Start(e)
    \/ /\ buffers_read <= buffers_write
       /\ BufferEnd(d) <= buffers_read
       /\ buffers_write <= Start(e)

\* The critical section has one occupant.
StoreOwner == \A p \in Procs : pc[p] \in StorePcs => mutex = p

Allocated(e) == e + EntrySize <= entries_end

\* Every entry is in at most one place of one queue.
QueuesOK ==
    /\ \A i \in DOMAIN used_queue : Allocated(used_queue[i])
    /\ \A i \in DOMAIN free_queue : Allocated(free_queue[i])
    /\ \A i, j \in DOMAIN used_queue : used_queue[i] = used_queue[j] => i = j
    /\ \A i, j \in DOMAIN free_queue : free_queue[i] = free_queue[j] => i = j
    /\ \A i \in DOMAIN used_queue, j \in DOMAIN free_queue :
            used_queue[i] # free_queue[j]

HeadsOK ==
    /\ entries_end <= buffers_start
    /\ buffers_start <= buffers_read
    /\ buffers_read <= BuffersEnd
    /\ buffers_write <= BuffersEnd

RingOK ==
    /\ \A i \in DOMAIN used_queue : Good(used_queue[i])
    /\ \A i, j \in DOMAIN used_queue : i < j => Older(used_queue[i], used_queue[j])

\* The entry that free_oldest_entry has taken off the used queue still bounds the
\* ring until the read head moves.
VictimOK(v) ==
    /\ v \in EntryAddrs
    /\ Allocated(v)
    /\ \A i \in DOMAIN used_queue : used_queue[i] # v
    /\ \A i \in DOMAIN free_queue : free_queue[i] # v
    /\ Good(v)
    /\ \A i \in DOMAIN used_queue : Older(v, used_queue[i])

\* The store of p has its entry, and looks for a buffer.
AllocatingBuffer(p) ==
    \/ pc[p] \in {"find_room", "init_entry"}
    \/ pc[p] \in FreeOldestPcs /\ loc[p].caller = "find_room"

HasEntry(p) == AllocatingBuffer(p) \/ pc[p] = "get_free_buffer"

\* What the locals of a process mean where it is.
LocalsOK(p) ==
    /\ pc[p] \in StorePcs => loc[p].size >= 1
    /\ pc[p] \in FreeOldestPcs =>
            /\ loc[p].victim \in EntryAddrs
            /\ loc[p].caller \in {"expire", "get_free_entry", "find_room"}
    /\ pc[p] \in {"free_unlink", "free_dequeue"} =>
            used_queue # <<>> /\ loc[p].victim = Head(used_queue)
    /\ pc[p] = "free_account" => VictimOK(loc[p].victim)
    /\ HasEntry(p) => free_queue # <<>> /\ loc[p].entry = Head(free_queue)
    /\ AllocatingBuffer(p) => loc[p].buffer_start + loc[p].size <= buffers_write
    /\ pc[p] = "init_entry" =>
            /\ buffers_start <= loc[p].buffer_start
            /\ WriteBelowRead \/ loc[p].buffer_start > buffers_read
    /\ pc[p] \in {"commit", "hold"} \cup WritePcs => loc[p].entry \in EntryAddrs

IInv ==
    /\ TypeOK
    /\ StoreOwner
    /\ QueuesOK
    /\ HeadsOK
    /\ RingOK
    /\ \A p \in Procs : LocalsOK(p)

-----------------------------------------------------------------------------
(* Lemmas about the operators *)

\* Rounding a buffer down to the alignment never moves it up.
LEMMA AlignedBeforeBound ==
    ASSUME NEW w \in Int, NEW n \in Int
    PROVE  /\ AlignedBefore(w, n) \in Int
           /\ AlignedBefore(w, n) + n <= w
<1> DEFINE m == (w - n) % BUFFER_ALIGNMENT
<1>1. m \in Nat
    BY SizesAssumption
<1> HIDE DEF m
<1>2. AlignedBefore(w, n) = (w - n) - m
    BY DEF AlignedBefore, m
<1> QED
    BY <1>1, <1>2

\* What Tail leaves of a queue.
LEMMA TailFacts ==
    ASSUME NEW S, NEW q \in Seq(S), q # <<>>
    PROVE  /\ Head(q) \in S
           /\ Head(q) = q[1]
           /\ 1 \in DOMAIN q
           /\ Tail(q) \in Seq(S)
           /\ Len(Tail(q)) = Len(q) - 1
           /\ \A i \in DOMAIN Tail(q) : i + 1 \in DOMAIN q /\ Tail(q)[i] = q[i + 1]
    OBVIOUS

\* What Append adds to a queue.
LEMMA AppendFacts ==
    ASSUME NEW S, NEW q \in Seq(S), NEW e \in S
    PROVE  /\ Append(q, e) \in Seq(S)
           /\ Append(q, e) # <<>>
           /\ DOMAIN Append(q, e) = 1 .. Len(q) + 1
           /\ DOMAIN q = 1 .. Len(q)
           /\ \A i \in DOMAIN q : Append(q, e)[i] = q[i]
           /\ Append(q, e)[Len(q) + 1] = e
           /\ q # <<>> => Head(Append(q, e)) = Head(q)
    BY SMTT(30)

-----------------------------------------------------------------------------
(* Frames *)

\* What a step that moves no entry, head or buffer leaves alone.
SameRing ==
    /\ UNCHANGED <<used_queue, free_queue, entries_end, buffers_start,
                   buffers_read, buffers_write>>
    /\ \A e \in EntryAddrs : /\ entry'[e].start_offset = entry[e].start_offset
                             /\ entry'[e].buffer_size = entry[e].buffer_size

\* Such a step keeps every part of the invariant that is about the ring.
LEMMA RingFrame ==
    ASSUME TypeOK, QueuesOK, HeadsOK, RingOK, SameRing
    PROVE  /\ QueuesOK' /\ HeadsOK' /\ RingOK'
           /\ \A v : VictimOK(v) => VictimOK(v)'
<1>1. \A e \in EntryAddrs : Start(e)' = Start(e) /\ BufferEnd(e)' = BufferEnd(e)
    BY DEF SameRing, Start, BufferEnd
<1>2. /\ \A i \in DOMAIN used_queue : used_queue[i] \in EntryAddrs
      /\ used_queue' = used_queue /\ free_queue' = free_queue
    BY DEF TypeOK, SameRing
<1>3. \A e \in EntryAddrs : Good(e) => Good(e)'
    BY <1>1 DEF Good, SameRing
<1>4. \A d, e \in EntryAddrs : Older(d, e) => Older(d, e)'
    BY <1>1 DEF Older, SameRing
<1>5. QueuesOK'
    BY <1>2 DEF QueuesOK, SameRing, Allocated
<1>6. HeadsOK'
    BY DEF HeadsOK, SameRing
<1>7. RingOK'
    BY <1>2, <1>3, <1>4 DEF RingOK
<1>8. ASSUME NEW v, VictimOK(v) PROVE VictimOK(v)'
    <2>1. Allocated(v)'
        BY <1>8 DEF VictimOK, Allocated, SameRing
    <2> QED
        BY <1>2, <1>3, <1>4, <1>8, <2>1 DEF VictimOK
<1> QED
    BY <1>5, <1>6, <1>7, <1>8

\* The locals of a process that does not move keep their meaning then.
LEMMA LocalsFrame ==
    ASSUME TypeOK, QueuesOK, HeadsOK, RingOK, SameRing,
           NEW q \in Procs, LocalsOK(q), pc'[q] = pc[q], loc'[q] = loc[q]
    PROVE  LocalsOK(q)'
<1>1. \A v : VictimOK(v) => VictimOK(v)'
    BY RingFrame
<1>2. WriteBelowRead' = WriteBelowRead
    BY DEF WriteBelowRead, SameRing
<1> QED
    BY <1>1, <1>2 DEF LocalsOK, SameRing, HasEntry, AllocatingBuffer

\* While p is the one that may change the ring, the locals of the others keep
\* their meaning whatever p does.
LEMMA OtherLocals ==
    ASSUME StoreOwner, NEW p \in Procs, mutex = p \/ mutex = None,
           NEW q \in Procs, q # p, LocalsOK(q), pc'[q] = pc[q], loc'[q] = loc[q]
    PROVE  LocalsOK(q)'
<1>1. pc[q] \notin StorePcs
    BY ProcsAssumption DEF StoreOwner
<1> QED
    BY <1>1 DEF LocalsOK, StorePcs, FreeOldestPcs, HasEntry, AllocatingBuffer

\* The blank records have their types.
LEMMA BlankRecords == NoEntry \in Entry /\ NoLocals \in Locals
<1>1. NoEntry \in Entry
    BY DEF NoEntry, Entry
<1>2. NoLocals \in Locals
    BY DEF NoLocals, Locals
<1> QED
    BY <1>1, <1>2

\* The first state.
LEMMA InitIInv == Init => IInv
<1> SUFFICES ASSUME Init PROVE IInv
    OBVIOUS
<1>1. TypeOK
    <2>1. entry \in [EntryAddrs -> Entry] /\ loc \in [Procs -> Locals]
        BY BlankRecords DEF Init
    <2>2. pc \in [Procs -> Pcs] /\ now \in [Procs -> Nat]
        BY DEF Init, Pcs
    <2>3. used_queue \in Seq(EntryAddrs) /\ free_queue \in Seq(EntryAddrs)
        BY DEF Init
    <2>4. reset \in BOOLEAN /\ mutex \in Procs \cup {None} /\ rbtree \subseteq EntryAddrs
        BY DEF Init
    <2>5. /\ entries_end \in Nat /\ buffers_start \in Int /\ buffers_read \in Int
          /\ buffers_write \in Int /\ live \in Int /\ clock \in Nat /\ losses \in Nat
          /\ sh_access_time \in Nat
        BY SizesAssumption DEF Init
    <2> QED
        BY <2>1, <2>2, <2>3, <2>4, <2>5 DEF TypeOK
<1>2. StoreOwner /\ \A p \in Procs : LocalsOK(p)
    BY DEF Init, StoreOwner, LocalsOK, StorePcs, FreeOldestPcs, WritePcs,
           HasEntry, AllocatingBuffer
<1>3. QueuesOK /\ RingOK
    BY DEF Init, QueuesOK, RingOK
<1>4. HeadsOK
    BY SizesAssumption DEF Init, HeadsOK
<1> QED
    BY <1>1, <1>2, <1>3, <1>4 DEF IInv

-----------------------------------------------------------------------------
(* The steps that leave the ring alone *)

\* Without the mutex: the copy and what follows it.
LEMMA WriteSteps ==
    ASSUME IInv, NEW p \in Procs,
           store_copy(p) \/ store_set_ready(p) \/ store_unref(p)
    PROVE  IInv'
<1> USE DEF IInv
<1>0. loc[p].entry \in EntryAddrs /\ pc[p] \in WritePcs /\ pc[p] \notin StorePcs
    BY DEF LocalsOK, store_copy, store_set_ready, store_unref, WritePcs,
           StorePcs, FreeOldestPcs
<1>1. entry' \in [EntryAddrs -> Entry]
    <2>1. CASE store_copy(p)
        <3>1. loc[p].key \in Keys \cup {None}
            BY DEF TypeOK, Locals
        <3>2. \A e \in EntryAddrs : \A k \in Keys \cup {None} :
                [entry[e] EXCEPT !.data = k] \in Entry
            BY DEF TypeOK, Entry
        <3> QED
            BY <2>1, <3>1, <3>2 DEF store_copy, TypeOK
    <2>2. CASE store_set_ready(p)
        <3>1. \A e \in EntryAddrs : [entry[e] EXCEPT !.state = "READY"] \in Entry
            BY DEF TypeOK, Entry
        <3> QED
            BY <2>2, <1>0, <3>1 DEF store_set_ready, TypeOK
    <2>3. CASE store_unref(p)
        <3>1. /\ entry[loc[p].entry] \in Entry
              /\ entry[loc[p].entry].ref_count - 1 \in Int
            BY <1>0 DEF TypeOK, Entry
        <3>2. [entry[loc[p].entry] EXCEPT !.ref_count = @ - 1] \in Entry
            BY <3>1 DEF Entry
        <3> QED
            BY <2>3, <1>0, <3>2 DEF store_unref, TypeOK
    <2> QED
        BY <2>1, <2>2, <2>3
<1>2. \A e \in EntryAddrs : /\ entry'[e].start_offset = entry[e].start_offset
                            /\ entry'[e].buffer_size = entry[e].buffer_size
    <2>0. \A e \in EntryAddrs : entry[e] \in Entry
        BY DEF TypeOK
    <2>1. CASE store_copy(p)
        BY <2>0, <2>1 DEF store_copy, Entry
    <2>2. CASE store_set_ready(p)
        BY <2>0, <2>2, <1>0 DEF store_set_ready, TypeOK, Entry
    <2>3. CASE store_unref(p)
        BY <2>0, <2>3, <1>0 DEF store_unref, TypeOK, Entry
    <2> QED
        BY <2>1, <2>2, <2>3
<1>3. UNCHANGED <<mutex, sh, time>>
    BY DEF store_copy, store_set_ready, store_unref
<1>4. pc' \in [Procs -> Pcs] /\ loc' \in [Procs -> Locals]
    BY BlankRecords DEF TypeOK, Pcs, WritePcs, store_copy, store_set_ready,
           store_unref, Goto
<1>5. TypeOK'
    BY <1>1, <1>3, <1>4 DEF TypeOK, sh, time
<1>6. SameRing
    BY <1>2, <1>3 DEF SameRing, sh
<1>7. /\ pc'[p] \in {"set_ready", "unref", "idle"}
      /\ pc'[p] # "idle" => loc'[p].entry = loc[p].entry
      /\ \A q \in Procs : q # p => pc'[q] = pc[q] /\ loc'[q] = loc[q]
    BY DEF TypeOK, store_copy, store_set_ready, store_unref, Goto
<1>8. StoreOwner'
    BY <1>3, <1>7 DEF StoreOwner, StorePcs, FreeOldestPcs
<1>9. ASSUME NEW q \in Procs PROVE LocalsOK(q)'
    <2>1. CASE q = p
        BY <2>1, <1>0, <1>7 DEF LocalsOK, StorePcs, FreeOldestPcs, WritePcs,
               HasEntry, AllocatingBuffer
    <2>2. CASE q # p
        BY <2>2, <1>6, <1>7, LocalsFrame
    <2> QED
        BY <2>1, <2>2
<1> QED
    BY <1>5, <1>6, <1>8, <1>9, RingFrame

\* A process that goes back to idle and changes nothing of the cache.
LEMMA IdleSteps ==
    ASSUME IInv, NEW p \in Procs, abandon(p) \/ crash(p)
    PROVE  IInv'
<1> USE DEF IInv
<1>1. /\ UNCHANGED <<sh, entry, clock, now>>
      /\ pc' = [pc EXCEPT ![p] = "idle"]
      /\ loc' = [loc EXCEPT ![p] = NoLocals]
      /\ losses' = losses + 1
    BY DEF abandon, crash, Goto
<1>2. mutex' \in Procs \cup {None} /\ (mutex # p => mutex' = mutex)
    BY DEF TypeOK, abandon, crash
<1>3. TypeOK'
    BY <1>1, <1>2, BlankRecords DEF TypeOK, sh, Pcs
<1>4. SameRing
    BY <1>1 DEF SameRing, sh
<1>5. /\ pc'[p] = "idle"
      /\ \A q \in Procs : q # p => pc'[q] = pc[q] /\ loc'[q] = loc[q]
    BY <1>1 DEF TypeOK
<1>6. StoreOwner'
    BY <1>2, <1>5 DEF StoreOwner, StorePcs, FreeOldestPcs
<1>7. ASSUME NEW q \in Procs PROVE LocalsOK(q)'
    <2>1. CASE q = p
        BY <2>1, <1>5 DEF LocalsOK, StorePcs, FreeOldestPcs, WritePcs,
               HasEntry, AllocatingBuffer
    <2>2. CASE q # p
        BY <2>2, <1>4, <1>5, LocalsFrame
    <2> QED
        BY <2>1, <2>2
<1> QED
    BY <1>3, <1>4, <1>6, <1>7, RingFrame

\* Time and statistics.
LEMMA QuietSteps ==
    ASSUME IInv,
           \/ tick \/ reset_stats \/ UNCHANGED vars
           \/ \E p \in Procs : refresh_time(p) \/ store_refused(p)
    PROVE  IInv'
<1> USE DEF IInv
<1>1. /\ UNCHANGED <<mutex, reset, sh_access_time, rbtree, used_queue, free_queue,
                     entries_end, buffers_start, buffers_read, buffers_write,
                     entry, pc, loc, losses>>
      /\ live' \in Int /\ clock' \in Nat /\ now' \in [Procs -> Nat]
    BY SMTT(30) DEF TypeOK, tick, reset_stats, refresh_time, store_refused, vars, sh, time
<1>2. TypeOK'
    BY <1>1 DEF TypeOK
<1>3. SameRing
    BY <1>1 DEF SameRing
<1>4. StoreOwner'
    BY <1>1 DEF StoreOwner
<1>5. \A q \in Procs : LocalsOK(q)'
    BY <1>1, <1>3, LocalsFrame
<1> QED
    BY <1>2, <1>3, <1>4, <1>5, RingFrame

\* A fetch or a release changes reference counts and access times only.
LEMMA FetchSteps ==
    ASSUME IInv, NEW p \in Procs,
           (\E k \in Keys : fetch(p, k)) \/ release(p)
    PROVE  IInv'
<1> USE DEF IInv
<1>0. \A e \in EntryAddrs : entry[e] \in Entry
    BY DEF TypeOK
<1>1. /\ entry' \in [EntryAddrs -> Entry]
      /\ \A e \in EntryAddrs : /\ entry'[e].start_offset = entry[e].start_offset
                               /\ entry'[e].buffer_size = entry[e].buffer_size
      /\ UNCHANGED <<mutex, reset, rbtree, used_queue, free_queue, entries_end,
                     buffers_start, buffers_read, buffers_write, live, time>>
      /\ sh_access_time' \in Nat
      /\ pc' \in [Procs -> Pcs]
      /\ loc' \in [Procs -> Locals]
      /\ pc'[p] \in {"idle", "hold"}
      /\ pc'[p] = "hold" => loc'[p].entry \in EntryAddrs
      /\ \A q \in Procs : q # p => pc'[q] = pc[q] /\ loc'[q] = loc[q]
    <2>1. ASSUME NEW k \in Keys, fetch(p, k) PROVE <1>1!:
        <3>1. PICK e \in rbtree_lookup(k) :
                /\ entry' = [entry EXCEPT ![e].access_time = now[p],
                                          ![e].ref_count = @ + 1]
                /\ loc' = [loc EXCEPT ![p] = [NoLocals EXCEPT
                                !.key = k, !.entry = e,
                                !.buffer_start = entry[e].start_offset,
                                !.size = entry[e].buffer_size + 1,
                                !.token = entry[e].write_time]]
            BY <2>1 DEF fetch
        <3>2. e \in EntryAddrs
            BY DEF TypeOK, rbtree_lookup
        <3>3. now[p] \in Nat /\ entry[e].ref_count + 1 \in Int
            BY <1>0, <3>2 DEF TypeOK, Entry
        <3>4. [entry[e] EXCEPT !.access_time = now[p], !.ref_count = @ + 1] \in Entry
            BY <1>0, <3>2, <3>3 DEF Entry
        <3>5. entry' = [entry EXCEPT ![e] =
                    [entry[e] EXCEPT !.access_time = now[p], !.ref_count = @ + 1]]
            BY <3>1, <3>2 DEF TypeOK
        <3>6. /\ entry' \in [EntryAddrs -> Entry]
              /\ \A x \in EntryAddrs : /\ entry'[x].start_offset = entry[x].start_offset
                                       /\ entry'[x].buffer_size = entry[x].buffer_size
            BY <1>0, <3>2, <3>4, <3>5 DEF TypeOK, Entry
        <3>7. [NoLocals EXCEPT !.key = k, !.entry = e,
                    !.buffer_start = entry[e].start_offset,
                    !.size = entry[e].buffer_size + 1,
                    !.token = entry[e].write_time] \in Locals
            <4>1. /\ entry[e].start_offset \in Int
                  /\ entry[e].buffer_size + 1 \in Nat
                  /\ entry[e].write_time \in Nat
                BY <1>0, <3>2 DEF Entry
            <4>2. \A a \in Int, n, t \in Nat :
                    [NoLocals EXCEPT !.key = k, !.entry = e, !.buffer_start = a,
                                     !.size = n, !.token = t] \in Locals
                BY <3>2 DEF NoLocals, Locals
            <4> QED
                BY <4>1, <4>2
        <3>8. /\ loc' \in [Procs -> Locals]
              /\ loc'[p].entry \in EntryAddrs
              /\ \A q \in Procs : q # p => loc'[q] = loc[q]
            BY <3>1, <3>2, <3>7 DEF TypeOK, NoLocals
        <3>9. /\ pc' \in [Procs -> Pcs]
              /\ pc'[p] = "hold"
              /\ \A q \in Procs : q # p => pc'[q] = pc[q]
            BY <2>1 DEF fetch, Goto, TypeOK, Pcs
        <3> QED
            BY <2>1, <3>3, <3>6, <3>8, <3>9 DEF fetch
    <2>2. CASE release(p)
        <3>1. \A e \in EntryAddrs : [entry[e] EXCEPT !.ref_count = @ - 1] \in Entry
            BY <1>0 DEF Entry
        <3>2. /\ entry' \in [EntryAddrs -> Entry]
              /\ \A x \in EntryAddrs : /\ entry'[x].start_offset = entry[x].start_offset
                                       /\ entry'[x].buffer_size = entry[x].buffer_size
            BY <1>0, <2>2, <3>1 DEF release, Entry
        <3> QED
            BY <2>2, <3>2, BlankRecords DEF release, Goto, TypeOK, Pcs, sh
    <2> QED
        BY <2>1, <2>2
<1>2. TypeOK'
    BY <1>1 DEF TypeOK, time
<1>3. SameRing
    BY <1>1 DEF SameRing
<1>4. StoreOwner'
    BY <1>1 DEF StoreOwner, StorePcs, FreeOldestPcs
<1>5. ASSUME NEW q \in Procs PROVE LocalsOK(q)'
    <2>1. CASE q = p
        BY <2>1, <1>1 DEF LocalsOK, StorePcs, FreeOldestPcs, WritePcs,
               HasEntry, AllocatingBuffer
    <2>2. CASE q # p
        BY <2>2, <1>1, <1>3, LocalsFrame
    <2> QED
        BY <2>1, <2>2
<1> QED
    BY <1>2, <1>3, <1>4, <1>5, RingFrame

\* The steps of a store that decide, and leave the ring alone.
LEMMA DecideSteps ==
    ASSUME IInv, NEW p \in Procs,
           store_expire(p) \/ store_lookup(p) \/ get_free_buffer(p)
    PROVE  IInv'
<1> USE DEF IInv
<1>0. pc[p] \in StorePcs /\ mutex = p /\ loc[p] \in Locals /\ loc[p].size >= 1
    BY DEF TypeOK, LocalsOK, StoreOwner, StorePcs, store_expire, store_lookup,
           get_free_buffer
<1>1. UNCHANGED <<sh_access_time, rbtree, used_queue, free_queue, entries_end,
                  buffers_start, buffers_read, buffers_write, live, entry, time>>
    BY DEF store_expire, store_lookup, get_free_buffer, sh
<1>2. SameRing
    BY <1>1 DEF SameRing
<1>3. /\ reset' \in BOOLEAN
      /\ mutex' \in {None, p}
      /\ pc' \in [Procs -> Pcs]
      /\ loc' \in [Procs -> Locals]
      /\ \A q \in Procs : q # p => pc'[q] = pc[q] /\ loc'[q] = loc[q]
      /\ mutex' = None => pc'[p] = "idle"
      /\ LocalsOK(p)'
    <2>1. CASE store_expire(p)
        <3>1. CASE EvictMore(p)
            <4>1. used_queue # <<>> /\ Head(used_queue) \in EntryAddrs
                BY <3>1, TailFacts DEF EvictMore, CanFreeOldest, TypeOK
            <4>2. /\ pc' = [pc EXCEPT ![p] = "free_unlink"]
                  /\ loc' = [loc EXCEPT ![p].caller = "expire",
                                         ![p].victim = Head(used_queue),
                                         ![p].evictions = @ - 1]
                  /\ UNCHANGED <<mutex, sh>>
                BY <2>1, <3>1 DEF store_expire, Goto
            <4>3. [loc[p] EXCEPT !.caller = "expire", !.victim = Head(used_queue),
                                 !.evictions = @ - 1] \in Locals
                <5>1. loc[p].evictions - 1 \in Nat
                    BY <1>0, <3>1 DEF EvictMore, Locals
                <5> QED
                    BY <1>0, <4>1, <5>1 DEF Locals
            <4>4. /\ loc' \in [Procs -> Locals]
                  /\ loc'[p].caller = "expire"
                  /\ loc'[p].victim = Head(used_queue)
                  /\ loc'[p].size = loc[p].size
                  /\ \A q \in Procs : q # p => loc'[q] = loc[q]
                BY <1>0, <4>2, <4>3 DEF TypeOK, Locals
            <4>5. /\ pc' \in [Procs -> Pcs]
                  /\ pc'[p] = "free_unlink"
                  /\ \A q \in Procs : q # p => pc'[q] = pc[q]
                BY <4>2 DEF TypeOK, Pcs, StorePcs, FreeOldestPcs
            <4>6. LocalsOK(p)'
                BY <1>0, <1>1, <4>1, <4>4, <4>5 DEF LocalsOK, FreeOldestPcs, StorePcs,
                       WritePcs, HasEntry, AllocatingBuffer
            <4> QED
                BY <1>0, <4>2, <4>4, <4>5, <4>6, ProcsAssumption DEF sh, TypeOK
        <3>2. CASE ~EvictMore(p)
            <4>1. /\ pc' = [pc EXCEPT ![p] = "lookup"]
                  /\ UNCHANGED <<mutex, sh, loc>>
                BY <2>1, <3>2 DEF store_expire, Goto
            <4>2. /\ pc' \in [Procs -> Pcs]
                  /\ pc'[p] = "lookup"
                  /\ \A q \in Procs : q # p => pc'[q] = pc[q]
                BY <4>1 DEF TypeOK, Pcs, StorePcs
            <4>3. LocalsOK(p)'
                BY <1>0, <4>1, <4>2 DEF LocalsOK, FreeOldestPcs, StorePcs, WritePcs,
                       HasEntry, AllocatingBuffer
            <4> QED
                BY <1>0, <4>1, <4>2, <4>3, ProcsAssumption DEF sh, TypeOK
        <3> QED
            BY <3>1, <3>2
    <2>2. CASE store_lookup(p)
        <3>1. /\ pc' \in [Procs -> Pcs]
              /\ loc' \in [Procs -> Locals]
              /\ \A q \in Procs : q # p => pc'[q] = pc[q] /\ loc'[q] = loc[q]
              /\ mutex' \in {None, p}
              /\ \/ pc'[p] = "idle"
                 \/ pc'[p] = "get_free_entry" /\ loc'[p] = loc[p] /\ mutex' = p
            BY <1>0, <2>2, BlankRecords
            DEF store_lookup, UnlockAndReturn, Goto, TypeOK, Pcs, StorePcs
        <3>2. LocalsOK(p)'
            BY <1>0, <3>1 DEF LocalsOK, FreeOldestPcs, StorePcs, WritePcs,
                   HasEntry, AllocatingBuffer
        <3>3. reset' \in BOOLEAN
            BY <2>2 DEF store_lookup, TypeOK
        <3> QED
            BY <3>1, <3>2, <3>3, ProcsAssumption
    <2>3. CASE get_free_buffer(p)
        <3>1. CASE NeverFits(loc[p].size)
            <4>1. reset' = FALSE /\ UnlockAndReturn(p)
                BY <2>3, <3>1 DEF get_free_buffer, StoreError
            <4>2. /\ pc' \in [Procs -> Pcs]
                  /\ loc' \in [Procs -> Locals]
                  /\ \A q \in Procs : q # p => pc'[q] = pc[q] /\ loc'[q] = loc[q]
                  /\ mutex' = None
                  /\ pc'[p] = "idle"
                BY <4>1, BlankRecords DEF UnlockAndReturn, Goto, TypeOK, Pcs
            <4>3. LocalsOK(p)'
                BY <4>2 DEF LocalsOK, FreeOldestPcs, StorePcs, WritePcs,
                       HasEntry, AllocatingBuffer
            <4> QED
                BY <4>1, <4>2, <4>3
        <3>2. CASE ~NeverFits(loc[p].size)
            <4> DEFINE b == AlignedBefore(buffers_write, loc[p].size)
            <4>1. b \in Int /\ b + loc[p].size <= buffers_write
                <5>1. buffers_write \in Int /\ loc[p].size \in Int
                    BY <1>0 DEF TypeOK, Locals
                <5> QED
                    BY <5>1, AlignedBeforeBound
            <4> HIDE DEF b
            <4>2. /\ pc' = [pc EXCEPT ![p] = "find_room"]
                  /\ loc' = [loc EXCEPT ![p].buffer_start = b]
                  /\ UNCHANGED <<mutex, reset>>
                BY <2>3, <3>2 DEF get_free_buffer, Goto, b
            <4>3. /\ loc' \in [Procs -> Locals]
                  /\ loc'[p].buffer_start = b
                  /\ loc'[p].size = loc[p].size
                  /\ loc'[p].entry = loc[p].entry
                  /\ \A q \in Procs : q # p => loc'[q] = loc[q]
                BY <1>0, <4>1, <4>2 DEF TypeOK, Locals
            <4>4. /\ pc' \in [Procs -> Pcs]
                  /\ pc'[p] = "find_room"
                  /\ \A q \in Procs : q # p => pc'[q] = pc[q]
                BY <4>2 DEF TypeOK, Pcs, StorePcs
            <4>5. free_queue # <<>> /\ loc[p].entry = Head(free_queue)
                BY <2>3 DEF get_free_buffer, LocalsOK, HasEntry
            <4>6. LocalsOK(p)'
                BY <1>0, <1>1, <4>1, <4>3, <4>4, <4>5
                DEF LocalsOK, FreeOldestPcs, StorePcs, WritePcs, HasEntry,
                    AllocatingBuffer
            <4> QED
                BY <1>0, <4>2, <4>3, <4>4, <4>6, ProcsAssumption DEF TypeOK
        <3> QED
            BY <3>1, <3>2
    <2> QED
        BY <2>1, <2>2, <2>3
<1>4. TypeOK'
    BY <1>0, <1>1, <1>3 DEF TypeOK, time
<1>5. StoreOwner'
    BY <1>0, <1>3, ProcsAssumption DEF StoreOwner, StorePcs, FreeOldestPcs
<1>6. \A q \in Procs : LocalsOK(q)'
    BY <1>0, <1>3, OtherLocals
<1> QED
    BY <1>2, <1>4, <1>5, <1>6, RingFrame

\* The last step under the mutex: only the times of the entry change.
LEMMA CommitStep ==
    ASSUME IInv, NEW p \in Procs, store_commit(p)
    PROVE  IInv'
<1> USE DEF IInv
<1> DEFINE x == loc[p].entry
<1>0. pc[p] = "commit" /\ mutex = p /\ x \in EntryAddrs
    BY DEF LocalsOK, StoreOwner, StorePcs, store_commit
<1>1. /\ rbtree' = rbtree \cup {x}
      /\ live' = live + 1
      /\ sh_access_time' = now[p]
      /\ entry' = [entry EXCEPT ![x].access_time = now[p], ![x].write_time = now[p]]
      /\ reset' = FALSE
      /\ mutex' = None
      /\ pc' = [pc EXCEPT ![p] = "copy"]
      /\ UNCHANGED <<used_queue, free_queue, entries_end, buffers_start,
                     buffers_read, buffers_write, loc, time>>
    BY DEF store_commit, Goto
<1>2. /\ now[p] \in Nat
      /\ \A e \in EntryAddrs : entry[e] \in Entry
    BY DEF TypeOK
<1> HIDE DEF x
<1>3. /\ entry' \in [EntryAddrs -> Entry]
      /\ \A e \in EntryAddrs : /\ entry'[e].start_offset = entry[e].start_offset
                               /\ entry'[e].buffer_size = entry[e].buffer_size
    <2>1. /\ [entry[x] EXCEPT !.access_time = now[p], !.write_time = now[p]] \in Entry
          /\ entry'[x] = [entry[x] EXCEPT !.access_time = now[p], !.write_time = now[p]]
          /\ \A e \in EntryAddrs : e # x => entry'[e] = entry[e]
        BY <1>0, <1>1, <1>2 DEF TypeOK, Entry
    <2>2. DOMAIN entry' = EntryAddrs
        BY <1>1 DEF TypeOK
    <2>3. entry' \in [EntryAddrs -> Entry]
        BY <1>1, <1>2, <2>1, <2>2
    <2>4. /\ entry'[x].start_offset = entry[x].start_offset
          /\ entry'[x].buffer_size = entry[x].buffer_size
        BY <1>0, <1>2, <2>1 DEF Entry
    <2> QED
        BY <2>1, <2>3, <2>4
<1>4. /\ pc' \in [Procs -> Pcs]
      /\ pc'[p] = "copy"
      /\ \A q \in Procs : q # p => pc'[q] = pc[q]
    BY <1>1 DEF TypeOK, Pcs, WritePcs
<1>5. TypeOK'
    <2>1. reset' \in BOOLEAN /\ rbtree' \subseteq EntryAddrs
        BY <1>0, <1>1 DEF TypeOK
    <2>2. live' \in Int
        BY <1>1 DEF TypeOK
    <2> QED
        BY <1>1, <1>2, <1>3, <1>4, <2>1, <2>2 DEF TypeOK, time
<1>6. SameRing
    BY <1>1, <1>3 DEF SameRing
<1>7. StoreOwner'
    BY <1>0, <1>4, ProcsAssumption DEF StoreOwner, StorePcs, FreeOldestPcs
<1>8. ASSUME NEW q \in Procs PROVE LocalsOK(q)'
    <2>1. CASE q = p
        BY <2>1, <1>0, <1>1, <1>4 DEF LocalsOK, StorePcs, FreeOldestPcs, WritePcs,
               HasEntry, AllocatingBuffer, x
    <2>2. CASE q # p
        BY <2>2, <1>0, <1>1, <1>4, OtherLocals
    <2> QED
        BY <2>1, <2>2
<1> QED
    BY <1>5, <1>6, <1>7, <1>8, RingFrame

-----------------------------------------------------------------------------
(* The steps that change the ring *)

\* Lock; after a kill, forget every entry.
LEMMA BeginStep ==
    ASSUME IInv, NEW p \in Procs, NEW k \in Keys, NEW n \in Sizes,
           store_begin(p, k, n)
    PROVE  IInv'
<1> USE DEF IInv
<1> DEFINE l == [NoLocals EXCEPT !.key = k, !.size = n + 1,
                                 !.evictions = MAX_EVICTIONS_PER_STORE]
<1>0. l \in Locals /\ l.size >= 1
    <2>1. n + 1 \in Nat /\ n + 1 >= 1 /\ MAX_EVICTIONS_PER_STORE \in Nat
        BY SizesAssumption, TimesAssumption
    <2>2. \A m, x \in Nat :
            [NoLocals EXCEPT !.key = k, !.size = m, !.evictions = x] \in Locals
        BY BlankRecords DEF Locals
    <2>3. l.size = n + 1
        BY DEF NoLocals
    <2> QED
        BY <2>1, <2>2, <2>3
<1>1. /\ mutex = None /\ mutex' = p
      /\ loc' = [loc EXCEPT ![p] = l]
      /\ UNCHANGED <<reset, sh_access_time, time>>
    BY DEF store_begin, sh
<1>2. /\ pc' \in [Procs -> Pcs]
      /\ pc'[p] \in {"lookup", "expire", "get_free_entry"}
      /\ \A q \in Procs : q # p => pc'[q] = pc[q]
    BY DEF store_begin, Goto, TypeOK, Pcs, StorePcs
<1> HIDE DEF l
<1>3. /\ loc' \in [Procs -> Locals]
      /\ loc'[p].size >= 1
      /\ \A q \in Procs : q # p => loc'[q] = loc[q]
    BY <1>0, <1>1 DEF TypeOK
<1>4. StoreOwner'
    BY <1>1, <1>2, ProcsAssumption DEF StoreOwner
<1>5. ASSUME NEW q \in Procs PROVE LocalsOK(q)'
    <2>1. CASE q = p
        BY <2>1, <1>2, <1>3 DEF LocalsOK, StorePcs, FreeOldestPcs, WritePcs,
               HasEntry, AllocatingBuffer
    <2>2. CASE q # p
        BY <2>2, <1>1, <1>2, <1>3, OtherLocals
    <2> QED
        BY <2>1, <2>2
<1>6. CASE UNCHANGED <<sh, entry>>
    <2>1. SameRing
        BY <1>6 DEF SameRing, sh
    <2>2. TypeOK'
        BY <1>1, <1>2, <1>3, <1>6 DEF TypeOK, sh, time
    <2> QED
        BY <1>4, <1>5, <2>1, <2>2, RingFrame
<1>7. CASE cache_reset
    <2>1. /\ entry' = [e \in EntryAddrs |-> NoEntry]
          /\ entries_end' = 0 /\ live' = 0 /\ rbtree' = {}
          /\ buffers_start' = BuffersEnd /\ buffers_read' = BuffersEnd
          /\ buffers_write' = BuffersEnd
          /\ used_queue' = <<>> /\ free_queue' = <<>>
        BY <1>7 DEF cache_reset, CountAllEvicted
    <2>2. QueuesOK' /\ RingOK' /\ HeadsOK'
        BY <2>1, SizesAssumption DEF QueuesOK, RingOK, HeadsOK
    <2>3. TypeOK'
        <3>1. entry' \in [EntryAddrs -> Entry]
            BY <2>1, BlankRecords
        <3>2. used_queue' \in Seq(EntryAddrs) /\ free_queue' \in Seq(EntryAddrs)
            BY <2>1
        <3> QED
            BY <1>1, <1>2, <1>3, <2>1, <3>1, <3>2, SizesAssumption DEF TypeOK, time
    <2> QED
        BY <1>4, <1>5, <2>2, <2>3
<1> QED
    BY <1>6, <1>7 DEF store_begin

\* The victim leaves the tree.
LEMMA UnlinkStep ==
    ASSUME IInv, NEW p \in Procs, free_unlink(p)
    PROVE  IInv'
<1> USE DEF IInv
<1> PICK v : v = loc[p].victim
    OBVIOUS
<1>0. /\ pc[p] = "free_unlink" /\ mutex = p /\ v \in EntryAddrs
      /\ used_queue # <<>> /\ v = Head(used_queue)
    BY DEF LocalsOK, StoreOwner, StorePcs, FreeOldestPcs, free_unlink
<1>1. /\ entry' = [entry EXCEPT ![v].state = "FREE"]
      /\ rbtree' = rbtree \ {v}
      /\ pc' = [pc EXCEPT ![p] = "free_dequeue"]
      /\ UNCHANGED <<mutex, reset, sh_access_time, used_queue, free_queue,
                     entries_end, buffers_start, buffers_read, buffers_write,
                     live, loc, time>>
    BY DEF free_unlink, Goto
<1>2. /\ entry' \in [EntryAddrs -> Entry]
      /\ \A e \in EntryAddrs : /\ entry'[e].start_offset = entry[e].start_offset
                               /\ entry'[e].buffer_size = entry[e].buffer_size
    <2>1. \A e \in EntryAddrs : entry[e] \in Entry
        BY DEF TypeOK
    <2>2. [entry[v] EXCEPT !.state = "FREE"] \in Entry
        BY <1>0, <2>1 DEF Entry
    <2>3. entry' = [entry EXCEPT ![v] = [entry[v] EXCEPT !.state = "FREE"]]
        BY <1>0, <1>1 DEF TypeOK
    <2> QED
        BY <1>0, <2>1, <2>2, <2>3 DEF TypeOK, Entry
<1>3. /\ pc' \in [Procs -> Pcs]
      /\ pc'[p] = "free_dequeue"
      /\ \A q \in Procs : q # p => pc'[q] = pc[q]
    BY <1>1 DEF TypeOK, Pcs, StorePcs, FreeOldestPcs
<1>4. TypeOK'
    BY <1>1, <1>2, <1>3 DEF TypeOK, time
<1>5. SameRing
    BY <1>1, <1>2 DEF SameRing
<1>6. StoreOwner'
    BY <1>0, <1>1, <1>3 DEF StoreOwner
<1>7. ASSUME NEW q \in Procs PROVE LocalsOK(q)'
    <2>1. CASE q = p
        BY <2>1, <1>0, <1>1, <1>3 DEF LocalsOK, StorePcs, FreeOldestPcs, WritePcs,
               HasEntry, AllocatingBuffer
    <2>2. CASE q # p
        BY <2>2, <1>0, <1>1, <1>3, OtherLocals
    <2> QED
        BY <2>1, <2>2
<1> QED
    BY <1>4, <1>5, <1>6, <1>7, RingFrame

\* The victim leaves the used queue, and still bounds the ring.
LEMMA DequeueStep ==
    ASSUME IInv, NEW p \in Procs, free_dequeue(p)
    PROVE  IInv'
<1> USE DEF IInv
<1> PICK v : v = loc[p].victim
    OBVIOUS
<1>0. /\ pc[p] = "free_dequeue" /\ mutex = p /\ v \in EntryAddrs
      /\ used_queue # <<>> /\ v = Head(used_queue)
    BY DEF LocalsOK, StoreOwner, StorePcs, FreeOldestPcs, free_dequeue
<1>1. /\ used_queue' = Tail(used_queue)
      /\ pc' = [pc EXCEPT ![p] = "free_account"]
      /\ UNCHANGED <<mutex, reset, sh_access_time, rbtree, free_queue,
                     entries_end, buffers_start, buffers_read, buffers_write,
                     live, entry, loc, time>>
    BY DEF free_dequeue, Goto
<1>2. /\ v = used_queue[1]
      /\ 1 \in DOMAIN used_queue
      /\ used_queue' \in Seq(EntryAddrs)
      /\ \A i \in DOMAIN used_queue' :
            i + 1 \in DOMAIN used_queue /\ used_queue'[i] = used_queue[i + 1]
      /\ \A i \in DOMAIN used_queue' : i \in Nat /\ i >= 1
    BY <1>0, <1>1, TailFacts DEF TypeOK
<1>3. /\ pc' \in [Procs -> Pcs]
      /\ pc'[p] = "free_account"
      /\ \A q \in Procs : q # p => pc'[q] = pc[q]
    BY <1>1 DEF TypeOK, Pcs, StorePcs, FreeOldestPcs
<1>4. TypeOK'
    BY <1>1, <1>2, <1>3 DEF TypeOK, time
<1>5. QueuesOK'
    BY <1>1, <1>2 DEF QueuesOK, Allocated
<1>6. HeadsOK'
    BY <1>1 DEF HeadsOK
<1>7. \A e : (Good(e)' <=> Good(e)) /\ \A d : Older(d, e)' <=> Older(d, e)
    BY <1>1 DEF Good, Older, Start, BufferEnd
<1>8. RingOK'
    BY <1>2, <1>7 DEF RingOK
<1>9. VictimOK(v)'
    <2>1. Allocated(v)'
        BY <1>1, <1>2 DEF QueuesOK, Allocated
    <2>2. \A i \in DOMAIN used_queue' : used_queue'[i] # v
        BY <1>2 DEF QueuesOK
    <2>3. \A i \in DOMAIN free_queue' : free_queue'[i] # v
        BY <1>1, <1>2 DEF QueuesOK
    <2>4. Good(v)' /\ (\A i \in DOMAIN used_queue : Older(v, used_queue[i]))'
        BY <1>2, <1>7 DEF RingOK
    <2> QED
        BY <1>0, <2>1, <2>2, <2>3, <2>4 DEF VictimOK
<1>10. StoreOwner'
    BY <1>0, <1>1, <1>3 DEF StoreOwner
<1>11. ASSUME NEW q \in Procs PROVE LocalsOK(q)'
    <2>1. CASE q = p
        BY <2>1, <1>0, <1>1, <1>3, <1>9 DEF LocalsOK, StorePcs, FreeOldestPcs,
               WritePcs, HasEntry, AllocatingBuffer
    <2>2. CASE q # p
        BY <2>2, <1>0, <1>1, <1>3, OtherLocals
    <2> QED
        BY <2>1, <2>2
<1> QED
    BY <1>4, <1>5, <1>6, <1>8, <1>10, <1>11

\* A buffer has at least one byte.
LEMMA BufferIsNotEmpty ==
    ASSUME TypeOK, NEW e \in EntryAddrs
    PROVE  Start(e) \in Int /\ BufferEnd(e) \in Int /\ Start(e) < BufferEnd(e)
<1>1. entry[e].start_offset \in Int /\ entry[e].buffer_size \in Nat
    BY DEF TypeOK, Entry
<1> QED
    BY <1>1 DEF Start, BufferEnd

\* The victim joins the free queue, and the read head moves past its buffer.
LEMMA AccountStep ==
    ASSUME IInv, NEW p \in Procs, free_account(p)
    PROVE  IInv'
<1> USE DEF IInv
<1> PICK v : v = loc[p].victim
    OBVIOUS
<1>0. /\ pc[p] = "free_account" /\ mutex = p /\ VictimOK(v) /\ v \in EntryAddrs
      /\ loc[p] \in Locals /\ loc[p].size >= 1
      /\ loc[p].caller \in {"expire", "get_free_entry", "find_room"}
    BY DEF TypeOK, LocalsOK, StoreOwner, StorePcs, FreeOldestPcs, free_account
<1>1. /\ free_queue' = Append(free_queue, v)
      /\ buffers_read' = IF used_queue = <<>> THEN BuffersEnd ELSE Start(v)
      /\ buffers_write' = IF used_queue = <<>> THEN BuffersEnd ELSE buffers_write
      /\ live' = live - 1
      /\ entry' = [entry EXCEPT ![v] = NoEntry]
      /\ pc' = [pc EXCEPT ![p] = loc[p].caller]
      /\ loc' = [loc EXCEPT ![p].caller = "idle", ![p].victim = None]
      /\ UNCHANGED <<mutex, reset, sh_access_time, rbtree, used_queue,
                     entries_end, buffers_start, time>>
    BY DEF free_account, Goto, ReadAfterFree, CountEvicted, Start
<1>2. /\ free_queue' \in Seq(EntryAddrs)
      /\ free_queue' # <<>>
      /\ DOMAIN free_queue' = 1 .. Len(free_queue) + 1
      /\ DOMAIN free_queue = 1 .. Len(free_queue)
      /\ \A i \in DOMAIN free_queue : free_queue'[i] = free_queue[i]
      /\ free_queue'[Len(free_queue) + 1] = v
      /\ free_queue # <<>> => Head(free_queue') = Head(free_queue)
      /\ Len(free_queue) \in Nat
    <2>1. free_queue \in Seq(EntryAddrs)
        BY DEF TypeOK
    <2>2. Len(free_queue) \in Nat
        BY <2>1
    <2> QED
        BY <1>0, <1>1, <2>1, <2>2, AppendFacts
<1>3. /\ loc' \in [Procs -> Locals]
      /\ loc'[p].size = loc[p].size
      /\ loc'[p].entry = loc[p].entry
      /\ loc'[p].buffer_start = loc[p].buffer_start
      /\ \A q \in Procs : q # p => loc'[q] = loc[q]
    BY <1>0, <1>1 DEF TypeOK, Locals
<1>4. /\ pc' \in [Procs -> Pcs]
      /\ pc'[p] = loc[p].caller
      /\ \A q \in Procs : q # p => pc'[q] = pc[q]
    BY <1>0, <1>1 DEF TypeOK, Pcs, StorePcs
<1>5. Start(v) \in Int /\ BufferEnd(v) \in Int /\ Start(v) < BufferEnd(v)
    BY <1>0, BufferIsNotEmpty
<1>6. TypeOK'
    <2>1. entry' \in [EntryAddrs -> Entry]
        BY <1>0, <1>1, BlankRecords DEF TypeOK
    <2>2. buffers_read' \in Int /\ buffers_write' \in Int /\ live' \in Int
        BY <1>1, <1>5, SizesAssumption, SMTT(30) DEF TypeOK
    <2> QED
        BY <1>1, <1>2, <1>3, <1>4, <2>1, <2>2 DEF TypeOK, time
<1>7. QueuesOK'
    BY <1>0, <1>1, <1>2 DEF QueuesOK, VictimOK, Allocated
<1>8. HeadsOK'
    <2>1. buffers_start <= Start(v) /\ BufferEnd(v) <= BuffersEnd
        BY <1>0 DEF VictimOK, Good
    <2>2. /\ entries_end \in Int /\ buffers_start \in Int /\ buffers_read \in Int
          /\ buffers_write \in Int /\ BuffersEnd \in Int
        BY SizesAssumption DEF TypeOK
    <2> QED
        BY <1>1, <1>5, <2>1, <2>2 DEF HeadsOK
<1>9. RingOK'
    <2>1. CASE used_queue = <<>>
        BY <1>1, <2>1 DEF RingOK
    <2>2. CASE used_queue # <<>>
        <3>1. buffers_read' = Start(v) /\ buffers_write' = buffers_write
            BY <1>1, <2>2
        <3>2. /\ buffers_read \in Int /\ buffers_write \in Int /\ buffers_start \in Int
              /\ BuffersEnd \in Int
            BY SizesAssumption DEF TypeOK
        <3>3. ASSUME NEW i \in DOMAIN used_queue
              PROVE  /\ used_queue[i] \in EntryAddrs
                     /\ Start(used_queue[i])' = Start(used_queue[i])
                     /\ BufferEnd(used_queue[i])' = BufferEnd(used_queue[i])
                     /\ Start(used_queue[i]) \in Int
                     /\ BufferEnd(used_queue[i]) \in Int
                     /\ Start(used_queue[i]) < BufferEnd(used_queue[i])
                     /\ Good(used_queue[i])
                     /\ Older(v, used_queue[i])
            <4>1. used_queue[i] \in EntryAddrs /\ used_queue[i] # v
                BY <1>0 DEF TypeOK, VictimOK
            <4>2. entry'[used_queue[i]] = entry[used_queue[i]] /\ used_queue' = used_queue
                BY <1>0, <1>1, <4>1 DEF TypeOK
            <4>3. /\ Start(used_queue[i])' = Start(used_queue[i])
                  /\ BufferEnd(used_queue[i])' = BufferEnd(used_queue[i])
                BY <4>2 DEF Start, BufferEnd
            <4> QED
                BY <1>0, <4>1, <4>3, BufferIsNotEmpty DEF RingOK, VictimOK
        <3>4. Good(v)
            BY <1>0 DEF VictimOK
        <3>5. ASSUME NEW i \in DOMAIN used_queue PROVE Good(used_queue[i])'
            BY <1>1, <1>5, <3>1, <3>2, <3>3, <3>4 DEF Good, Older
        <3>6. ASSUME NEW i \in DOMAIN used_queue, NEW j \in DOMAIN used_queue, i < j
              PROVE  Older(used_queue[i], used_queue[j])'
            <4>1. Older(used_queue[i], used_queue[j])
                BY <3>6 DEF RingOK
            <4> QED
                BY <1>1, <1>5, <3>1, <3>2, <3>3, <3>4, <4>1 DEF Good, Older
        <3> QED
            BY <1>1, <3>5, <3>6 DEF RingOK
    <2> QED
        BY <2>1, <2>2
<1>10. StoreOwner'
    BY <1>0, <1>1, <1>4 DEF StoreOwner
<1>11. ASSUME NEW q \in Procs PROVE LocalsOK(q)'
    <2>1. CASE q = p
        <3>1. loc[p].caller = "find_room" =>
                /\ free_queue # <<>> /\ loc[p].entry = Head(free_queue)
                /\ loc[p].buffer_start + loc[p].size <= buffers_write
            BY <1>0 DEF LocalsOK, HasEntry, AllocatingBuffer, FreeOldestPcs
        <3>2. loc[p].caller = "find_room" =>
                /\ loc'[p].entry = Head(free_queue')
                /\ loc'[p].buffer_start + loc'[p].size <= buffers_write'
            <4>1. /\ loc[p].buffer_start \in Int /\ loc[p].size \in Int
                  /\ buffers_write \in Int /\ BuffersEnd \in Int
                  /\ buffers_write <= BuffersEnd
                BY <1>0, SizesAssumption DEF TypeOK, Locals, HeadsOK
            <4> QED
                BY <1>1, <1>2, <1>3, <3>1, <4>1
        <3> QED
            BY <2>1, <1>0, <1>2, <1>3, <1>4, <3>2
            DEF LocalsOK, StorePcs, FreeOldestPcs, WritePcs, HasEntry, AllocatingBuffer
    <2>2. CASE q # p
        BY <2>2, <1>0, <1>3, <1>4, OtherLocals
    <2> QED
        BY <2>1, <2>2
<1> QED
    BY <1>6, <1>7, <1>8, <1>9, <1>10, <1>11

\* A store gives up.
LEMMA ErrorStep ==
    ASSUME IInv, NEW p \in Procs, mutex = p, StoreError(p),
           UNCHANGED <<sh_access_time, rbtree, used_queue, free_queue, entries_end,
                       buffers_start, buffers_read, buffers_write, live, entry, time>>
    PROVE  IInv'
<1> USE DEF IInv
<1>1. /\ reset' = FALSE
      /\ mutex' = None
      /\ pc' \in [Procs -> Pcs]
      /\ loc' \in [Procs -> Locals]
      /\ pc'[p] = "idle"
      /\ \A q \in Procs : q # p => pc'[q] = pc[q] /\ loc'[q] = loc[q]
    BY BlankRecords DEF StoreError, UnlockAndReturn, Goto, TypeOK, Pcs
<1>2. TypeOK'
    <2>1. reset' \in BOOLEAN
        BY <1>1
    <2> QED
        BY <1>1, <2>1 DEF TypeOK, time
<1>3. SameRing
    BY DEF SameRing
<1>4. StoreOwner'
    BY <1>1, ProcsAssumption DEF StoreOwner, StorePcs, FreeOldestPcs
<1>5. ASSUME NEW q \in Procs PROVE LocalsOK(q)'
    <2>1. CASE q = p
        BY <2>1, <1>1 DEF LocalsOK, StorePcs, FreeOldestPcs, WritePcs,
               HasEntry, AllocatingBuffer
    <2>2. CASE q # p
        BY <2>2, <1>1, OtherLocals
    <2> QED
        BY <2>1, <2>2
<1> QED
    BY <1>2, <1>3, <1>4, <1>5, RingFrame

\* A store calls free_oldest_entry to make room.
LEMMA CallFreeStep ==
    ASSUME IInv, NEW p \in Procs, mutex = p,
           pc[p] \in {"get_free_entry", "find_room"},
           CanFreeOldest(p, 0), CallFreeOldest(p, pc[p]),
           UNCHANGED <<mutex, sh, entry, time>>
    PROVE  IInv'
<1> USE DEF IInv
<1>0. used_queue # <<>> /\ Head(used_queue) \in EntryAddrs /\ loc[p] \in Locals
    BY TailFacts DEF CanFreeOldest, TypeOK
<1>1. /\ pc' \in [Procs -> Pcs]
      /\ pc'[p] = "free_unlink"
      /\ \A q \in Procs : q # p => pc'[q] = pc[q]
    BY DEF CallFreeOldest, Goto, TypeOK, Pcs, StorePcs, FreeOldestPcs
<1>2. [loc[p] EXCEPT !.caller = pc[p], !.victim = Head(used_queue)] \in Locals
    BY <1>0 DEF Locals
<1>3. loc' = [loc EXCEPT ![p].caller = pc[p], ![p].victim = Head(used_queue)]
    BY DEF CallFreeOldest
<1>4. /\ loc' \in [Procs -> Locals]
      /\ loc'[p].caller = pc[p]
      /\ loc'[p].victim = Head(used_queue)
      /\ loc'[p].size = loc[p].size
      /\ loc'[p].entry = loc[p].entry
      /\ loc'[p].buffer_start = loc[p].buffer_start
      /\ \A q \in Procs : q # p => loc'[q] = loc[q]
    BY <1>0, <1>2, <1>3 DEF TypeOK, Locals
<1>5. TypeOK'
    BY <1>1, <1>4 DEF TypeOK, sh, time
<1>6. SameRing
    BY DEF SameRing, sh
<1>7. StoreOwner'
    BY <1>1 DEF StoreOwner
<1>8. ASSUME NEW q \in Procs PROVE LocalsOK(q)'
    <2>1. CASE q = p
        <3>1. LocalsOK(p) /\ UNCHANGED <<used_queue, free_queue, buffers_write>>
            BY DEF sh
        <3> QED
            BY <2>1, <1>0, <1>1, <1>4, <3>1
            DEF LocalsOK, StorePcs, FreeOldestPcs, WritePcs, HasEntry, AllocatingBuffer
    <2>2. CASE q # p
        BY <2>2, <1>1, <1>4, OtherLocals
    <2> QED
        BY <2>1, <2>2
<1> QED
    BY <1>5, <1>6, <1>7, <1>8, RingFrame

\* Find an entry: a free one, a new one, or the oldest one.
LEMMA GetFreeEntryStep ==
    ASSUME IInv, NEW p \in Procs, get_free_entry(p)
    PROVE  IInv'
<1> USE DEF IInv
<1>0. /\ pc[p] = "get_free_entry" /\ mutex = p /\ loc[p] \in Locals
      /\ loc[p].size >= 1
    BY DEF TypeOK, LocalsOK, StoreOwner, StorePcs, get_free_entry
<1>1. UNCHANGED <<sh_access_time, rbtree, used_queue, buffers_start,
                  buffers_read, buffers_write, live, time>>
    BY DEF get_free_entry
<1> DEFINE Found(x) ==
        /\ loc' = [loc EXCEPT ![p].entry = x]
        /\ pc' = [pc EXCEPT ![p] = "get_free_buffer"]
        /\ UNCHANGED <<mutex, reset>>
<1>2. ASSUME NEW x \in EntryAddrs, Found(x), free_queue' # <<>>, Head(free_queue') = x
      PROVE  /\ pc' \in [Procs -> Pcs] /\ loc' \in [Procs -> Locals]
             /\ StoreOwner'
             /\ \A q \in Procs : LocalsOK(q)'
    <2>1. /\ loc' \in [Procs -> Locals]
          /\ loc'[p].entry = x
          /\ loc'[p].size = loc[p].size
          /\ \A q \in Procs : q # p => loc'[q] = loc[q]
        BY <1>0, <1>2 DEF TypeOK, Locals
    <2>2. /\ pc' \in [Procs -> Pcs]
          /\ pc'[p] = "get_free_buffer"
          /\ \A q \in Procs : q # p => pc'[q] = pc[q]
        BY <1>2 DEF TypeOK, Pcs, StorePcs
    <2>3. StoreOwner'
        BY <1>0, <1>2, <2>2 DEF StoreOwner
    <2>4. LocalsOK(p)'
        BY <1>0, <1>2, <2>1, <2>2 DEF LocalsOK, StorePcs, FreeOldestPcs, WritePcs,
               HasEntry, AllocatingBuffer
    <2>5. ASSUME NEW q \in Procs, q # p PROVE LocalsOK(q)'
        BY <2>5, <1>0, <2>1, <2>2, OtherLocals
    <2> QED
        BY <2>1, <2>2, <2>3, <2>4, <2>5
<1>3. CASE /\ free_queue # <<>>
           /\ Found(Head(free_queue))
           /\ UNCHANGED <<free_queue, entries_end, entry>>
    <2>1. Head(free_queue) \in EntryAddrs
        BY <1>3, TailFacts DEF TypeOK
    <2>2. SameRing
        BY <1>1, <1>3 DEF SameRing
    <2>3. /\ pc' \in [Procs -> Pcs] /\ loc' \in [Procs -> Locals]
          /\ StoreOwner'
          /\ \A q \in Procs : LocalsOK(q)'
        BY <1>2, <1>3, <2>1
    <2>4. TypeOK'
        BY <1>1, <1>3, <2>3 DEF TypeOK, time
    <2> QED
        BY <2>2, <2>3, <2>4, RingFrame
<1>4. CASE /\ free_queue = <<>>
           /\ EntriesCanGrow
           /\ entries_end' = entries_end + EntrySize
           /\ entry' = [entry EXCEPT ![entries_end].state = "FREE"]
           /\ free_queue' = <<entries_end>>
           /\ Found(entries_end)
    <2>1. PICK x : x = entries_end
        OBVIOUS
    <2>2. /\ x \in Nat /\ x + EntrySize < buffers_start /\ buffers_start <= BuffersEnd
          /\ buffers_start \in Int /\ BuffersEnd \in Int /\ EntrySize \in Nat /\ EntrySize > 0
        BY <1>4, <2>1, SizesAssumption, SMTT(30) DEF TypeOK, HeadsOK, EntriesCanGrow
    <2>3. x \in EntryAddrs
        BY <2>2 DEF EntryAddrs
    <2>4. /\ free_queue' \in Seq(EntryAddrs)
          /\ free_queue' # <<>>
          /\ Head(free_queue') = x
          /\ DOMAIN free_queue' = {1}
          /\ free_queue'[1] = x
        BY <1>4, <2>1, <2>3
    <2>5. /\ pc' \in [Procs -> Pcs] /\ loc' \in [Procs -> Locals]
          /\ StoreOwner'
          /\ \A q \in Procs : LocalsOK(q)'
        BY <1>2, <1>4, <2>1, <2>3, <2>4
    <2>6. /\ entry' \in [EntryAddrs -> Entry]
          /\ \A e \in EntryAddrs : /\ entry'[e].start_offset = entry[e].start_offset
                                   /\ entry'[e].buffer_size = entry[e].buffer_size
        <3>1. \A e \in EntryAddrs : entry[e] \in Entry
            BY DEF TypeOK
        <3>2. [entry[x] EXCEPT !.state = "FREE"] \in Entry
            BY <2>3, <3>1 DEF Entry
        <3>3. entry' = [entry EXCEPT ![x] = [entry[x] EXCEPT !.state = "FREE"]]
            BY <1>4, <2>1, <2>3 DEF TypeOK
        <3> QED
            BY <2>3, <3>1, <3>2, <3>3 DEF TypeOK, Entry
    <2>7. TypeOK'
        <3>1. entries_end' \in Nat
            BY <1>4, <2>1, <2>2
        <3> QED
            BY <1>1, <1>4, <2>4, <2>5, <2>6, <3>1 DEF TypeOK, time
    <2>8. HeadsOK'
        BY <1>1, <1>4, <2>1, <2>2 DEF HeadsOK
    <2>9. QueuesOK'
        <3>1. \A i \in DOMAIN used_queue :
                /\ used_queue[i] \in Int
                /\ used_queue[i] + EntrySize <= x
            <4>1. \A i \in DOMAIN used_queue : used_queue[i] \in EntryAddrs
                BY DEF TypeOK
            <4>2. \A e \in EntryAddrs : e \in Int
                BY SizesAssumption DEF EntryAddrs
            <4> QED
                BY <2>1, <4>1, <4>2 DEF QueuesOK, Allocated
        <3>2. used_queue' = used_queue /\ entries_end' = x + EntrySize
            BY <1>1, <1>4, <2>1
        <3>3. \A i \in DOMAIN used_queue' :
                /\ used_queue'[i] + EntrySize <= entries_end'
                /\ used_queue'[i] # x
            BY <2>2, <3>1, <3>2
        <3>4. x + EntrySize <= entries_end'
            BY <2>2, <3>2
        <3>5. \A i, j \in DOMAIN used_queue' : used_queue'[i] = used_queue'[j] => i = j
            BY <3>2 DEF QueuesOK
        <3> QED
            BY <2>4, <3>3, <3>4, <3>5 DEF QueuesOK, Allocated
    <2>10. RingOK'
        <3>1. \A i \in DOMAIN used_queue : used_queue[i] \in EntryAddrs
            BY DEF TypeOK
        <3>2. \A e \in EntryAddrs : Start(e)' = Start(e) /\ BufferEnd(e)' = BufferEnd(e)
            BY <2>6 DEF Start, BufferEnd
        <3>3. \A e \in EntryAddrs : Good(e) => Good(e)'
            BY <1>1, <3>2 DEF Good
        <3>4. \A d, e \in EntryAddrs : Older(d, e) => Older(d, e)'
            BY <1>1, <3>2 DEF Older
        <3> QED
            BY <1>1, <3>1, <3>3, <3>4 DEF RingOK
    <2> QED
        BY <2>5, <2>7, <2>8, <2>9, <2>10
<1>5. CASE /\ CanFreeOldest(p, 0)
           /\ CallFreeOldest(p, "get_free_entry")
           /\ UNCHANGED <<mutex, reset, free_queue, entries_end, entry>>
    BY <1>0, <1>1, <1>5, CallFreeStep DEF sh
<1>6. CASE StoreError(p) /\ UNCHANGED <<free_queue, entries_end, entry>>
    BY <1>0, <1>1, <1>6, ErrorStep
<1> QED
    BY <1>3, <1>4, <1>5, <1>6 DEF get_free_entry, Goto

\* One iteration of the search for room.
LEMMA FindRoomStep ==
    ASSUME IInv, NEW p \in Procs, find_room(p)
    PROVE  IInv'
<1> USE DEF IInv
<1> PICK b : b = loc[p].buffer_start
    OBVIOUS
<1>0. /\ pc[p] = "find_room" /\ mutex = p /\ loc[p] \in Locals
      /\ loc[p].size >= 1 /\ loc[p].size \in Int /\ b \in Int
      /\ free_queue # <<>> /\ loc[p].entry = Head(free_queue)
      /\ b + loc[p].size <= buffers_write
    BY DEF TypeOK, LocalsOK, StoreOwner, StorePcs, find_room, HasEntry,
           AllocatingBuffer, Locals
<1>1. UNCHANGED <<sh_access_time, rbtree, used_queue, free_queue, entries_end,
                  buffers_read, live, entry, time>>
    BY DEF find_room
<1>2. /\ entries_end \in Int /\ buffers_start \in Int /\ buffers_read \in Int
      /\ buffers_write \in Int /\ BuffersEnd \in Int /\ EntriesAllocMargin \in Nat
    BY SizesAssumption DEF TypeOK
<1>3. CASE /\ \/ b >= buffers_start /\ buffers_start' = buffers_start
              \/ /\ b < buffers_start
                 /\ b > entries_end + EntriesAllocMargin
                 /\ buffers_start' = b
           /\ WriteBelowRead \/ (b > buffers_read /\ buffers_start' = buffers_start)
           /\ pc' = [pc EXCEPT ![p] = "init_entry"]
           /\ UNCHANGED <<mutex, reset, buffers_write, loc>>
    <2>1. /\ pc' \in [Procs -> Pcs]
          /\ pc'[p] = "init_entry"
          /\ \A q \in Procs : q # p => pc'[q] = pc[q]
        BY <1>3 DEF TypeOK, Pcs, StorePcs
    <2>2. buffers_start' \in Int /\ buffers_start' <= buffers_start /\ buffers_start' <= b
        BY <1>0, <1>2, <1>3
    <2>3. TypeOK'
        BY <1>1, <1>3, <2>1, <2>2 DEF TypeOK, time
    <2>4. HeadsOK'
        BY <1>0, <1>1, <1>2, <1>3 DEF HeadsOK
    <2>5. QueuesOK'
        BY <1>1 DEF QueuesOK, Allocated
    <2>6. RingOK'
        <3>1. \A e : Start(e)' = Start(e) /\ BufferEnd(e)' = BufferEnd(e)
            BY <1>1 DEF Start, BufferEnd
        <3>2. \A e \in EntryAddrs : Good(e) => Good(e)'
            <4> SUFFICES ASSUME NEW e \in EntryAddrs, Good(e) PROVE Good(e)'
                OBVIOUS
            <4>1. Start(e) \in Int
                BY BufferIsNotEmpty
            <4> QED
                BY <1>1, <1>2, <1>3, <2>2, <3>1, <4>1 DEF Good
        <3>3. \A d, e : Older(d, e) => Older(d, e)'
            BY <1>1, <1>3, <3>1 DEF Older
        <3>4. \A i \in DOMAIN used_queue : used_queue[i] \in EntryAddrs
            BY DEF TypeOK
        <3> QED
            BY <1>1, <3>2, <3>3, <3>4 DEF RingOK
    <2>7. StoreOwner'
        BY <1>0, <1>3, <2>1 DEF StoreOwner
    <2>8. LocalsOK(p)'
        <3>1. WriteBelowRead' = WriteBelowRead
            BY <1>1, <1>3 DEF WriteBelowRead
        <3> QED
            BY <1>0, <1>1, <1>2, <1>3, <2>1, <2>2, <3>1
            DEF LocalsOK, StorePcs, FreeOldestPcs, WritePcs, HasEntry, AllocatingBuffer
    <2>9. ASSUME NEW q \in Procs, q # p PROVE LocalsOK(q)'
        BY <2>9, <1>0, <1>3, <2>1, OtherLocals
    <2> QED
        BY <2>3, <2>4, <2>5, <2>6, <2>7, <2>8, <2>9
<1>4. CASE /\ WriteBelowRead
           /\ buffers_write' = BuffersEnd
           /\ loc' = [loc EXCEPT ![p].buffer_start = AlignedBefore(BuffersEnd, loc[p].size)]
           /\ UNCHANGED <<pc, buffers_start, mutex, reset>>
    <2> PICK a : a = AlignedBefore(BuffersEnd, loc[p].size)
        OBVIOUS
    <2>1. a \in Int /\ a + loc[p].size <= BuffersEnd
        BY <1>0, <1>2, AlignedBeforeBound
    <2>2. /\ loc' \in [Procs -> Locals]
          /\ loc'[p].buffer_start = a
          /\ loc'[p].size = loc[p].size
          /\ loc'[p].entry = loc[p].entry
          /\ \A q \in Procs : q # p => loc'[q] = loc[q]
        BY <1>0, <1>4, <2>1 DEF TypeOK, Locals
    <2>3. TypeOK'
        BY <1>1, <1>2, <1>4, <2>2 DEF TypeOK, time
    <2>4. HeadsOK'
        BY <1>1, <1>2, <1>4 DEF HeadsOK
    <2>5. QueuesOK'
        BY <1>1 DEF QueuesOK, Allocated
    <2>6. RingOK'
        <3>1. \A e : Start(e)' = Start(e) /\ BufferEnd(e)' = BufferEnd(e)
            BY <1>1 DEF Start, BufferEnd
        <3>2. ASSUME NEW i \in DOMAIN used_queue
              PROVE  /\ used_queue[i] \in EntryAddrs
                     /\ Start(used_queue[i]) \in Int
                     /\ BufferEnd(used_queue[i]) \in Int
                     /\ Start(used_queue[i]) < BufferEnd(used_queue[i])
                     /\ Good(used_queue[i])
            <4>1. used_queue[i] \in EntryAddrs
                BY DEF TypeOK
            <4> QED
                BY <4>1, BufferIsNotEmpty DEF RingOK
        <3>3. used_queue = <<>> \/ buffers_write < buffers_read
            BY <1>4 DEF WriteBelowRead
        <3>4. ASSUME NEW i \in DOMAIN used_queue
              PROVE  /\ BufferEnd(used_queue[i]) <= buffers_read
                     /\ buffers_write <= Start(used_queue[i])
                     /\ Good(used_queue[i])'
            <4>1. buffers_write < buffers_read
                BY <3>3
            <4>2. /\ BufferEnd(used_queue[i]) <= buffers_read
                  /\ buffers_write <= Start(used_queue[i])
                BY <1>2, <3>2, <4>1 DEF Good
            <4>3. used_queue[i]' = used_queue[i] /\ buffers_read <= BuffersEnd
                BY <1>1 DEF HeadsOK
            <4> QED
                BY <1>1, <1>2, <1>4, <3>1, <3>2, <4>2, <4>3 DEF Good
        <3>5. ASSUME NEW i \in DOMAIN used_queue, NEW j \in DOMAIN used_queue, i < j
              PROVE  Older(used_queue[i], used_queue[j])'
            <4>1. Older(used_queue[i], used_queue[j])
                BY <3>5 DEF RingOK
            <4>2. BufferEnd(used_queue[j]) <= Start(used_queue[i])
                BY <1>2, <3>2, <3>3, <3>4, <4>1 DEF Older
            <4>3. Start(used_queue[i]) < BuffersEnd
                BY <1>2, <3>2 DEF Good
            <4> QED
                BY <1>1, <1>2, <1>4, <3>1, <3>2, <4>2, <4>3 DEF Older
        <3> QED
            BY <1>1, <3>4, <3>5 DEF RingOK
    <2>7. StoreOwner'
        BY <1>4 DEF StoreOwner
    <2>8. LocalsOK(p)'
        BY <1>0, <1>1, <1>4, <2>1, <2>2
        DEF LocalsOK, StorePcs, FreeOldestPcs, WritePcs, HasEntry, AllocatingBuffer
    <2>9. ASSUME NEW q \in Procs, q # p PROVE LocalsOK(q)'
        BY <2>9, <1>0, <1>4, <2>2, OtherLocals
    <2> QED
        BY <2>3, <2>4, <2>5, <2>6, <2>7, <2>8, <2>9
<1>5. CASE /\ CanFreeOldest(p, 0)
           /\ CallFreeOldest(p, "find_room")
           /\ UNCHANGED <<mutex, reset, buffers_start, buffers_write>>
    BY <1>0, <1>1, <1>5, CallFreeStep DEF sh
<1>6. CASE StoreError(p) /\ UNCHANGED <<buffers_start, buffers_write>>
    BY <1>0, <1>1, <1>6, ErrorStep
<1>7. CASE WriteBelowRead
    BY <1>2, <1>3, <1>4, <1>7 DEF find_room, Goto
<1>8. CASE ~WriteBelowRead
    <2>1. CASE b > buffers_read
        <3>1. b >= buffers_start
            BY <1>0, <1>2, <2>1 DEF HeadsOK
        <3> QED
            BY <1>0, <1>2, <1>3, <1>8, <2>1, <3>1 DEF find_room, Goto
    <2>2. CASE b <= buffers_read
        BY <1>0, <1>2, <1>5, <1>6, <1>8, <2>2 DEF find_room
    <2> QED
        BY <1>0, <1>2, <2>1, <2>2
<1> QED
    BY <1>7, <1>8

\* The new entry takes the room that was found below the write head.
LEMMA InitEntryStep ==
    ASSUME IInv, NEW p \in Procs, store_init_entry(p)
    PROVE  IInv'
<1> USE DEF IInv
<1> PICK b : b = loc[p].buffer_start
    OBVIOUS
<1> PICK n : n = loc[p].size
    OBVIOUS
<1> PICK x : x = loc[p].entry
    OBVIOUS
<1>0. /\ pc[p] = "init_entry" /\ mutex = p /\ loc[p] \in Locals
      /\ n >= 1 /\ n \in Int /\ b \in Int
      /\ free_queue # <<>> /\ x = Head(free_queue)
      /\ b + n <= buffers_write
      /\ buffers_start <= b
      /\ WriteBelowRead \/ b > buffers_read
    <2>1. pc[p] = "init_entry" /\ LocalsOK(p) /\ loc[p] \in Locals
        BY DEF store_init_entry, TypeOK
    <2>2. mutex = p
        BY <2>1 DEF StoreOwner, StorePcs
    <2>3. n \in Int /\ b \in Int
        BY <2>1 DEF Locals
    <2> QED
        BY <2>1, <2>2, <2>3 DEF LocalsOK, StorePcs, HasEntry, AllocatingBuffer
<1>1. /\ entry' = [entry EXCEPT ![x] = NewEntry(p)]
      /\ buffers_write' = b
      /\ free_queue' = Tail(free_queue)
      /\ used_queue' = Append(used_queue, x)
      /\ pc' = [pc EXCEPT ![p] = "commit"]
      /\ UNCHANGED <<mutex, reset, sh_access_time, rbtree, entries_end,
                     buffers_start, buffers_read, live, loc, time>>
    BY DEF store_init_entry, Goto
<1>2. /\ entries_end \in Int /\ buffers_start \in Int /\ buffers_read \in Int
      /\ buffers_write \in Int /\ BuffersEnd \in Int
    BY SizesAssumption DEF TypeOK
<1>3. /\ x \in EntryAddrs
      /\ x = free_queue[1]
      /\ 1 \in DOMAIN free_queue
      /\ free_queue' \in Seq(EntryAddrs)
      /\ \A i \in DOMAIN free_queue' :
            /\ i + 1 \in DOMAIN free_queue
            /\ free_queue'[i] = free_queue[i + 1]
            /\ i \in Nat /\ i >= 1
    BY <1>0, <1>1, TailFacts DEF TypeOK
<1>4. /\ used_queue' \in Seq(EntryAddrs)
      /\ DOMAIN used_queue' = 1 .. Len(used_queue) + 1
      /\ DOMAIN used_queue = 1 .. Len(used_queue)
      /\ \A i \in DOMAIN used_queue : used_queue'[i] = used_queue[i]
      /\ used_queue'[Len(used_queue) + 1] = x
      /\ Len(used_queue) \in Nat
    <2>1. used_queue \in Seq(EntryAddrs)
        BY DEF TypeOK
    <2>2. Len(used_queue) \in Nat
        BY <2>1
    <2> QED
        BY <1>1, <1>3, <2>1, <2>2, AppendFacts
<1>5. /\ NewEntry(p) \in Entry
      /\ NewEntry(p).start_offset = b
      /\ NewEntry(p).buffer_size = n - 1
    <2>1. n - 1 \in Nat /\ loc[p].key \in Keys \cup {None}
        BY <1>0 DEF Locals
    <2> QED
        BY <1>0, <2>1 DEF NewEntry, Entry
<1>6. /\ entry' \in [EntryAddrs -> Entry]
      /\ Start(x)' = b
      /\ BufferEnd(x)' = b + n
      /\ \A e \in EntryAddrs : e # x =>
            Start(e)' = Start(e) /\ BufferEnd(e)' = BufferEnd(e)
    <2>1. entry' \in [EntryAddrs -> Entry] /\ entry'[x] = NewEntry(p)
        BY <1>1, <1>3, <1>5 DEF TypeOK
    <2>2. \A e \in EntryAddrs : e # x => entry'[e] = entry[e]
        BY <1>1, <1>3 DEF TypeOK
    <2>3. Start(x)' = b
        BY <1>5, <2>1 DEF Start
    <2>4. BufferEnd(x)' = b + n
        BY <1>0, <1>5, <2>1 DEF BufferEnd
    <2>5. \A e \in EntryAddrs : e # x =>
            Start(e)' = Start(e) /\ BufferEnd(e)' = BufferEnd(e)
        BY <2>2 DEF Start, BufferEnd
    <2> QED
        BY <2>1, <2>3, <2>4, <2>5
<1>7. /\ pc' \in [Procs -> Pcs]
      /\ pc'[p] = "commit"
      /\ \A q \in Procs : q # p => pc'[q] = pc[q]
    BY <1>1 DEF TypeOK, Pcs, StorePcs
<1>8. TypeOK'
    BY <1>0, <1>1, <1>3, <1>4, <1>6, <1>7 DEF TypeOK, time
<1>9. HeadsOK'
    BY <1>0, <1>1, <1>2, SMTT(60) DEF HeadsOK
<1>10. QueuesOK'
    <2>1. \A i \in DOMAIN used_queue : used_queue[i] # x
        BY <1>3 DEF QueuesOK
    <2>2. Allocated(x)' /\ \A e : Allocated(e)' <=> Allocated(e)
        BY <1>1, <1>3 DEF QueuesOK, Allocated
    <2>3. \A i \in DOMAIN used_queue' :
            i \in DOMAIN used_queue \/ i = Len(used_queue) + 1
        BY <1>4
    <2>4. /\ \A i \in DOMAIN used_queue' : Allocated(used_queue'[i])
          /\ \A i, j \in DOMAIN used_queue' : used_queue'[i] = used_queue'[j] => i = j
        BY <1>3, <1>4, <2>1, <2>3 DEF QueuesOK
    <2>5. \A i \in DOMAIN free_queue' : free_queue'[i] # x
        BY <1>3 DEF QueuesOK
    <2>6. /\ \A i \in DOMAIN free_queue' : Allocated(free_queue'[i])
          /\ \A i, j \in DOMAIN free_queue' : free_queue'[i] = free_queue'[j] => i = j
        BY <1>3 DEF QueuesOK
    <2>7. \A i \in DOMAIN used_queue', j \in DOMAIN free_queue' :
            used_queue'[i] # free_queue'[j]
        BY <1>3, <1>4, <2>3, <2>5 DEF QueuesOK
    <2>8. (\A i \in DOMAIN used_queue : Allocated(used_queue[i]))'
        BY <2>2, <2>4
    <2>9. (\A i \in DOMAIN free_queue : Allocated(free_queue[i]))'
        BY <2>2, <2>6
    <2> QED
        BY <2>4, <2>6, <2>7, <2>8, <2>9 DEF QueuesOK
<1>11. RingOK'
    <2> DEFINE Empty == used_queue = <<>>
    <2>1. \/ buffers_write < buffers_read
          \/ b > buffers_read
          \/ Empty /\ buffers_write = buffers_read
        BY <1>0 DEF WriteBelowRead
    <2>2. buffers_write <= BuffersEnd
        BY DEF HeadsOK
    <2>3. UNCHANGED <<buffers_read, buffers_start>> /\ buffers_write' = b
        BY <1>1
    <2>4. Good(x)'
        BY SMTT(30), <1>0, <1>2, <1>6, <2>1, <2>2, <2>3 DEF Good
    <2>5. ASSUME NEW i \in DOMAIN used_queue
          PROVE  /\ used_queue[i] \in EntryAddrs
                 /\ used_queue[i] # x
                 /\ Start(used_queue[i]) \in Int
                 /\ BufferEnd(used_queue[i]) \in Int
                 /\ Start(used_queue[i]) < BufferEnd(used_queue[i])
                 /\ Good(used_queue[i])
        <3>1. used_queue[i] \in EntryAddrs /\ used_queue[i] # x
            BY <1>3 DEF TypeOK, QueuesOK
        <3> QED
            BY <3>1, BufferIsNotEmpty DEF RingOK
    <2>6. ASSUME NEW i \in DOMAIN used_queue
          PROVE  buffers_write < buffers_read \/ b > buffers_read
        BY <2>1
    <2>7. ASSUME NEW e \in EntryAddrs, \E i \in DOMAIN used_queue : e = used_queue[i]
          PROVE  Good(e)' /\ Older(e, x)'
        <3>1. PICK i \in DOMAIN used_queue : e = used_queue[i]
            BY <2>7
        <3>2. Start(e)' = Start(e) /\ BufferEnd(e)' = BufferEnd(e)
            BY <1>6, <2>5, <3>1
        <3>3. /\ Start(e) \in Int /\ BufferEnd(e) \in Int
              /\ Start(e) < BufferEnd(e) /\ Good(e)
            BY <2>5, <3>1
        <3>4. b + n <= Start(e) \/ (BufferEnd(e) <= buffers_read /\ b > buffers_read)
            <4>1. CASE buffers_write < buffers_read
                <5>1. buffers_write <= Start(e)
                    BY <3>3, <4>1 DEF Good
                <5>2. /\ b + n <= buffers_write /\ b + n \in Int
                      /\ buffers_write \in Int /\ Start(e) \in Int
                    BY <1>0, <1>2, <3>3
                <5> QED
                    BY <5>1, <5>2
            <4>2. CASE b > buffers_read
                <5>1. BufferEnd(e) <= buffers_read \/ buffers_write <= Start(e)
                    BY <3>3 DEF Good
                <5> QED
                    BY <1>0, <1>2, <3>3, <4>2, <5>1, SMTT(60)
            <4> QED
                BY <2>6, <3>1, <4>1, <4>2
        <3>5. Good(e)'
            <4>1. buffers_start' <= Start(e)' /\ BufferEnd(e)' <= BuffersEnd
                BY <2>3, <3>2, <3>3 DEF Good
            <4>2. CASE b + n <= Start(e)
                <5>1. b <= Start(e)
                    BY <1>0, <3>3, <4>2
                <5>2. BufferEnd(e) <= buffers_read \/ buffers_read <= b
                    BY <1>0, <1>2, <2>6, <3>1, <3>3 DEF Good
                <5> QED
                    BY <2>3, <3>2, <4>1, <5>1, <5>2 DEF Good
            <4>3. CASE BufferEnd(e) <= buffers_read /\ b > buffers_read
                BY <1>0, <1>2, <2>3, <3>2, <4>1, <4>3 DEF Good
            <4> QED
                BY <3>4, <4>2, <4>3
        <3>6. Older(e, x)'
            BY <1>0, <1>2, <1>6, <2>3, <3>2, <3>3, <3>4 DEF Older
        <3> QED
            BY <3>5, <3>6
    <2>8. ASSUME NEW d \in EntryAddrs, NEW e \in EntryAddrs, Older(d, e),
                 \E i \in DOMAIN used_queue : d = used_queue[i],
                 \E i \in DOMAIN used_queue : e = used_queue[i]
          PROVE  Older(d, e)'
        <3>1. /\ Start(d)' = Start(d) /\ BufferEnd(d)' = BufferEnd(d)
              /\ Start(e)' = Start(e) /\ BufferEnd(e)' = BufferEnd(e)
            BY <1>6, <2>5, <2>8
        <3>2. buffers_write < buffers_read \/ b > buffers_read
            BY <2>6, <2>8
        <3>3. /\ Good(d) /\ Good(e)
              /\ Start(d) \in Int /\ BufferEnd(d) \in Int /\ Start(d) < BufferEnd(d)
              /\ Start(e) \in Int /\ BufferEnd(e) \in Int /\ Start(e) < BufferEnd(e)
            BY <2>5, <2>8
        <3>4. b <= buffers_write
            BY <1>0, <1>2
        <3>5. \/ BufferEnd(e) <= Start(d) /\ (b <= Start(d) => b <= Start(e))
              \/ BufferEnd(d) <= buffers_read /\ b > buffers_read /\ b <= Start(e)
            <4>1. CASE buffers_write < buffers_read
                <5>1. BufferEnd(e) <= Start(d)
                    BY <1>2, <2>8, <4>1 DEF Older
                <5>2. buffers_write <= Start(e)
                    BY <3>3, <4>1 DEF Good
                <5> QED
                    BY <1>0, <1>2, <3>3, <3>4, <5>1, <5>2
            <4>2. CASE b > buffers_read
                BY <1>0, <1>2, <2>8, <3>3, <3>4, <4>2 DEF Good, Older
            <4> QED
                BY <3>2, <4>1, <4>2
        <3> QED
            BY <1>0, <1>2, <2>3, <3>1, <3>5 DEF Older
    <2>9. \A i \in DOMAIN used_queue' :
            i \in DOMAIN used_queue \/ i = Len(used_queue) + 1
        BY <1>4
    <2>10. (\A i \in DOMAIN used_queue : Good(used_queue[i]))'
        <3> SUFFICES ASSUME NEW i \in DOMAIN used_queue' PROVE Good(used_queue[i])'
            OBVIOUS
        <3>1. CASE i \in DOMAIN used_queue
            <4>1. used_queue[i]' = used_queue[i]
                BY <1>4, <3>1
            <4> QED
                BY <2>5, <2>7, <3>1, <4>1 DEF Good, Start, BufferEnd
        <3>2. CASE i = Len(used_queue) + 1
            BY <1>4, <2>4, <3>2 DEF Good, Start, BufferEnd
        <3> QED
            BY <2>9, <3>1, <3>2
    <2>11. (\A i, j \in DOMAIN used_queue : i < j => Older(used_queue[i], used_queue[j]))'
        <3> SUFFICES ASSUME NEW i \in DOMAIN used_queue', NEW j \in DOMAIN used_queue',
                            i < j
                     PROVE  Older(used_queue[i], used_queue[j])'
            OBVIOUS
        <3>1. i \in DOMAIN used_queue /\ used_queue[i]' = used_queue[i]
            BY <1>4, <2>9
        <3>2. CASE j \in DOMAIN used_queue
            <4>1. used_queue[j]' = used_queue[j]
                BY <1>4, <3>2
            <4>2. Older(used_queue[i], used_queue[j])
                BY <3>1, <3>2 DEF RingOK
            <4> QED
                BY <2>5, <2>8, <3>1, <3>2, <4>1, <4>2 DEF Older, Start, BufferEnd
        <3>3. CASE j = Len(used_queue) + 1
            <4>1. used_queue[j]' = x
                BY <1>4, <3>3
            <4> QED
                BY <2>5, <2>7, <3>1, <4>1 DEF Older, Start, BufferEnd
        <3> QED
            BY <2>9, <3>2, <3>3
    <2> QED
        BY <2>10, <2>11 DEF RingOK
<1>12. StoreOwner'
    BY <1>0, <1>1, <1>7 DEF StoreOwner
<1>13. ASSUME NEW q \in Procs PROVE LocalsOK(q)'
    <2>1. CASE q = p
        BY <2>1, <1>0, <1>1, <1>3, <1>7 DEF LocalsOK, StorePcs, FreeOldestPcs,
               WritePcs, HasEntry, AllocatingBuffer
    <2>2. CASE q # p
        BY <2>2, <1>0, <1>1, <1>7, OtherLocals
    <2> QED
        BY <2>1, <2>2
<1> QED
    BY <1>8, <1>9, <1>10, <1>11, <1>12, <1>13

-----------------------------------------------------------------------------
(* Theorems *)

\* Every step keeps the invariant.
LEMMA NextIInv == IInv /\ [Next]_vars => IInv'
<1> SUFFICES ASSUME IInv, [Next]_vars PROVE IInv'
    OBVIOUS
<1>1. ASSUME NEW p \in Procs, NEW k \in Keys, NEW n \in Sizes, store_begin(p, k, n)
      PROVE  IInv'
    BY <1>1, BeginStep
<1>2. ASSUME NEW p \in Procs, store_step(p) PROVE IInv'
    BY <1>2, UnlinkStep, DequeueStep, AccountStep, DecideSteps, GetFreeEntryStep,
       FindRoomStep, InitEntryStep, CommitStep, WriteSteps
    DEF store_step
<1>3. ASSUME NEW p \in Procs, (\E k \in Keys : fetch(p, k)) \/ release(p) PROVE IInv'
    BY <1>3, FetchSteps
<1>4. ASSUME NEW p \in Procs, abandon(p) \/ crash(p) PROVE IInv'
    BY <1>4, IdleSteps
<1>5. ASSUME \/ tick \/ reset_stats \/ UNCHANGED vars
             \/ \E p \in Procs : refresh_time(p) \/ store_refused(p)
      PROVE  IInv'
    BY <1>5, QuietSteps
<1> QED
    BY <1>1, <1>2, <1>3, <1>4, <1>5 DEF Next

\* The inductive invariant holds in every reachable state, for every number of
\* workers, every zone, every sequence of sizes and any number of kills.
THEOREM Invariance == Spec => []IInv
    BY InitIInv, NextIInv, PTL DEF Spec

\* The state of the cache is well typed: no queue, tree or local variable ever
\* names something that is not an entry of the zone.
THEOREM TypeCorrect == Spec => []TypeOK
<1>1. IInv => TypeOK
    BY DEF IInv
<1> QED
    BY <1>1, Invariance, PTL

\* get_free_buffer and free_oldest_entry never hand out bytes of a buffer that is
\* in use, nor bytes of the entries array.
THEOREM NoOverlap == Spec => []BuffersDisjoint
<1>1. IInv => BuffersDisjoint
    <2> SUFFICES ASSUME IInv PROVE BuffersDisjoint
        OBVIOUS
    <2> USE DEF IInv
    <2>1. ASSUME NEW i \in DOMAIN used_queue
          PROVE  /\ Good(used_queue[i])
                 /\ Start(used_queue[i]) \in Int
                 /\ BufferEnd(used_queue[i]) \in Int
                 /\ Start(used_queue[i]) = entry[used_queue[i]].start_offset
        <3>1. used_queue[i] \in EntryAddrs
            BY DEF TypeOK
        <3> QED
            BY <3>1, BufferIsNotEmpty DEF RingOK, Start
    <2>2. entries_end <= buffers_start
        BY DEF HeadsOK
    <2>3. \A i \in DOMAIN used_queue :
            /\ buffers_start <= entry[used_queue[i]].start_offset
            /\ BufferEnd(used_queue[i]) <= BuffersEnd
        BY <2>1 DEF Good
    <2>4. ASSUME NEW i \in DOMAIN used_queue, NEW j \in DOMAIN used_queue, i < j
          PROVE  \/ BufferEnd(used_queue[i]) <= entry[used_queue[j]].start_offset
                 \/ BufferEnd(used_queue[j]) <= entry[used_queue[i]].start_offset
        <3>1. Older(used_queue[i], used_queue[j])
            BY <2>4 DEF RingOK
        <3>2. buffers_read \in Int /\ buffers_write \in Int
            BY DEF TypeOK
        <3> QED
            BY <2>1, <3>1, <3>2 DEF Older
    <2> QED
        BY <2>2, <2>3, <2>4 DEF BuffersDisjoint
<1> QED
    BY <1>1, Invariance, PTL
=============================================================================
