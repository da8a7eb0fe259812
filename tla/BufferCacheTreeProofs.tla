------------------------ MODULE BufferCacheTreeProofs ------------------------
(***************************************************************************)
(* Proofs about BufferCache that build on BufferCacheProofs: the tree, the *)
(* queues, the entries array and the statistics agree whenever the cache   *)
(* is usable, and a store that fits gives up only when the oldest entry is *)
(* locked.                                                                 *)
(*                                                                         *)
(* StructuresAgree speaks of states in which nobody holds the mutex.  Its  *)
(* inductive form says how far from agreement the structures are at every  *)
(* step of the critical section (AgreeAt), which needs to know what is in  *)
(* the tree and that the reset flag is on from the step that finds the key *)
(* missing to the commit (TInv).                                           *)
(***************************************************************************)
EXTENDS BufferCacheProofs, FiniteSetTheorems

-----------------------------------------------------------------------------
(* The tree *)

\* The store of p has raised the reset flag: it found its key missing, or it
\* follows a reset.
Storing(p) ==
    \/ pc[p] \in {"get_free_entry", "get_free_buffer", "find_room", "init_entry", "commit"}
    \/ pc[p] \in FreeOldestPcs /\ loc[p].caller # "expire"

\* Only used entries are linked, and under a key that no other one has.
LinkedUsed == rbtree \subseteq Elems(used_queue)
KeysUnique ==
    /\ \A e \in rbtree : entry[e].key \in Keys
    /\ \A d, e \in rbtree : entry[d].key = entry[e].key => d = e

\* The entry that init_entry filled and commit will link.
CommitOK(p) ==
    /\ loc[p].entry \in Elems(used_queue)
    /\ loc[p].entry \notin rbtree
    /\ entry[loc[p].entry].key = loc[p].key
    /\ entry[loc[p].entry].start_offset = loc[p].buffer_start
    /\ entry[loc[p].entry].buffer_size = loc[p].size - 1

\* What the process in the critical section knows of the tree.
StoreOK(p) ==
    /\ mutex = p => pc[p] \in StorePcs
    /\ pc[p] \in StorePcs => loc[p].key \in Keys /\ (reset <=> Storing(p))
    /\ pc[p] \in {"free_dequeue", "free_account"} => loc[p].victim \notin rbtree
    /\ Storing(p) => \A e \in rbtree : entry[e].key # loc[p].key
    /\ pc[p] = "commit" => CommitOK(p)

TInv ==
    /\ LinkedUsed
    /\ KeysUnique
    /\ \A p \in Procs : StoreOK(p)

-----------------------------------------------------------------------------
(* Lemmas about queues *)

\* The head of a queue without repetitions is what Tail removes.
LEMMA ElemsTail ==
    ASSUME NEW S, NEW q \in Seq(S), q # <<>>
    PROVE  /\ Elems(q) = Elems(Tail(q)) \cup {Head(q)}
           /\ (\A i, j \in DOMAIN q : q[i] = q[j] => i = j)
                => Head(q) \notin Elems(Tail(q))
<1>1. /\ Head(q) = q[1] /\ 1 \in DOMAIN q /\ Len(q) \in Nat /\ Tail(q) \in Seq(S)
      /\ \A i \in DOMAIN Tail(q) : i + 1 \in DOMAIN q /\ Tail(q)[i] = q[i + 1]
      /\ DOMAIN Tail(q) = 1 .. (Len(q) - 1) /\ DOMAIN q = 1 .. Len(q)
    BY TailFacts
<1>2. ASSUME NEW x \in Elems(q), x # Head(q) PROVE x \in Elems(Tail(q))
    <2>1. PICK i \in DOMAIN q : x = q[i]
        BY DEF Elems
    <2>2. i # 1 /\ i \in 1 .. Len(q)
        BY <1>1, <1>2, <2>1
    <2>3. i - 1 \in DOMAIN Tail(q)
        BY <1>1, <2>2
    <2>4. Tail(q)[i - 1] = x
        BY <1>1, <2>1, <2>2, <2>3
    <2> QED
        BY <2>3, <2>4 DEF Elems
<1>3. Elems(Tail(q)) \subseteq Elems(q) /\ Head(q) \in Elems(q)
    BY <1>1 DEF Elems
<1>4. ASSUME \A i, j \in DOMAIN q : q[i] = q[j] => i = j, Head(q) \in Elems(Tail(q))
      PROVE  FALSE
    <2>1. PICK i \in DOMAIN Tail(q) : Head(q) = Tail(q)[i]
        BY <1>4 DEF Elems
    <2>2. i + 1 = 1 /\ i \in 1 .. (Len(q) - 1)
        BY <1>1, <1>4, <2>1
    <2> QED
        BY <2>2
<1> QED
    BY <1>2, <1>3, <1>4

\* Append adds one element.
LEMMA ElemsAppend ==
    ASSUME NEW S, NEW q \in Seq(S), NEW x \in S
    PROVE  Elems(Append(q, x)) = Elems(q) \cup {x}
<1>1. /\ DOMAIN Append(q, x) = 1 .. Len(q) + 1 /\ DOMAIN q = 1 .. Len(q)
      /\ Len(q) \in Nat
      /\ \A i \in DOMAIN q : Append(q, x)[i] = q[i]
      /\ Append(q, x)[Len(q) + 1] = x
    BY AppendFacts
<1>2. \A i \in DOMAIN Append(q, x) : i \in DOMAIN q \/ i = Len(q) + 1
    BY <1>1
<1>3. (Len(q) + 1) \in DOMAIN Append(q, x) /\ DOMAIN q \subseteq DOMAIN Append(q, x)
    BY <1>1
<1>4. ASSUME NEW y \in Elems(Append(q, x)) PROVE y \in Elems(q) \cup {x}
    BY <1>1, <1>2 DEF Elems
<1>5. ASSUME NEW y \in Elems(q) \cup {x} PROVE y \in Elems(Append(q, x))
    <2>1. CASE y = x
        BY <1>1, <1>3, <2>1 DEF Elems
    <2>2. CASE y \in Elems(q)
        <3>1. PICK i \in DOMAIN q : y = q[i]
            BY <2>2 DEF Elems
        <3>2. i \in DOMAIN Append(q, x) /\ Append(q, x)[i] = y
            BY <1>1, <1>3, <3>1
        <3> QED
            BY <3>2 DEF Elems
    <2> QED
        BY <2>1, <2>2
<1> QED
    BY <1>4, <1>5

\* A queue without repetitions has as many elements as its length.
LEMMA ElemsCount ==
    ASSUME NEW S, NEW q \in Seq(S), \A i, j \in DOMAIN q : q[i] = q[j] => i = j
    PROVE  Cardinality(Elems(q)) = Len(q)
<1>1. Len(q) \in Nat /\ DOMAIN q = 1 .. Len(q) /\ q = [i \in 1 .. Len(q) |-> q[i]]
    OBVIOUS
<1>2. q \in [1 .. Len(q) -> Elems(q)]
    BY <1>1 DEF Elems
<1>3. \A y \in Elems(q) : \E i \in 1 .. Len(q) : q[i] = y
    BY <1>1 DEF Elems
<1>4. q \in Bijection(1 .. Len(q), Elems(q))
    BY <1>1, <1>2, <1>3 DEF Bijection, Injection, Surjection, IsInjective
<1>5. ExistsBijection(1 .. Len(q), Elems(q))
    BY <1>4 DEF ExistsBijection
<1> QED
    BY <1>1, <1>5, FS_CountingElements

-----------------------------------------------------------------------------
(* What the steps outside the critical section do to the entries *)

\* The fields that name an entry and place its buffer.
SameNames ==
    \A e \in EntryAddrs : /\ entry'[e].key = entry[e].key
                          /\ entry'[e].start_offset = entry[e].start_offset
                          /\ entry'[e].buffer_size = entry[e].buffer_size

\* The others do not move.
OthersStay(p) == \A q \in Procs : q # p => pc'[q] = pc[q] /\ loc'[q] = loc[q]

\* The copy changes the data of the buffers it overlaps.
LEMMA CopyFacts ==
    ASSUME IInv, NEW p \in Procs, store_copy(p)
    PROVE  /\ pc[p] = "copy" /\ pc'[p] = "set_ready" /\ loc' = loc
           /\ OthersStay(p) /\ UNCHANGED <<mutex, sh, time>>
           /\ SameNames
           /\ \A e \in EntryAddrs :
                /\ entry'[e].state = entry[e].state
                /\ entry'[e].ref_count = entry[e].ref_count
                /\ entry'[e].access_time = entry[e].access_time
                /\ entry'[e].write_time = entry[e].write_time
                /\ entry'[e].data =
                        IF Overlaps(e, loc[p].buffer_start, loc[p].size)
                        THEN IF entry[e].start_offset = loc[p].buffer_start
                             THEN loc[p].key ELSE None
                        ELSE entry[e].data
<1>1. \A e \in EntryAddrs : entry[e] \in Entry
    BY DEF IInv, TypeOK
<1>2. /\ pc[p] = "copy" /\ pc'[p] = "set_ready" /\ loc' = loc
      /\ OthersStay(p) /\ UNCHANGED <<mutex, sh, time>>
    BY DEF store_copy, Goto, OthersStay, IInv, TypeOK
<1>3. ASSUME NEW e \in EntryAddrs,
             Overlaps(e, loc[p].buffer_start, loc[p].size)
      PROVE  entry'[e] = [entry[e] EXCEPT !.data =
                            IF entry[e].start_offset = loc[p].buffer_start
                            THEN loc[p].key ELSE None]
    BY <1>3 DEF store_copy
<1>4. ASSUME NEW e \in EntryAddrs,
             ~Overlaps(e, loc[p].buffer_start, loc[p].size)
      PROVE  entry'[e] = entry[e]
    BY <1>4 DEF store_copy
<1> QED
    BY <1>1, <1>2, <1>3, <1>4 DEF Entry, SameNames

\* Marking the entry ready.
LEMMA ReadyFacts ==
    ASSUME IInv, NEW p \in Procs, store_set_ready(p)
    PROVE  /\ pc[p] = "set_ready" /\ pc'[p] = "unref" /\ loc' = loc
           /\ OthersStay(p) /\ UNCHANGED <<mutex, sh, time>>
           /\ SameNames
           /\ \A e \in EntryAddrs :
                /\ entry'[e].state = IF e = loc[p].entry THEN "READY" ELSE entry[e].state
                /\ entry'[e].ref_count = entry[e].ref_count
                /\ entry'[e].access_time = entry[e].access_time
                /\ entry'[e].data = entry[e].data
<1>1. \A e \in EntryAddrs : entry[e] \in Entry
    BY DEF IInv, TypeOK
<1>2. /\ pc[p] = "set_ready" /\ pc'[p] = "unref" /\ loc' = loc
      /\ OthersStay(p) /\ UNCHANGED <<mutex, sh, time>>
    BY DEF store_set_ready, Goto, OthersStay, IInv, TypeOK
<1>3. /\ entry \in [EntryAddrs -> Entry]
      /\ entry' = [entry EXCEPT ![loc[p].entry].state = "READY"]
    BY DEF store_set_ready, IInv, TypeOK
<1> QED
    BY <1>1, <1>2, <1>3 DEF Entry, SameNames

\* Dropping the reference of the store.
LEMMA UnrefFacts ==
    ASSUME IInv, NEW p \in Procs, store_unref(p)
    PROVE  /\ pc[p] = "unref" /\ pc'[p] = "idle"
           /\ OthersStay(p) /\ UNCHANGED <<mutex, sh, time>>
           /\ SameNames
           /\ \A e \in EntryAddrs :
                /\ entry'[e].state = entry[e].state
                /\ entry'[e].ref_count =
                        IF e = loc[p].entry THEN entry[e].ref_count - 1
                        ELSE entry[e].ref_count
                /\ entry'[e].access_time = entry[e].access_time
                /\ entry'[e].data = entry[e].data
<1>1. \A e \in EntryAddrs : entry[e] \in Entry
    BY DEF IInv, TypeOK
<1>2. /\ pc[p] = "unref" /\ pc'[p] = "idle"
      /\ OthersStay(p) /\ UNCHANGED <<mutex, sh, time>>
    BY DEF store_unref, Goto, OthersStay, IInv, TypeOK
<1>3. /\ entry \in [EntryAddrs -> Entry]
      /\ entry' = [entry EXCEPT ![loc[p].entry].ref_count = @ - 1]
    BY DEF store_unref, IInv, TypeOK
<1> QED
    BY <1>1, <1>2, <1>3 DEF Entry, SameNames

\* A hit.
LEMMA FetchFacts ==
    ASSUME IInv, NEW p \in Procs, NEW k \in Keys, fetch(p, k)
    PROVE  \E x \in rbtree :
           /\ pc[p] = "idle" /\ mutex = None /\ ~reset
           /\ entry[x].key = k /\ entry[x].state = "READY"
           /\ pc'[p] = "hold"
           /\ loc'[p].key = k /\ loc'[p].entry = x
           /\ loc'[p].buffer_start = entry[x].start_offset
           /\ loc'[p].size = entry[x].buffer_size + 1
           /\ OthersStay(p)
           /\ sh_access_time' = now[p]
           /\ UNCHANGED <<mutex, reset, rbtree, used_queue, free_queue, entries_end,
                          buffers_start, buffers_read, buffers_write, live, time>>
           /\ SameNames
           /\ \A e \in EntryAddrs :
                /\ entry'[e].state = entry[e].state
                /\ entry'[e].ref_count =
                        IF e = x THEN entry[e].ref_count + 1 ELSE entry[e].ref_count
                /\ entry'[e].access_time =
                        IF e = x THEN now[p] ELSE entry[e].access_time
                /\ entry'[e].data = entry[e].data
<1>1. \A e \in EntryAddrs : entry[e] \in Entry
    BY DEF IInv, TypeOK
<1>2. PICK x \in rbtree_lookup(k) :
        /\ entry[x].state = "READY"
        /\ entry' = [entry EXCEPT ![x].access_time = now[p], ![x].ref_count = @ + 1]
        /\ loc' = [loc EXCEPT ![p] = [NoLocals EXCEPT
                        !.key = k, !.entry = x,
                        !.buffer_start = entry[x].start_offset,
                        !.size = entry[x].buffer_size + 1,
                        !.token = entry[x].write_time]]
    BY DEF fetch
<1>3. x \in rbtree /\ x \in EntryAddrs /\ entry[x].key = k
    BY DEF rbtree_lookup, IInv, TypeOK
<1>4. /\ pc[p] = "idle" /\ mutex = None /\ ~reset /\ pc'[p] = "hold"
      /\ \A q \in Procs : q # p => pc'[q] = pc[q]
      /\ sh_access_time' = now[p]
      /\ UNCHANGED <<mutex, reset, rbtree, used_queue, free_queue, entries_end,
                     buffers_start, buffers_read, buffers_write, live, time>>
    BY DEF fetch, Goto, IInv, TypeOK
<1>5. \A q \in Procs : q # p => loc'[q] = loc[q]
    BY <1>2 DEF IInv, TypeOK
<1>6. /\ loc'[p].key = k /\ loc'[p].entry = x
      /\ loc'[p].buffer_start = entry[x].start_offset
      /\ loc'[p].size = entry[x].buffer_size + 1
    <2>1. loc'[p] = [NoLocals EXCEPT !.key = k, !.entry = x,
                        !.buffer_start = entry[x].start_offset,
                        !.size = entry[x].buffer_size + 1,
                        !.token = entry[x].write_time]
        BY <1>2 DEF IInv, TypeOK
    <2> QED
        BY <2>1 DEF NoLocals
<1>7. entry \in [EntryAddrs -> Entry]
    BY DEF IInv, TypeOK
<1>8. /\ SameNames
      /\ \A e \in EntryAddrs :
            /\ entry'[e].state = entry[e].state
            /\ entry'[e].ref_count =
                    IF e = x THEN entry[e].ref_count + 1 ELSE entry[e].ref_count
            /\ entry'[e].access_time =
                    IF e = x THEN now[p] ELSE entry[e].access_time
            /\ entry'[e].data = entry[e].data
    BY <1>1, <1>2, <1>3, <1>7 DEF Entry, SameNames
<1> QED
    BY <1>2, <1>3, <1>4, <1>5, <1>6, <1>8 DEF OthersStay

\* The entries whose count a release lowers are linked under its key.
LEMMA ReleaseFacts ==
    ASSUME IInv, NEW p \in Procs, release(p)
    PROVE  /\ pc[p] = "hold" /\ mutex = None /\ pc'[p] = "idle"
           /\ OthersStay(p) /\ UNCHANGED <<mutex, sh, time>>
           /\ SameNames
           /\ \A e \in EntryAddrs :
                /\ entry'[e].state = entry[e].state
                /\ entry'[e].access_time = entry[e].access_time
                /\ entry'[e].data = entry[e].data
                /\ \/ entry'[e].ref_count = entry[e].ref_count
                   \/ /\ e \in rbtree
                      /\ entry[e].key = loc[p].key
                      /\ entry'[e].ref_count = entry[e].ref_count - 1
<1>1. \A e \in EntryAddrs : entry[e] \in Entry
    BY DEF IInv, TypeOK
<1>2. /\ pc[p] = "hold" /\ mutex = None /\ pc'[p] = "idle"
      /\ OthersStay(p) /\ UNCHANGED <<mutex, sh, time>>
    BY DEF release, Goto, OthersStay, IInv, TypeOK
<1>3. ASSUME NEW e \in EntryAddrs
      PROVE  \/ entry'[e] = entry[e]
             \/ /\ e \in rbtree
                /\ entry[e].key = loc[p].key
                /\ entry'[e] = [entry[e] EXCEPT !.ref_count = @ - 1]
    BY DEF release, rbtree_lookup
<1> QED
    BY <1>1, <1>2, <1>3 DEF Entry, SameNames

-----------------------------------------------------------------------------
(* The invariant of the tree *)

\* A step that neither links, queues nor renames an entry.
SameTree ==
    /\ UNCHANGED <<rbtree, used_queue>>
    /\ \A e \in rbtree : entry'[e].key = entry[e].key

\* The tree facts only depend on the structures they are about.
LEMMA TreeFrame ==
    ASSUME LinkedUsed, KeysUnique, SameTree
    PROVE  LinkedUsed' /\ KeysUnique'
    BY DEF LinkedUsed, KeysUnique, SameTree

\* What the owner of the critical section knows is not disturbed by a step of
\* another process.
LEMMA StoreFrame ==
    ASSUME IInv, NEW q \in Procs, StoreOK(q), SameTree, SameNames, reset' = reset,
           pc'[q] = pc[q], loc'[q] = loc[q], mutex' = mutex \/ mutex' = None
    PROVE  StoreOK(q)'
<1>1. rbtree' = rbtree /\ used_queue' = used_queue /\ Elems(used_queue)' = Elems(used_queue)
    BY DEF SameTree, Elems
<1>2. \A e \in rbtree : entry'[e].key = entry[e].key
    BY DEF SameTree
<1>3. Storing(q)' <=> Storing(q)
    BY DEF Storing
<1>4. ASSUME pc[q] = "commit" PROVE CommitOK(q)'
    <2>1. loc[q].entry \in EntryAddrs /\ CommitOK(q)
        BY <1>4 DEF IInv, LocalsOK, StoreOK
    <2> QED
        BY <1>1, <2>1 DEF CommitOK, SameNames
<1>5. mutex' = q => mutex = q
    BY ProcsAssumption
<1> QED
    BY <1>1, <1>2, <1>3, <1>4, <1>5 DEF StoreOK

\* A process outside the critical section knows nothing.
LEMMA OutsideStore ==
    ASSUME NEW q \in Procs, pc'[q] \notin StorePcs, mutex' # q
    PROVE  StoreOK(q)'
    BY DEF StoreOK, Storing, StorePcs, FreeOldestPcs

\* While p may enter or is in the critical section, the others are outside.
LEMMA OtherStores ==
    ASSUME StoreOwner, NEW p \in Procs, mutex = p \/ mutex = None, mutex' \in {p, None},
           NEW q \in Procs, q # p, pc'[q] = pc[q]
    PROVE  StoreOK(q)'
<1>1. pc'[q] \notin StorePcs /\ mutex' # q
    BY ProcsAssumption DEF StoreOwner
<1> QED
    BY <1>1, OutsideStore

\* The first state.
LEMMA InitTInv == Init => TInv
<1> SUFFICES ASSUME Init PROVE TInv
    OBVIOUS
<1>1. rbtree = {} /\ used_queue = <<>>
    BY DEF Init
<1>2. ASSUME NEW p \in Procs PROVE StoreOK(p)
    BY ProcsAssumption DEF Init, StoreOK, Storing, StorePcs, FreeOldestPcs
<1> QED
    BY <1>1, <1>2 DEF TInv, LinkedUsed, KeysUnique

\* The steps of a process that is outside the critical section or leaves it.
LEMMA OutsideTInv ==
    ASSUME IInv, TInv, NEW p \in Procs,
           \/ store_copy(p) \/ store_set_ready(p) \/ store_unref(p)
           \/ (\E k \in Keys : fetch(p, k)) \/ release(p) \/ abandon(p) \/ crash(p)
    PROVE  TInv'
<1>1. /\ UNCHANGED <<rbtree, used_queue, reset>> /\ SameNames /\ OthersStay(p)
      /\ pc'[p] \notin StorePcs
      /\ mutex' = mutex \/ mutex' = None
      /\ mutex' # p
    <2>0. \A x : x \in {"set_ready", "unref", "idle", "hold"} => x \notin StorePcs
        BY DEF StorePcs, FreeOldestPcs
    <2>00. pc[p] \notin StorePcs => mutex # p
        BY DEF TInv, StoreOK
    <2>01. \A x : x \in {"copy", "set_ready", "unref", "idle", "hold"} => x \notin StorePcs
        BY DEF StorePcs, FreeOldestPcs
    <2>1. CASE store_copy(p)
        BY <2>0, <2>00, <2>01, <2>1, CopyFacts DEF sh
    <2>2. CASE store_set_ready(p)
        BY <2>0, <2>00, <2>01, <2>2, ReadyFacts DEF sh
    <2>3. CASE store_unref(p)
        BY <2>0, <2>00, <2>01, <2>3, UnrefFacts DEF sh
    <2>4. ASSUME NEW k \in Keys, fetch(p, k) PROVE <1>1!:
        BY <2>0, <2>00, <2>01, <2>4, FetchFacts, ProcsAssumption
    <2>5. CASE release(p)
        BY <2>0, <2>00, <2>01, <2>5, ReleaseFacts DEF sh
    <2>6. CASE abandon(p) \/ crash(p)
        <3>1. /\ UNCHANGED <<sh, entry>>
              /\ pc' = [pc EXCEPT ![p] = "idle"] /\ loc' = [loc EXCEPT ![p] = NoLocals]
            BY <2>6 DEF abandon, crash, Goto
        <3>2. /\ UNCHANGED <<rbtree, used_queue, reset>> /\ SameNames
            BY <3>1 DEF sh, SameNames
        <3>3. OthersStay(p) /\ pc'[p] \notin StorePcs
            BY <3>1, <2>0 DEF OthersStay, IInv, TypeOK
        <3>4. (mutex' = mutex \/ mutex' = None) /\ mutex' # p
            BY <2>6, <2>00, <2>01, ProcsAssumption DEF abandon, crash
        <3> QED
            BY <3>2, <3>3, <3>4
    <2> QED
        BY <2>1, <2>2, <2>3, <2>4, <2>5, <2>6
<1>2. SameTree
    BY <1>1 DEF SameTree, SameNames, IInv, TypeOK
<1>3. ASSUME NEW q \in Procs PROVE StoreOK(q)'
    <2>1. CASE q = p
        BY <1>1, <2>1, OutsideStore
    <2>2. CASE q # p
        <3>1. pc'[q] = pc[q] /\ loc'[q] = loc[q]
            BY <1>1, <2>2 DEF OthersStay
        <3> QED
            BY <1>1, <1>2, <3>1, StoreFrame DEF TInv
    <2> QED
        BY <2>1, <2>2
<1> QED
    BY <1>2, <1>3, TreeFrame DEF TInv

\* Time and statistics.
LEMMA QuietTInv ==
    ASSUME IInv, TInv,
           \/ tick \/ reset_stats \/ UNCHANGED vars
           \/ \E p \in Procs : refresh_time(p) \/ store_refused(p)
    PROVE  TInv'
<1>1. UNCHANGED <<mutex, reset, rbtree, used_queue, entry, pc, loc>>
    BY DEF tick, reset_stats, refresh_time, store_refused, vars, sh
<1>2. SameTree /\ SameNames
    BY <1>1 DEF SameTree, SameNames
<1>3. \A q \in Procs : StoreOK(q)'
    BY <1>1, <1>2, StoreFrame DEF TInv
<1> QED
    BY <1>2, <1>3, TreeFrame DEF TInv

\* The mutex is taken; after a kill the cache is emptied.
LEMMA BeginTInv ==
    ASSUME IInv, TInv, NEW p \in Procs, NEW k \in Keys, NEW n \in Sizes,
           store_begin(p, k, n)
    PROVE  TInv'
<1>1. /\ mutex = None /\ mutex' = p /\ loc'[p].key = k /\ OthersStay(p)
    BY DEF store_begin, Goto, OthersStay, NoLocals, IInv, TypeOK
<1>2. \A q \in Procs : q # p => StoreOK(q)'
    BY <1>1, OtherStores DEF OthersStay, IInv
<1>3. CASE ~reset
    <2>1. UNCHANGED <<sh, entry>> /\ pc'[p] \in {"lookup", "expire"}
        BY <1>3 DEF store_begin, Goto, IInv, TypeOK
    <2>2. SameTree
        BY <2>1 DEF SameTree, sh
    <2>3. ~reset'
        BY <1>3, <2>1 DEF sh
    <2>4. StoreOK(p)'
        BY <1>1, <2>1, <2>3 DEF StoreOK, Storing, StorePcs, FreeOldestPcs
    <2> QED
        BY <1>2, <2>2, <2>4, TreeFrame DEF TInv
<1>4. CASE reset
    <2>1. rbtree' = {} /\ reset' = reset /\ pc'[p] = "get_free_entry"
        BY <1>4 DEF store_begin, cache_reset, Goto, IInv, TypeOK
    <2>2. LinkedUsed' /\ KeysUnique'
        BY <2>1 DEF LinkedUsed, KeysUnique
    <2>3. StoreOK(p)'
        BY <1>1, <1>4, <2>1 DEF StoreOK, Storing, StorePcs, FreeOldestPcs
    <2> QED
        BY <1>2, <2>2, <2>3 DEF TInv
<1> QED
    BY <1>3, <1>4

\* The steps of the critical section that only decide what comes next.
Deciding(p) ==
    \/ store_expire(p) \/ store_lookup(p) \/ get_free_entry(p)
    \/ get_free_buffer(p) \/ find_room(p)

\* Where they lead: out of the operation, into free_oldest_entry, or on.
Leaves(p) == pc'[p] = "idle" /\ mutex' = None /\ ~reset'
Frees(p) ==
    /\ pc'[p] = "free_unlink" /\ mutex' = mutex /\ reset' = reset
    /\ used_queue # <<>> /\ ~EntryLocked(p, Head(used_queue))
    /\ loc'[p].victim = Head(used_queue) /\ loc'[p].key = loc[p].key
    /\ loc'[p].caller = pc[p] /\ pc[p] \in {"expire", "get_free_entry", "find_room"}
Proceeds(p) ==
    /\ pc'[p] \in {"lookup", "get_free_entry", "get_free_buffer", "find_room", "init_entry"}
    /\ mutex' = mutex
    /\ loc'[p].key = loc[p].key
    /\ pc[p] = "expire" => pc'[p] = "lookup" /\ reset' = reset
    /\ pc[p] = "lookup" =>
            pc'[p] = "get_free_entry" /\ reset' = TRUE /\ rbtree_lookup(loc[p].key) = {}
    /\ pc[p] \notin {"expire", "lookup"} => pc'[p] # "lookup" /\ reset' = reset

\* What a step of a store may do before it takes its entry: leave, free an entry, go on.
LEMMA DecidingFacts ==
    ASSUME IInv, TInv, NEW p \in Procs, Deciding(p)
    PROVE  /\ pc[p] \in {"expire", "lookup", "get_free_entry", "get_free_buffer", "find_room"}
           /\ mutex = p
           /\ OthersStay(p)
           /\ UNCHANGED <<sh_access_time, rbtree, used_queue, buffers_read, live, time>>
           /\ \A e \in EntryAddrs : e # entries_end => entry'[e] = entry[e]
           /\ Leaves(p) \/ Frees(p) \/ Proceeds(p)
<1> USE DEF IInv, Goto
<1>0. pc \in [Procs -> Pcs] /\ loc \in [Procs -> Locals] /\ entry \in [EntryAddrs -> Entry]
    BY DEF TypeOK
<1>00. /\ loc[p] \in Locals
       /\ pc[p] \in {"expire", "lookup"} => ~reset
       /\ pc[p] \in StorePcs => mutex = p
    BY DEF TypeOK, TInv, StoreOK, Storing, StoreOwner, StorePcs, FreeOldestPcs
<1>1. CASE store_expire(p)
    <2>1. pc[p] = "expire" /\ UNCHANGED <<mutex, sh, entry, time>>
        BY <1>1 DEF store_expire
    <2>2. CASE EvictMore(p)
        <3>1. /\ pc' = [pc EXCEPT ![p] = "free_unlink"]
              /\ loc' = [loc EXCEPT ![p].caller = "expire",
                                   ![p].victim = Head(used_queue),
                                   ![p].evictions = @ - 1]
            BY <1>1, <2>2 DEF store_expire
        <3>2. used_queue # <<>> /\ ~EntryLocked(p, Head(used_queue))
            BY <2>2 DEF EvictMore, CanFreeOldest
        <3>3. /\ pc'[p] = "free_unlink" /\ loc'[p].victim = Head(used_queue)
              /\ loc'[p].key = loc[p].key /\ loc'[p].caller = "expire" /\ OthersStay(p)
            BY <1>0, <1>00, <3>1 DEF OthersStay, Locals
        <3>4. Frees(p)
            BY <2>1, <3>2, <3>3 DEF Frees, sh
        <3> QED
            BY <1>00, <2>1, <3>3, <3>4 DEF sh, StorePcs
    <2>3. CASE ~EvictMore(p)
        <3>1. pc' = [pc EXCEPT ![p] = "lookup"] /\ loc' = loc
            BY <1>1, <2>3 DEF store_expire
        <3>2. Proceeds(p) /\ OthersStay(p)
            BY <1>0, <2>1, <3>1 DEF Proceeds, OthersStay, sh
        <3> QED
            BY <1>00, <2>1, <3>2 DEF sh, StorePcs
    <2> QED
        BY <2>2, <2>3
<1>2. CASE store_lookup(p)
    <2>1. /\ pc[p] = "lookup" /\ mutex = p
          /\ UNCHANGED <<sh_access_time, rbtree, used_queue, buffers_read, live, entry, time>>
        BY <1>2, <1>00 DEF store_lookup, StorePcs
    <2>2. CASE rbtree_lookup(loc[p].key) # {}
        BY <1>0, <1>00, <1>2, <2>1, <2>2 DEF store_lookup, UnlockAndReturn, Leaves, OthersStay
    <2>3. CASE rbtree_lookup(loc[p].key) = {}
        BY <1>0, <1>2, <2>1, <2>3 DEF store_lookup, Proceeds, OthersStay
    <2> QED
        BY <2>2, <2>3
<1>3. ASSUME CanFreeOldest(p, 0), CallFreeOldest(p, pc[p]),
             pc[p] \in {"get_free_entry", "find_room"}, UNCHANGED <<mutex, reset>>
      PROVE  Frees(p) /\ OthersStay(p)
    <2>1. /\ pc'[p] = "free_unlink" /\ loc'[p].victim = Head(used_queue)
          /\ loc'[p].key = loc[p].key /\ loc'[p].caller = pc[p] /\ OthersStay(p)
        BY <1>0, <1>00, <1>3 DEF CallFreeOldest, OthersStay, Locals
    <2> QED
        BY <1>3, <2>1 DEF Frees, CanFreeOldest
<1>4. ASSUME StoreError(p) PROVE Leaves(p) /\ OthersStay(p)
    BY <1>0, <1>4 DEF StoreError, UnlockAndReturn, Leaves, OthersStay
<1>5. CASE get_free_entry(p)
    <2>1. /\ pc[p] = "get_free_entry" /\ mutex = p
          /\ UNCHANGED <<sh_access_time, rbtree, used_queue, buffers_read, live, time>>
        BY <1>5, <1>00 DEF get_free_entry, StorePcs
    <2>2. CASE free_queue # <<>> \/ EntriesCanGrow
        <3>1. /\ UNCHANGED <<mutex, reset>>
              /\ pc' = [pc EXCEPT ![p] = "get_free_buffer"]
              /\ \E x : loc' = [loc EXCEPT ![p].entry = x]
              /\ \/ entry' = entry
                 \/ entry' = [entry EXCEPT ![entries_end].state = "FREE"]
            BY <1>5, <2>2 DEF get_free_entry
        <3>2. PICK x : loc' = [loc EXCEPT ![p].entry = x]
            BY <3>1
        <3>3. OthersStay(p) /\ pc'[p] = "get_free_buffer" /\ loc'[p].key = loc[p].key
            BY <1>0, <1>00, <3>1, <3>2 DEF OthersStay, Locals
        <3>4. \A e \in EntryAddrs : e # entries_end => entry'[e] = entry[e]
            BY <1>0, <3>1
        <3>5. Proceeds(p)
            BY <2>1, <3>1, <3>3 DEF Proceeds
        <3> QED
            BY <2>1, <3>3, <3>4, <3>5
    <2>3. CASE free_queue = <<>> /\ ~EntriesCanGrow
        <3>1. /\ UNCHANGED entry
              /\ \/ CanFreeOldest(p, 0) /\ CallFreeOldest(p, "get_free_entry")
                    /\ UNCHANGED <<mutex, reset>>
                 \/ StoreError(p)
            BY <1>5, <2>3 DEF get_free_entry
        <3> QED
            BY <1>3, <1>4, <2>1, <3>1
    <2> QED
        BY <2>2, <2>3
<1>6. CASE get_free_buffer(p)
    <2>1. /\ pc[p] = "get_free_buffer" /\ mutex = p
          /\ UNCHANGED <<sh_access_time, rbtree, used_queue, buffers_read, live, entry, time>>
        BY <1>6, <1>00 DEF get_free_buffer, StorePcs
    <2>2. CASE NeverFits(loc[p].size)
        BY <1>4, <1>6, <2>1, <2>2 DEF get_free_buffer
    <2>3. CASE ~NeverFits(loc[p].size)
        <3>1. /\ UNCHANGED <<mutex, reset>>
              /\ pc' = [pc EXCEPT ![p] = "find_room"]
              /\ \E x : loc' = [loc EXCEPT ![p].buffer_start = x]
            BY <1>6, <2>3 DEF get_free_buffer
        <3>2. OthersStay(p) /\ pc'[p] = "find_room" /\ loc'[p].key = loc[p].key
            BY <1>0, <1>00, <3>1 DEF OthersStay, Locals
        <3>3. Proceeds(p)
            BY <2>1, <3>1, <3>2 DEF Proceeds
        <3> QED
            BY <2>1, <3>2, <3>3
    <2> QED
        BY <2>2, <2>3
<1>7. CASE find_room(p)
    <2>1. /\ pc[p] = "find_room" /\ mutex = p
          /\ UNCHANGED <<sh_access_time, rbtree, used_queue, buffers_read, live, entry, time>>
        BY <1>7, <1>00 DEF find_room, StorePcs
    <2>2. \/ /\ UNCHANGED <<mutex, reset, loc>> /\ pc' = [pc EXCEPT ![p] = "init_entry"]
          \/ /\ UNCHANGED <<mutex, reset, pc>>
             /\ \E x : loc' = [loc EXCEPT ![p].buffer_start = x]
          \/ CanFreeOldest(p, 0) /\ CallFreeOldest(p, "find_room") /\ UNCHANGED <<mutex, reset>>
          \/ StoreError(p)
        BY <1>7 DEF find_room
    <2>3. CASE UNCHANGED <<mutex, reset, loc>> /\ pc' = [pc EXCEPT ![p] = "init_entry"]
        BY <1>0, <2>1, <2>3 DEF Proceeds, OthersStay
    <2>4. CASE /\ UNCHANGED <<mutex, reset, pc>>
               /\ \E x : loc' = [loc EXCEPT ![p].buffer_start = x]
        <3>1. OthersStay(p) /\ pc'[p] = "find_room" /\ loc'[p].key = loc[p].key
            BY <1>0, <1>00, <2>1, <2>4 DEF OthersStay, Locals
        <3>2. Proceeds(p)
            BY <2>1, <2>4, <3>1 DEF Proceeds
        <3> QED
            BY <2>1, <3>1, <3>2
    <2> QED
        BY <1>3, <1>4, <2>1, <2>2, <2>3, <2>4
<1> QED
    BY <1>1, <1>2, <1>5, <1>6, <1>7 DEF Deciding

\* No used or linked entry lies at the end of the array.
LEMMA UsedBelowEnd ==
    ASSUME IInv
    PROVE  \A e \in Elems(used_queue) : e \in EntryAddrs /\ e # entries_end
<1> SUFFICES ASSUME NEW i \in DOMAIN used_queue
             PROVE  used_queue[i] \in EntryAddrs /\ used_queue[i] # entries_end
    BY DEF Elems
<1>1. used_queue[i] \in EntryAddrs /\ Allocated(used_queue[i]) /\ entries_end \in Nat
    BY DEF IInv, TypeOK, QueuesOK
<1> QED
    BY <1>1, SizesAssumption DEF Allocated, EntryAddrs

\* Such a step preserves the tree invariant.
LEMMA DecidingTInv ==
    ASSUME IInv, TInv, NEW p \in Procs, Deciding(p)
    PROVE  TInv'
<1>1. /\ pc[p] \in {"expire", "lookup", "get_free_entry", "get_free_buffer", "find_room"}
      /\ mutex = p /\ OthersStay(p) /\ UNCHANGED <<rbtree, used_queue>>
      /\ \A e \in EntryAddrs : e # entries_end => entry'[e] = entry[e]
      /\ Leaves(p) \/ Frees(p) \/ Proceeds(p)
    BY DecidingFacts
<1>2. \A e \in rbtree : entry'[e] = entry[e]
    BY <1>1, UsedBelowEnd DEF TInv, LinkedUsed
<1>3. SameTree
    BY <1>1, <1>2 DEF SameTree
<1>4. mutex' \in {p, None}
    BY <1>1 DEF Leaves, Frees, Proceeds
<1>5. \A q \in Procs : q # p => StoreOK(q)'
    BY <1>1, <1>4, OtherStores DEF OthersStay, IInv
<1>6. /\ StoreOK(p) /\ pc[p] \in StorePcs /\ loc[p].key \in Keys
      /\ reset <=> pc[p] \notin {"expire", "lookup"}
      /\ Storing(p) <=> pc[p] \notin {"expire", "lookup"}
    BY <1>1 DEF TInv, StoreOK, Storing, StorePcs, FreeOldestPcs
<1>7. StoreOK(p)'
    <2>1. CASE Leaves(p)
        BY <2>1, OutsideStore, ProcsAssumption DEF Leaves, StorePcs, FreeOldestPcs
    <2>2. CASE Frees(p)
        <3>1. /\ pc'[p] = "free_unlink" /\ loc'[p].key = loc[p].key /\ reset' = reset
              /\ loc'[p].caller = pc[p] /\ pc[p] \in {"expire", "get_free_entry", "find_room"}
            BY <2>2 DEF Frees
        <3>2. Storing(p)' <=> Storing(p)
            BY <1>6, <3>1 DEF Storing, FreeOldestPcs
        <3>3. Storing(p)' => \A e \in rbtree' : entry'[e].key # loc'[p].key
            BY <1>1, <1>2, <1>6, <3>1, <3>2 DEF StoreOK
        <3> QED
            BY <1>6, <3>1, <3>2, <3>3 DEF StoreOK, StorePcs, FreeOldestPcs
    <2>3. CASE Proceeds(p)
        <3>1. /\ pc'[p] \in {"lookup", "get_free_entry", "get_free_buffer", "find_room",
                             "init_entry"}
              /\ loc'[p].key = loc[p].key
              /\ Storing(p)' <=> pc'[p] # "lookup"
            BY <2>3 DEF Proceeds, Storing, FreeOldestPcs
        <3>2. reset' <=> pc'[p] # "lookup"
            BY <1>1, <1>6, <2>3 DEF Proceeds
        <3>3. pc'[p] # "lookup" => \A e \in rbtree : entry[e].key # loc[p].key
            <4>1. CASE pc[p] = "lookup"
                BY <2>3, <4>1 DEF Proceeds, rbtree_lookup
            <4>2. CASE pc[p] # "lookup"
                BY <1>6, <2>3, <4>2 DEF Proceeds, StoreOK
            <4> QED
                BY <4>1, <4>2
        <3> QED
            BY <1>1, <1>2, <1>6, <3>1, <3>2, <3>3 DEF StoreOK, StorePcs, FreeOldestPcs
    <2> QED
        BY <1>1, <2>1, <2>2, <2>3
<1> QED
    BY <1>3, <1>5, <1>7, TreeFrame DEF TInv

\* free_oldest_entry: the tree, the used queue, the free queue.
LEMMA FreeFacts ==
    ASSUME IInv, NEW p \in Procs, free_unlink(p) \/ free_dequeue(p) \/ free_account(p)
    PROVE  /\ mutex = p /\ mutex' = p /\ OthersStay(p)
           /\ loc'[p].key = loc[p].key
           /\ pc[p] \in FreeOldestPcs
           /\ loc[p].victim \in EntryAddrs
           /\ loc[p].caller \in {"expire", "get_free_entry", "find_room"}
           /\ UNCHANGED <<reset, sh_access_time, entries_end, buffers_start, time>>
           /\ \A e \in EntryAddrs : e # loc[p].victim => entry'[e] = entry[e]
           /\ free_unlink(p) =>
                /\ pc[p] = "free_unlink" /\ pc'[p] = "free_dequeue" /\ loc' = loc
                /\ rbtree' = rbtree \ {loc[p].victim}
                /\ UNCHANGED <<used_queue, free_queue, buffers_read, live>>
                /\ entry'[loc[p].victim].key = entry[loc[p].victim].key
           /\ free_dequeue(p) =>
                /\ pc[p] = "free_dequeue" /\ pc'[p] = "free_account" /\ loc' = loc
                /\ used_queue' = Tail(used_queue)
                /\ UNCHANGED <<rbtree, free_queue, buffers_read, live, entry>>
           /\ free_account(p) =>
                /\ pc[p] = "free_account" /\ pc'[p] = loc[p].caller
                /\ free_queue' = Append(free_queue, loc[p].victim)
                /\ buffers_read' = ReadAfterFree(p)
                /\ live' = live - 1
                /\ UNCHANGED <<rbtree, used_queue>>
<1>0. /\ pc \in [Procs -> Pcs] /\ loc \in [Procs -> Locals]
      /\ entry \in [EntryAddrs -> Entry] /\ loc[p] \in Locals
    BY DEF IInv, TypeOK
<1>1. /\ pc[p] \in FreeOldestPcs /\ loc[p].victim \in EntryAddrs
      /\ loc[p].caller \in {"expire", "get_free_entry", "find_room"}
      /\ mutex = p /\ mutex' = p
    <2>1. pc[p] \in FreeOldestPcs /\ mutex' = mutex
        BY DEF FreeOldestPcs, free_unlink, free_dequeue, free_account
    <2> QED
        BY <2>1 DEF IInv, LocalsOK, StoreOwner, StorePcs
<1>2. CASE free_unlink(p)
    <2>1. \A e \in EntryAddrs : /\ e # loc[p].victim => entry'[e] = entry[e]
                                /\ entry'[e].key = entry[e].key
        <3>1. entry' = [entry EXCEPT ![loc[p].victim].state = "FREE"]
            BY <1>2 DEF free_unlink
        <3>2. \A e \in EntryAddrs : entry[e] \in Entry
            BY <1>0
        <3> QED
            BY <1>0, <3>1, <3>2 DEF Entry
    <2>2. /\ pc[p] = "free_unlink" /\ pc'[p] = "free_dequeue" /\ loc' = loc
          /\ OthersStay(p) /\ rbtree' = rbtree \ {loc[p].victim}
          /\ UNCHANGED <<reset, sh_access_time, entries_end, buffers_start, time,
                         used_queue, free_queue, buffers_read, live>>
        BY <1>0, <1>2 DEF free_unlink, Goto, OthersStay
    <2>3. ~free_dequeue(p) /\ ~free_account(p)
        BY <2>2 DEF free_dequeue, free_account
    <2> QED
        BY <1>1, <2>1, <2>2, <2>3
<1>3. CASE free_dequeue(p)
    <2>1. /\ pc[p] = "free_dequeue" /\ pc'[p] = "free_account" /\ loc' = loc
          /\ OthersStay(p) /\ used_queue' = Tail(used_queue)
          /\ UNCHANGED <<reset, sh_access_time, entries_end, buffers_start, time,
                         rbtree, free_queue, buffers_read, live, entry>>
        BY <1>0, <1>3 DEF free_dequeue, Goto, OthersStay
    <2>2. ~free_unlink(p) /\ ~free_account(p)
        BY <2>1 DEF free_unlink, free_account
    <2> QED
        BY <1>1, <2>1, <2>2
<1>4. CASE free_account(p)
    <2>1. \A e \in EntryAddrs : e # loc[p].victim => entry'[e] = entry[e]
        BY <1>0, <1>4 DEF free_account
    <2>2. loc'[p].key = loc[p].key /\ OthersStay(p) /\ pc'[p] = loc[p].caller
        BY <1>0, <1>4 DEF free_account, Goto, OthersStay, Locals
    <2>3. /\ pc[p] = "free_account" /\ free_queue' = Append(free_queue, loc[p].victim)
          /\ buffers_read' = ReadAfterFree(p) /\ live' = live - 1
          /\ UNCHANGED <<reset, sh_access_time, entries_end, buffers_start, time,
                         rbtree, used_queue>>
        BY <1>4 DEF free_account, CountEvicted
    <2>4. ~free_unlink(p) /\ ~free_dequeue(p)
        BY <2>3 DEF free_unlink, free_dequeue
    <2> QED
        BY <1>1, <2>1, <2>2, <2>3, <2>4
<1> QED
    BY <1>2, <1>3, <1>4

\* Freeing an entry preserves the tree invariant.
LEMMA FreeTInv ==
    ASSUME IInv, TInv, NEW p \in Procs, free_unlink(p) \/ free_dequeue(p) \/ free_account(p)
    PROVE  TInv'
<1> DEFINE v == loc[p].victim
<1>1. /\ mutex = p /\ mutex' = p /\ OthersStay(p) /\ loc'[p].key = loc[p].key
      /\ pc[p] \in FreeOldestPcs /\ v \in EntryAddrs
      /\ loc[p].caller \in {"expire", "get_free_entry", "find_room"} /\ reset' = reset
      /\ \A e \in EntryAddrs : e # v => entry'[e] = entry[e]
    BY FreeFacts
<1>2. \A q \in Procs : q # p => StoreOK(q)'
    BY <1>1, OtherStores DEF OthersStay, IInv
<1>3. /\ loc[p].key \in Keys
      /\ reset <=> loc[p].caller # "expire"
      /\ loc[p].caller # "expire" => \A e \in rbtree : entry[e].key # loc[p].key
      /\ pc[p] \in {"free_dequeue", "free_account"} => v \notin rbtree
    BY <1>1 DEF TInv, StoreOK, Storing, StorePcs, FreeOldestPcs
<1>4. rbtree \subseteq EntryAddrs /\ used_queue \in Seq(EntryAddrs)
    BY DEF IInv, TypeOK
<1>5. CASE free_unlink(p)
    <2>1. /\ pc'[p] = "free_dequeue" /\ loc' = loc
          /\ rbtree' = rbtree \ {v} /\ used_queue' = used_queue
        BY <1>5, FreeFacts
    <2>2. \A e \in rbtree' : e \in rbtree /\ entry'[e] = entry[e]
        BY <1>1, <1>4, <2>1
    <2>3. LinkedUsed' /\ KeysUnique'
        BY <2>1, <2>2 DEF TInv, LinkedUsed, KeysUnique
    <2>4. Storing(p)' <=> loc[p].caller # "expire"
        BY <2>1 DEF Storing, FreeOldestPcs
    <2>5. StoreOK(p)'
        BY <1>1, <1>3, <2>1, <2>2, <2>4 DEF StoreOK, StorePcs, FreeOldestPcs
    <2> QED
        BY <1>2, <2>3, <2>5 DEF TInv
<1>6. CASE free_dequeue(p)
    <2>1. /\ pc[p] = "free_dequeue" /\ pc'[p] = "free_account" /\ loc' = loc
          /\ used_queue' = Tail(used_queue) /\ rbtree' = rbtree /\ entry' = entry
        BY <1>6, FreeFacts
    <2>2. used_queue # <<>> /\ v = Head(used_queue)
        BY <2>1 DEF IInv, LocalsOK
    <2>3. Elems(used_queue) = Elems(Tail(used_queue)) \cup {v}
        BY <1>4, <2>2, ElemsTail
    <2>4. Elems(used_queue)' = Elems(Tail(used_queue))
        BY <2>1 DEF Elems
    <2>5. LinkedUsed' /\ KeysUnique'
        BY <1>3, <2>1, <2>3, <2>4 DEF TInv, LinkedUsed, KeysUnique
    <2>6. Storing(p)' <=> loc[p].caller # "expire"
        BY <2>1 DEF Storing, FreeOldestPcs
    <2>7. StoreOK(p)'
        BY <1>1, <1>3, <2>1, <2>6 DEF StoreOK, StorePcs, FreeOldestPcs
    <2> QED
        BY <1>2, <2>5, <2>7 DEF TInv
<1>7. CASE free_account(p)
    <2>1. /\ pc[p] = "free_account" /\ pc'[p] = loc[p].caller
          /\ UNCHANGED <<rbtree, used_queue>>
        BY <1>7, FreeFacts
    <2>2. \A e \in rbtree : entry'[e] = entry[e]
        BY <1>1, <1>3, <1>4, <2>1
    <2>3. SameTree
        BY <2>1, <2>2 DEF SameTree
    <2>4. Storing(p)' <=> loc[p].caller # "expire"
        BY <1>1, <2>1 DEF Storing, FreeOldestPcs
    <2>5. StoreOK(p)'
        BY <1>1, <1>3, <2>1, <2>2, <2>4 DEF StoreOK, StorePcs, FreeOldestPcs
    <2> QED
        BY <1>2, <2>3, <2>5, TreeFrame DEF TInv
<1> QED
    BY <1>5, <1>6, <1>7

\* The entry that a store fills was in no queue but the free one.
LEMMA FillFacts ==
    ASSUME IInv, NEW p \in Procs, store_init_entry(p)
    PROVE  /\ mutex = p /\ mutex' = p /\ OthersStay(p) /\ loc' = loc
           /\ pc[p] = "init_entry" /\ pc'[p] = "commit"
           /\ free_queue # <<>> /\ loc[p].entry = Head(free_queue)
           /\ loc[p].entry \in EntryAddrs
           /\ loc[p].entry \notin Elems(used_queue)
           /\ entry'[loc[p].entry] = NewEntry(p)
           /\ \A e \in EntryAddrs : e # loc[p].entry => entry'[e] = entry[e]
           /\ used_queue' = Append(used_queue, loc[p].entry)
           /\ free_queue' = Tail(free_queue)
           /\ UNCHANGED <<reset, sh_access_time, rbtree, entries_end, buffers_start,
                          buffers_read, live, time>>
<1>0. /\ pc \in [Procs -> Pcs] /\ entry \in [EntryAddrs -> Entry]
      /\ free_queue \in Seq(EntryAddrs)
    BY DEF IInv, TypeOK
<1>1. /\ pc[p] = "init_entry" /\ pc'[p] = "commit" /\ OthersStay(p) /\ loc' = loc
      /\ mutex' = mutex /\ entry' = [entry EXCEPT ![loc[p].entry] = NewEntry(p)]
      /\ used_queue' = Append(used_queue, loc[p].entry)
      /\ free_queue' = Tail(free_queue)
      /\ UNCHANGED <<reset, sh_access_time, rbtree, entries_end, buffers_start,
                     buffers_read, live, time>>
    BY <1>0 DEF store_init_entry, Goto, OthersStay
<1>2. mutex = p
    BY <1>1 DEF IInv, StoreOwner, StorePcs
<1>3. free_queue # <<>> /\ loc[p].entry = Head(free_queue)
    BY <1>1 DEF IInv, LocalsOK, HasEntry, AllocatingBuffer
<1>4. loc[p].entry \in EntryAddrs /\ 1 \in DOMAIN free_queue /\ loc[p].entry = free_queue[1]
    BY <1>0, <1>3, TailFacts
<1>5. loc[p].entry \notin Elems(used_queue)
    BY <1>4 DEF IInv, QueuesOK, Elems
<1> QED
    BY <1>0, <1>1, <1>2, <1>3, <1>4, <1>5

\* A step that fills the new entry preserves the tree invariant.
LEMMA FillTInv ==
    ASSUME IInv, TInv, NEW p \in Procs, store_init_entry(p)
    PROVE  TInv'
<1> DEFINE x == loc[p].entry
<1>1. /\ mutex = p /\ mutex' = p /\ OthersStay(p) /\ loc' = loc
      /\ pc[p] = "init_entry" /\ pc'[p] = "commit"
      /\ x \in EntryAddrs /\ x \notin Elems(used_queue)
      /\ entry'[x] = NewEntry(p)
      /\ \A e \in EntryAddrs : e # x => entry'[e] = entry[e]
      /\ used_queue' = Append(used_queue, x)
      /\ UNCHANGED <<reset, rbtree>>
    BY FillFacts
<1>2. \A q \in Procs : q # p => StoreOK(q)'
    BY <1>1, OtherStores DEF OthersStay, IInv
<1>3. used_queue \in Seq(EntryAddrs) /\ rbtree \subseteq EntryAddrs
    BY DEF IInv, TypeOK
<1>4. Elems(used_queue)' = Elems(used_queue) \cup {x}
    <2>1. Elems(used_queue)' = Elems(Append(used_queue, x))
        BY <1>1 DEF Elems
    <2> QED
        BY <1>1, <1>3, <2>1, ElemsAppend
<1>5. rbtree \subseteq Elems(used_queue) /\ x \notin rbtree
    BY <1>1 DEF TInv, LinkedUsed
<1>6. \A e \in rbtree : entry'[e] = entry[e]
    BY <1>1, <1>3, <1>5
<1>7. LinkedUsed' /\ KeysUnique'
    BY <1>1, <1>4, <1>5, <1>6 DEF TInv, LinkedUsed, KeysUnique
<1>8. /\ loc[p].key \in Keys /\ reset
      /\ \A e \in rbtree : entry[e].key # loc[p].key
    BY <1>1 DEF TInv, StoreOK, Storing, StorePcs
<1>9. CommitOK(p)'
    BY <1>1, <1>4, <1>5 DEF CommitOK, NewEntry
<1>10. StoreOK(p)'
    BY <1>1, <1>6, <1>8, <1>9 DEF StoreOK, Storing, StorePcs, FreeOldestPcs
<1> QED
    BY <1>2, <1>7, <1>10 DEF TInv

\* Linking the entry.
LEMMA CommitFacts ==
    ASSUME IInv, NEW p \in Procs, store_commit(p)
    PROVE  /\ mutex = p /\ mutex' = None /\ OthersStay(p) /\ loc' = loc /\ ~reset'
           /\ pc[p] = "commit" /\ pc'[p] = "copy"
           /\ loc[p].entry \in EntryAddrs
           /\ rbtree' = rbtree \cup {loc[p].entry}
           /\ live' = live + 1
           /\ sh_access_time' = now[p]
           /\ entry'[loc[p].entry].access_time = now[p]
           /\ entry'[loc[p].entry].state = entry[loc[p].entry].state
           /\ entry'[loc[p].entry].ref_count = entry[loc[p].entry].ref_count
           /\ SameNames
           /\ \A e \in EntryAddrs : e # loc[p].entry => entry'[e] = entry[e]
           /\ UNCHANGED <<used_queue, free_queue, entries_end, buffers_start,
                          buffers_read, buffers_write, time>>
<1>0. /\ pc \in [Procs -> Pcs] /\ entry \in [EntryAddrs -> Entry]
      /\ \A e \in EntryAddrs : entry[e] \in Entry
    BY DEF IInv, TypeOK
<1>1. /\ pc[p] = "commit" /\ pc'[p] = "copy" /\ OthersStay(p) /\ loc' = loc
      /\ mutex' = None /\ ~reset' /\ live' = live + 1 /\ sh_access_time' = now[p]
      /\ rbtree' = rbtree \cup {loc[p].entry}
      /\ entry' = [entry EXCEPT ![loc[p].entry].access_time = now[p],
                                ![loc[p].entry].write_time = now[p]]
      /\ UNCHANGED <<used_queue, free_queue, entries_end, buffers_start,
                     buffers_read, buffers_write, time>>
    BY <1>0 DEF store_commit, Goto, OthersStay
<1>2. mutex = p /\ loc[p].entry \in EntryAddrs
    BY <1>1 DEF IInv, StoreOwner, StorePcs, LocalsOK
<1>3. /\ entry'[loc[p].entry].access_time = now[p]
      /\ entry'[loc[p].entry].state = entry[loc[p].entry].state
      /\ entry'[loc[p].entry].ref_count = entry[loc[p].entry].ref_count
      /\ SameNames
      /\ \A e \in EntryAddrs : e # loc[p].entry => entry'[e] = entry[e]
    BY <1>0, <1>1, <1>2 DEF Entry, SameNames
<1> QED
    BY <1>1, <1>2, <1>3

\* The last step of a store preserves the tree invariant.
LEMMA CommitTInv ==
    ASSUME IInv, TInv, NEW p \in Procs, store_commit(p)
    PROVE  TInv'
<1> DEFINE x == loc[p].entry
<1>1. /\ mutex = p /\ mutex' = None /\ OthersStay(p) /\ pc[p] = "commit" /\ pc'[p] = "copy"
      /\ rbtree' = rbtree \cup {x} /\ used_queue' = used_queue /\ SameNames
    BY CommitFacts
<1>2. /\ x \in Elems(used_queue) /\ entry[x].key = loc[p].key /\ loc[p].key \in Keys
      /\ \A e \in rbtree : entry[e].key # loc[p].key
    BY <1>1 DEF TInv, StoreOK, CommitOK, Storing, StorePcs
<1>3. Elems(used_queue)' = Elems(used_queue)
    BY <1>1 DEF Elems
<1>4. \A e \in rbtree' : entry'[e].key = entry[e].key
    BY <1>1, <1>2, UsedBelowEnd DEF SameNames, TInv, LinkedUsed
<1>5. LinkedUsed' /\ KeysUnique'
    BY <1>1, <1>2, <1>3, <1>4 DEF TInv, LinkedUsed, KeysUnique
<1>6. \A q \in Procs : q # p => StoreOK(q)'
    BY <1>1, OtherStores DEF OthersStay, IInv
<1>7. StoreOK(p)'
    BY <1>1, OutsideStore, ProcsAssumption DEF StorePcs, FreeOldestPcs
<1> QED
    BY <1>5, <1>6, <1>7 DEF TInv

\* The disjuncts of the next-state relation, grouped as in the proofs.
LEMMA NextCases ==
    ASSUME [Next]_vars
    PROVE  \/ \E p \in Procs :
                \/ \E k \in Keys, n \in Sizes : store_begin(p, k, n)
                \/ Deciding(p)
                \/ free_unlink(p) \/ free_dequeue(p) \/ free_account(p)
                \/ store_init_entry(p) \/ store_commit(p)
                \/ store_copy(p) \/ store_set_ready(p) \/ store_unref(p)
                \/ (\E k \in Keys : fetch(p, k)) \/ release(p) \/ abandon(p) \/ crash(p)
           \/ tick \/ reset_stats \/ UNCHANGED vars
           \/ \E p \in Procs : refresh_time(p) \/ store_refused(p)
    BY DEF Next, store_step, Deciding

\* Every step preserves the tree invariant.
LEMMA NextTInv == IInv /\ TInv /\ [Next]_vars => TInv'
<1> SUFFICES ASSUME IInv, TInv, [Next]_vars PROVE TInv'
    OBVIOUS
<1> QED
    BY NextCases, BeginTInv, DecidingTInv, FreeTInv, FillTInv, CommitTInv, OutsideTInv,
       QuietTInv

\* The tree and the reset flag are right in every reachable state, kills included.
THEOREM TreeInvariance == Spec => [](IInv /\ TInv)
    BY InitIInv, NextIInv, InitTInv, NextTInv, PTL DEF Spec

-----------------------------------------------------------------------------
(* The structures and the statistics *)

\* Expired entries are evicted before the reset flag is raised.  A worker killed
\* in the middle of that leaves the structures half updated with the flag off, so
\* what follows is about zones without expiration, or in which no worker is killed.
NoKillWhileExpiring == Expiration = 0 \/ MaxLosses = 0

\* The used queue holds the entries of the tree and those of pend; gone entries
\* are in no queue, and new ones are not counted yet.
Agree(pend, gone, new) ==
    /\ rbtree = Elems(used_queue) \ pend
    /\ (Len(used_queue) + Len(free_queue) + gone) * EntrySize = entries_end
    /\ live + new - gone <= Len(used_queue)
    /\ ~StatsReset => live + new - gone = Len(used_queue)
    /\ used_queue = <<>> /\ gone = 0 => buffers_read = BuffersEnd

\* How far the process in the critical section is from that.
AgreeAt(p) ==
    /\ pc[p] = "free_dequeue" => Agree({loc[p].victim}, 0, 0)
    /\ pc[p] = "free_account" => Agree({}, 1, 0)
    /\ pc[p] = "commit" => Agree({loc[p].entry}, 0, 1)
    /\ pc[p] \notin {"free_dequeue", "free_account", "commit"} => Agree({}, 0, 0)

Expiring(p) ==
    pc[p] = "expire" \/ (pc[p] \in FreeOldestPcs /\ loc[p].caller = "expire")

AInv ==
    /\ mutex = None /\ ~reset => Agree({}, 0, 0)
    /\ \A p \in Procs : /\ pc[p] \in StorePcs => AgreeAt(p)
                        /\ Expiring(p) => Expiration # 0
    /\ entries_end = 0 => buffers_start = BuffersEnd

\* A step that changes none of it.
SameCounts ==
    UNCHANGED <<rbtree, used_queue, free_queue, entries_end, live, buffers_read>>

\* Agreement of the structures only depends on those structures.
LEMMA AgreeFrame ==
    ASSUME SameCounts, NEW a, NEW g, NEW n, Agree(a, g, n)
    PROVE  Agree(a, g, n)'
    BY DEF SameCounts, Agree, Elems

\* So does agreement in the middle of an operation.
LEMMA AgreeAtFrame ==
    ASSUME NEW q \in Procs, pc'[q] = pc[q], loc'[q] = loc[q],
           pc[q] \in StorePcs, SameCounts, AgreeAt(q)
    PROVE  AgreeAt(q)'
<1>1. /\ Agree({}, 0, 0) => Agree({}, 0, 0)'
      /\ Agree({}, 1, 0) => Agree({}, 1, 0)'
      /\ Agree({loc[q].victim}, 0, 0) => Agree({loc[q].victim}, 0, 0)'
      /\ Agree({loc[q].entry}, 0, 1) => Agree({loc[q].entry}, 0, 1)'
    BY AgreeFrame DEF SameCounts, Agree, Elems
<1> QED
    BY <1>1 DEF AgreeAt, Agree

\* The other processes while p may be in the critical section.
LEMMA OtherAgree ==
    ASSUME StoreOwner, NEW p \in Procs, mutex = p \/ mutex = None,
           NEW q \in Procs, q # p, pc'[q] = pc[q]
    PROVE  pc'[q] \notin StorePcs /\ ~Expiring(q)'
<1>1. pc'[q] \notin StorePcs
    BY ProcsAssumption DEF StoreOwner
<1> QED
    BY <1>1 DEF Expiring, StorePcs

\* The structures agree initially.
LEMMA InitAInv == Init => AInv
<1> SUFFICES ASSUME Init PROVE AInv
    OBVIOUS
<1>1. /\ rbtree = {} /\ used_queue = <<>> /\ free_queue = <<>> /\ live = 0
      /\ entries_end = 0 /\ buffers_read = BuffersEnd /\ buffers_start = BuffersEnd
    BY DEF Init
<1>2. Agree({}, 0, 0)
    <2>1. Elems(used_queue) = {}
        BY <1>1 DEF Elems
    <2>2. Len(used_queue) = 0 /\ Len(free_queue) = 0
        BY <1>1
    <2> QED
        BY <1>1, <2>1, <2>2, SizesAssumption DEF Agree
<1>3. \A p \in Procs : pc[p] = "idle"
    BY DEF Init
<1> QED
    BY <1>1, <1>2, <1>3 DEF AInv, Expiring, StorePcs, FreeOldestPcs

\* Copying, publishing, fetching, releasing and dying keep the structures in agreement.
LEMMA OutsideAInv ==
    ASSUME NoKillWhileExpiring, IInv, TInv, AInv, NEW p \in Procs,
           \/ store_copy(p) \/ store_set_ready(p) \/ store_unref(p)
           \/ (\E k \in Keys : fetch(p, k)) \/ release(p) \/ abandon(p) \/ crash(p)
    PROVE  AInv'
<1>1. /\ SameCounts /\ UNCHANGED <<reset, buffers_start>> /\ OthersStay(p)
      /\ pc'[p] \in {"set_ready", "unref", "idle", "hold"}
      /\ mutex' = mutex \/ (mutex = p /\ mutex' = None /\ losses < MaxLosses)
    <2>1. CASE store_copy(p)
        BY <2>1, CopyFacts DEF sh, SameCounts
    <2>2. CASE store_set_ready(p)
        BY <2>2, ReadyFacts DEF sh, SameCounts
    <2>3. CASE store_unref(p)
        BY <2>3, UnrefFacts DEF sh, SameCounts
    <2>4. ASSUME NEW k \in Keys, fetch(p, k) PROVE <1>1!:
        BY <2>4, FetchFacts DEF SameCounts
    <2>5. CASE release(p)
        BY <2>5, ReleaseFacts DEF sh, SameCounts
    <2>6. CASE abandon(p) \/ crash(p)
        <3>1. /\ UNCHANGED sh
              /\ pc' = [pc EXCEPT ![p] = "idle"] /\ loc' = [loc EXCEPT ![p] = NoLocals]
              /\ mutex' = mutex \/ (mutex = p /\ mutex' = None /\ losses < MaxLosses)
            BY <2>6 DEF abandon, crash, Goto
        <3> QED
            BY <3>1 DEF sh, SameCounts, OthersStay, IInv, TypeOK
    <2> QED
        BY <2>1, <2>2, <2>3, <2>4, <2>5, <2>6
<1>2. pc'[p] \notin StorePcs /\ ~Expiring(p)'
    BY <1>1 DEF StorePcs, FreeOldestPcs, Expiring
<1>3. ASSUME NEW q \in Procs, q # p
      PROVE  (pc'[q] \in StorePcs => AgreeAt(q)') /\ (Expiring(q)' => Expiration # 0)
    <2>1. pc'[q] = pc[q] /\ loc'[q] = loc[q]
        BY <1>1, <1>3 DEF OthersStay
    <2> QED
        BY <1>1, <2>1, AgreeAtFrame DEF AInv, Expiring
<1>4. ASSUME mutex' = None, ~reset' PROVE Agree({}, 0, 0)'
    <2>1. ~reset
        BY <1>1, <1>4
    <2>2. CASE mutex = None
        BY <1>1, <2>1, <2>2, AgreeFrame DEF AInv
    <2>3. CASE mutex = p /\ losses < MaxLosses
        <3>1. pc[p] \in StorePcs /\ ~Storing(p)
            BY <2>1, <2>3 DEF TInv, StoreOK
        <3>2. Expiration = 0
            BY <2>3 DEF NoKillWhileExpiring, IInv, TypeOK
        <3>3. pc[p] = "lookup"
            BY <3>1, <3>2 DEF AInv, Expiring, Storing, StorePcs
        <3>4. Agree({}, 0, 0)
            BY <3>1, <3>3 DEF AInv, AgreeAt
        <3> QED
            BY <1>1, <3>4, AgreeFrame
    <2> QED
        BY <1>1, <1>4, <2>2, <2>3
<1>5. entries_end' = 0 => buffers_start' = BuffersEnd
    BY <1>1 DEF AInv, SameCounts
<1> QED
    BY <1>2, <1>3, <1>4, <1>5 DEF AInv

\* So does a step that touches no queue, tree or local.
LEMMA QuietAInv ==
    ASSUME IInv, TInv, AInv,
           \/ tick \/ reset_stats \/ UNCHANGED vars
           \/ \E p \in Procs : refresh_time(p) \/ store_refused(p)
    PROVE  AInv'
<1>1. UNCHANGED <<mutex, reset, rbtree, used_queue, free_queue, entries_end,
                  buffers_start, buffers_read, pc, loc>>
    BY DEF tick, reset_stats, refresh_time, store_refused, vars, sh
<1>2. CASE UNCHANGED live
    <2>1. SameCounts
        BY <1>1, <1>2 DEF SameCounts
    <2> QED
        BY <1>1, <2>1, AgreeAtFrame, AgreeFrame DEF AInv, Expiring
<1>3. CASE reset_stats
    <2>1. StatsReset /\ mutex = None /\ live' = 0
        BY <1>3 DEF reset_stats
    <2>2. \A q \in Procs : pc'[q] \notin StorePcs
        BY <1>1, <2>1, ProcsAssumption DEF IInv, StoreOwner
    <2>3. ~reset => Agree({}, 0, 0)'
        <3>1. Len(used_queue) >= 0
            BY DEF IInv, TypeOK
        <3> QED
            BY <1>1, <2>1, <3>1 DEF AInv, Agree, Elems
    <2> QED
        BY <1>1, <2>2, <2>3 DEF AInv, Expiring
<1> QED
    BY <1>2, <1>3 DEF tick, reset_stats, refresh_time, store_refused, vars, sh

\* Taking the lock keeps the structures in agreement, a reset included.
LEMMA BeginAInv ==
    ASSUME IInv, TInv, AInv, NEW p \in Procs, NEW k \in Keys, NEW n \in Sizes,
           store_begin(p, k, n)
    PROVE  AInv'
<1>1. mutex = None /\ mutex' = p /\ OthersStay(p)
    BY DEF store_begin, Goto, OthersStay, IInv, TypeOK
<1>2. \A q \in Procs : q # p => pc'[q] \notin StorePcs /\ ~Expiring(q)'
    BY <1>1, OtherAgree DEF OthersStay, IInv
<1>3. mutex' # None
    BY <1>1, ProcsAssumption
<1>4. /\ Agree({}, 0, 0)'
      /\ pc'[p] \in {"lookup", "expire", "get_free_entry"}
      /\ pc'[p] = "expire" => Expiration # 0
      /\ entries_end' = 0 => buffers_start' = BuffersEnd
    <2>1. CASE ~reset
        <3>1. /\ UNCHANGED sh /\ pc'[p] \in {"lookup", "expire"}
              /\ pc'[p] = "expire" => Expiration # 0
            BY <2>1 DEF store_begin, Goto, IInv, TypeOK
        <3>2. SameCounts
            BY <3>1 DEF SameCounts, sh
        <3>3. Agree({}, 0, 0)'
            BY <1>1, <2>1, <3>2, AgreeFrame DEF AInv
        <3> QED
            BY <3>1, <3>3 DEF sh, AInv
    <2>2. CASE reset
        <3>1. /\ rbtree' = {} /\ used_queue' = <<>> /\ free_queue' = <<>>
              /\ entries_end' = 0 /\ buffers_start' = BuffersEnd
              /\ buffers_read' = BuffersEnd /\ live' = 0 /\ pc'[p] = "get_free_entry"
            BY <2>2 DEF store_begin, cache_reset, CountAllEvicted, Goto, IInv, TypeOK
        <3>2. Len(used_queue') = 0 /\ Len(free_queue') = 0 /\ Elems(used_queue)' = {}
            BY <3>1 DEF Elems
        <3>3. Agree({}, 0, 0)'
            BY <3>1, <3>2, SizesAssumption DEF Agree
        <3> QED
            BY <3>1, <3>3
    <2> QED
        BY <2>1, <2>2
<1>5. AgreeAt(p)' /\ (Expiring(p)' => Expiration # 0)
    BY <1>4 DEF AgreeAt, Expiring, FreeOldestPcs
<1> QED
    BY <1>2, <1>3, <1>4, <1>5 DEF AInv

\* What a deciding step does to the queues and to the heads: it may add one free
\* entry at the end of the array, or lower buffers_start once there is an entry.
LEMMA DecidingQueues ==
    ASSUME IInv, NEW p \in Procs, Deciding(p)
    PROVE  /\ \/ UNCHANGED <<free_queue, entries_end>>
              \/ /\ free_queue = <<>> /\ free_queue' = <<entries_end>>
                 /\ entries_end' = entries_end + EntrySize
           /\ buffers_start' = buffers_start \/ free_queue # <<>>
<1>1. CASE store_expire(p) \/ store_lookup(p) \/ get_free_buffer(p)
    BY <1>1 DEF store_expire, store_lookup, get_free_buffer, sh
<1>2. CASE get_free_entry(p)
    BY <1>2 DEF get_free_entry
<1>3. CASE find_room(p)
    <2>1. pc[p] = "find_room" /\ UNCHANGED <<free_queue, entries_end>>
        BY <1>3 DEF find_room
    <2>2. free_queue # <<>>
        BY <2>1 DEF IInv, LocalsOK, HasEntry, AllocatingBuffer
    <2> QED
        BY <2>1, <2>2
<1> QED
    BY <1>1, <1>2, <1>3 DEF Deciding

\* So does a store that has not taken its entry yet.
LEMMA DecidingAInv ==
    ASSUME IInv, TInv, AInv, NEW p \in Procs, Deciding(p)
    PROVE  AInv'
<1>1. /\ pc[p] \in {"expire", "lookup", "get_free_entry", "get_free_buffer", "find_room"}
      /\ mutex = p /\ OthersStay(p)
      /\ UNCHANGED <<rbtree, used_queue, buffers_read, live>>
      /\ Leaves(p) \/ Frees(p) \/ Proceeds(p)
    BY DecidingFacts
<1>2. \A q \in Procs : q # p => pc'[q] \notin StorePcs /\ ~Expiring(q)'
    BY <1>1, OtherAgree DEF OthersStay, IInv
<1>3. Agree({}, 0, 0)
    BY <1>1 DEF AInv, AgreeAt, StorePcs
<1>4. /\ entries_end \in Nat /\ EntrySize \in Nat /\ EntrySize > 0
      /\ Len(used_queue) \in Nat /\ free_queue \in Seq(EntryAddrs)
      /\ Len(free_queue) \in Nat
    BY SizesAssumption DEF IInv, TypeOK
<1>5. Agree({}, 0, 0)'
    <2>1. CASE UNCHANGED <<free_queue, entries_end>>
        BY <1>1, <1>3, <2>1 DEF Agree, Elems
    <2>2. CASE /\ free_queue = <<>> /\ free_queue' = <<entries_end>>
               /\ entries_end' = entries_end + EntrySize
        <3>1. Len(free_queue) = 0 /\ Len(free_queue') = 1
            BY <2>2
        <3>2. Len(used_queue) * EntrySize = entries_end
            BY <1>3, <1>4, <3>1 DEF Agree
        <3>3. (Len(used_queue) + 1) * EntrySize = Len(used_queue) * EntrySize + EntrySize
            BY <1>4
        <3>4. (Len(used_queue') + Len(free_queue') + 0) * EntrySize = entries_end'
            BY <1>1, <1>4, <2>2, <3>1, <3>2, <3>3
        <3> QED
            BY <1>1, <1>3, <3>4 DEF Agree, Elems
    <2> QED
        BY <2>1, <2>2, DecidingQueues
<1>6. entries_end' = 0 => buffers_start' = BuffersEnd
    <2>1. free_queue # <<>> => entries_end # 0
        <3> SUFFICES ASSUME free_queue # <<>> PROVE entries_end # 0
            OBVIOUS
        <3>1. 1 \in DOMAIN free_queue /\ free_queue[1] \in EntryAddrs
            BY <1>4
        <3>2. free_queue[1] + EntrySize <= entries_end
            BY <3>1 DEF IInv, QueuesOK, Allocated
        <3> QED
            BY <1>4, <3>1, <3>2 DEF EntryAddrs
    <2>2. entries_end' = entries_end \/ entries_end' = entries_end + EntrySize
        BY DecidingQueues
    <2> QED
        BY <1>4, <2>1, <2>2, DecidingQueues DEF AInv
<1>7. /\ pc'[p] \in StorePcs => AgreeAt(p)'
      /\ Expiring(p)' => Expiration # 0
    <2>1. pc'[p] \notin {"free_dequeue", "free_account", "commit"}
        BY <1>1 DEF Leaves, Frees, Proceeds
    <2>2. Expiring(p)' => Expiring(p)
        BY <1>1 DEF Leaves, Frees, Proceeds, Expiring, FreeOldestPcs
    <2> QED
        BY <1>5, <2>1, <2>2 DEF AInv, AgreeAt
<1> QED
    BY <1>2, <1>5, <1>6, <1>7 DEF AInv

\* So does each step that frees an entry.
LEMMA FreeAInv ==
    ASSUME IInv, TInv, AInv, NEW p \in Procs,
           free_unlink(p) \/ free_dequeue(p) \/ free_account(p)
    PROVE  AInv'
<1> DEFINE v == loc[p].victim
<1>1. /\ mutex = p /\ mutex' = p /\ OthersStay(p) /\ pc[p] \in FreeOldestPcs
      /\ v \in EntryAddrs /\ UNCHANGED <<entries_end, buffers_start>>
      /\ loc[p].caller \in {"expire", "get_free_entry", "find_room"}
    BY FreeFacts
<1>2. \A q \in Procs : q # p => pc'[q] \notin StorePcs /\ ~Expiring(q)'
    BY <1>1, OtherAgree DEF OthersStay, IInv
<1>3. mutex' # None /\ pc[p] \in StorePcs
    BY <1>1, ProcsAssumption DEF StorePcs
<1>4. /\ used_queue \in Seq(EntryAddrs) /\ free_queue \in Seq(EntryAddrs)
      /\ Len(used_queue) \in Nat /\ Len(free_queue) \in Nat /\ live \in Int
      /\ EntrySize \in Nat /\ entries_end \in Nat
    BY SizesAssumption DEF IInv, TypeOK
<1>5. AgreeAt(p)' /\ (Expiring(p)' => Expiring(p))
    <2>1. CASE free_unlink(p)
        <3>1. /\ pc[p] = "free_unlink" /\ pc'[p] = "free_dequeue" /\ loc' = loc
              /\ rbtree' = rbtree \ {v}
              /\ UNCHANGED <<used_queue, free_queue, buffers_read, live>>
            BY <2>1, FreeFacts
        <3>2. Agree({}, 0, 0)
            BY <1>3, <3>1 DEF AInv, AgreeAt
        <3>3. Agree({v}, 0, 0)'
            BY <1>1, <3>1, <3>2 DEF Agree, Elems
        <3> QED
            BY <3>1, <3>3 DEF AgreeAt, Agree, Expiring, FreeOldestPcs
    <2>2. CASE free_dequeue(p)
        <3>1. /\ pc[p] = "free_dequeue" /\ pc'[p] = "free_account" /\ loc' = loc
              /\ used_queue' = Tail(used_queue)
              /\ UNCHANGED <<rbtree, free_queue, buffers_read, live>>
            BY <2>2, FreeFacts
        <3>2. Agree({v}, 0, 0)
            BY <1>3, <3>1 DEF AInv, AgreeAt
        <3>3. used_queue # <<>> /\ v = Head(used_queue)
            BY <3>1 DEF IInv, LocalsOK
        <3>4. Elems(used_queue) = Elems(Tail(used_queue)) \cup {v} /\ v \notin Elems(Tail(used_queue))
            BY <1>4, <3>3, ElemsTail DEF IInv, QueuesOK
        <3>5. Elems(used_queue)' = Elems(Tail(used_queue))
            BY <3>1 DEF Elems
        <3>6. Len(used_queue') = Len(used_queue) - 1
            BY <1>4, <3>1, <3>3, TailFacts
        <3>7. rbtree' = Elems(used_queue)' \ {}
            BY <3>1, <3>2, <3>4, <3>5 DEF Agree
        <3>8. Len(used_queue') + Len(free_queue') + 1 = Len(used_queue) + Len(free_queue) + 0
            <4>1. Len(free_queue') = Len(free_queue)
                BY <3>1
            <4>2. Len(used_queue) \in Nat /\ Len(free_queue) \in Nat
                BY <1>4
            <4> QED
                BY <3>6, <4>1, <4>2
        <3>9. Agree({}, 1, 0)'
            BY <1>1, <1>4, <3>1, <3>2, <3>6, <3>7, <3>8 DEF Agree
        <3> QED
            BY <3>1, <3>9 DEF AgreeAt, Agree, Expiring, FreeOldestPcs
    <2>3. CASE free_account(p)
        <3>1. /\ pc[p] = "free_account" /\ pc'[p] = loc[p].caller
              /\ free_queue' = Append(free_queue, v)
              /\ buffers_read' = ReadAfterFree(p) /\ live' = live - 1
              /\ UNCHANGED <<rbtree, used_queue>>
            BY <2>3, FreeFacts
        <3>2. Agree({}, 1, 0)
            BY <1>3, <3>1 DEF AInv, AgreeAt
        <3>3. Len(free_queue') = Len(free_queue) + 1
            BY <1>1, <1>4, <3>1
        <3>4. Len(used_queue') + Len(free_queue') + 0 = Len(used_queue) + Len(free_queue) + 1
            BY <1>4, <3>1, <3>3
        <3>5. used_queue = <<>> => buffers_read' = BuffersEnd
            BY <3>1 DEF ReadAfterFree
        <3>6. Agree({}, 0, 0)'
            BY <1>1, <1>4, <3>1, <3>2, <3>4, <3>5 DEF Agree, Elems
        <3> QED
            BY <1>1, <3>1, <3>6 DEF AgreeAt, Expiring, FreeOldestPcs
    <2> QED
        BY <2>1, <2>2, <2>3
<1> QED
    BY <1>1, <1>2, <1>3, <1>5 DEF AInv

\* So does each step that fills the new entry.
LEMMA FillAInv ==
    ASSUME IInv, TInv, AInv, NEW p \in Procs, store_init_entry(p)
    PROVE  AInv'
<1> DEFINE x == loc[p].entry
<1>1. /\ mutex = p /\ mutex' = p /\ OthersStay(p) /\ loc' = loc
      /\ pc[p] = "init_entry" /\ pc'[p] = "commit" /\ free_queue # <<>>
      /\ x \in EntryAddrs /\ x \notin Elems(used_queue)
      /\ used_queue' = Append(used_queue, x) /\ free_queue' = Tail(free_queue)
      /\ UNCHANGED <<rbtree, entries_end, buffers_start, buffers_read, live>>
    BY FillFacts
<1>2. \A q \in Procs : q # p => pc'[q] \notin StorePcs /\ ~Expiring(q)'
    BY <1>1, OtherAgree DEF OthersStay, IInv
<1>3. /\ used_queue \in Seq(EntryAddrs) /\ free_queue \in Seq(EntryAddrs)
      /\ Len(used_queue) \in Nat /\ Len(free_queue) \in Nat /\ live \in Int
      /\ EntrySize \in Nat /\ entries_end \in Nat
    BY SizesAssumption DEF IInv, TypeOK
<1>4. Agree({}, 0, 0)
    BY <1>1 DEF AInv, AgreeAt, StorePcs
<1>5. Elems(used_queue)' = Elems(used_queue) \cup {x}
    <2>1. Elems(used_queue)' = Elems(Append(used_queue, x))
        BY <1>1 DEF Elems
    <2> QED
        BY <1>1, <1>3, <2>1, ElemsAppend
<1>6. Len(used_queue') = Len(used_queue) + 1 /\ used_queue' # <<>>
    BY <1>1, <1>3, AppendFacts
<1>7. Len(free_queue') = Len(free_queue) - 1
    BY <1>1, <1>3, TailFacts
<1>8. Len(used_queue') + Len(free_queue') + 0 = Len(used_queue) + Len(free_queue) + 0
    BY <1>3, <1>6, <1>7
<1>9. Agree({x}, 0, 1)'
    BY <1>1, <1>3, <1>4, <1>5, <1>6, <1>8 DEF Agree
<1>10. AgreeAt(p)' /\ ~Expiring(p)'
    BY <1>1, <1>9 DEF AgreeAt, Agree, Expiring, FreeOldestPcs
<1>11. mutex' # None
    BY <1>1, ProcsAssumption
<1> QED
    BY <1>1, <1>2, <1>10, <1>11 DEF AInv

\* So does the last step of a store.
LEMMA CommitAInv ==
    ASSUME IInv, TInv, AInv, NEW p \in Procs, store_commit(p)
    PROVE  AInv'
<1> DEFINE x == loc[p].entry
<1>1. /\ mutex = p /\ OthersStay(p) /\ pc[p] = "commit" /\ pc'[p] = "copy"
      /\ rbtree' = rbtree \cup {x} /\ live' = live + 1
      /\ UNCHANGED <<used_queue, free_queue, entries_end, buffers_start, buffers_read>>
    BY CommitFacts
<1>2. \A q \in Procs : q # p => pc'[q] \notin StorePcs /\ ~Expiring(q)'
    BY <1>1, OtherAgree DEF OthersStay, IInv
<1>3. Agree({x}, 0, 1) /\ x \in Elems(used_queue)
    BY <1>1 DEF AInv, AgreeAt, StorePcs, TInv, StoreOK, CommitOK
<1>4. live \in Int /\ Elems(used_queue)' = Elems(used_queue)
    BY <1>1 DEF IInv, TypeOK, Elems
<1>5. Agree({}, 0, 0)'
    BY <1>1, <1>3, <1>4 DEF Agree
<1>6. pc'[p] \notin StorePcs /\ ~Expiring(p)'
    BY <1>1 DEF StorePcs, FreeOldestPcs, Expiring
<1> QED
    BY <1>1, <1>2, <1>5, <1>6 DEF AInv

\* Every step keeps the structures in agreement.
LEMMA NextAInv ==
    ASSUME NoKillWhileExpiring
    PROVE  IInv /\ TInv /\ AInv /\ [Next]_vars => AInv'
<1> SUFFICES ASSUME IInv, TInv, AInv, [Next]_vars PROVE AInv'
    OBVIOUS
<1> QED
    BY NextCases, BeginAInv, DecidingAInv, FreeAInv, FillAInv, CommitAInv, OutsideAInv,
       QuietAInv

\* Between two operations of a usable cache the tree, the two queues, the entries
\* array and the statistics describe the same set of entries, for every number of
\* workers and every zone: the reset flag is on whenever a kill could have left
\* them half updated.
THEOREM Consistency ==
    ASSUME NoKillWhileExpiring
    PROVE  Spec => []StructuresAgree
<1>1. IInv /\ TInv /\ AInv => StructuresAgree
    <2> SUFFICES ASSUME IInv, TInv, AInv, mutex = None, ~reset
                 PROVE  /\ rbtree = Elems(used_queue)
                        /\ Cardinality(rbtree) = Len(used_queue)
                        /\ Elems(used_queue) \cap Elems(free_queue) = {}
                        /\ Cardinality(Elems(free_queue)) = Len(free_queue)
                        /\ (Len(used_queue) + Len(free_queue)) * EntrySize = entries_end
                        /\ \A d, e \in rbtree : entry[d].key = entry[e].key => d = e
                        /\ live <= Len(used_queue)
                        /\ ~StatsReset => live = Len(used_queue)
        BY DEF StructuresAgree
    <2>1. Agree({}, 0, 0)
        BY DEF AInv
    <2>2. /\ used_queue \in Seq(EntryAddrs) /\ free_queue \in Seq(EntryAddrs)
          /\ Len(used_queue) \in Nat /\ Len(free_queue) \in Nat /\ live \in Int
        BY DEF IInv, TypeOK
    <2>3. rbtree = Elems(used_queue)
        BY <2>1 DEF Agree
    <2>4. /\ Cardinality(Elems(used_queue)) = Len(used_queue)
          /\ Cardinality(Elems(free_queue)) = Len(free_queue)
        BY <2>2, ElemsCount DEF IInv, QueuesOK
    <2>5. Elems(used_queue) \cap Elems(free_queue) = {}
        BY DEF IInv, QueuesOK, Elems
    <2>6. /\ (Len(used_queue) + Len(free_queue)) * EntrySize = entries_end
          /\ live <= Len(used_queue)
          /\ ~StatsReset => live = Len(used_queue)
        <3>1. /\ Len(used_queue) + Len(free_queue) + 0 = Len(used_queue) + Len(free_queue)
              /\ live + 0 - 0 = live
            BY <2>2
        <3> QED
            BY <2>1, <3>1 DEF Agree
    <2> QED
        BY <2>3, <2>4, <2>5, <2>6 DEF TInv, KeysUnique
<1>2. IInv /\ TInv /\ AInv /\ [Next]_vars => AInv'
    BY NextAInv
<1> QED
    BY InitAInv, <1>1, <1>2, TreeInvariance, PTL DEF Spec

-----------------------------------------------------------------------------
(* A store that fits *)

\* The zone holds at least one entry besides a buffer.
ZoneHoldsAnEntry == EntrySize < BuffersEnd

\* A step of another process, or one that does not change where p is.
LEMMA OwnStep ==
    ASSUME IInv, NEW p \in Procs, [Next]_vars, pc'[p] # pc[p],
           pc[p] \in {"get_free_entry", "find_room"}
    PROVE  get_free_entry(p) \/ find_room(p) \/ crash(p)
<1>0. pc \in [Procs -> Pcs]
    BY DEF IInv, TypeOK
<1>1. ASSUME NEW q \in Procs, NEW k \in Keys, NEW n \in Sizes, store_begin(q, k, n)
      PROVE  FALSE
    BY <1>0, <1>1 DEF store_begin, Goto
<1>2. ASSUME NEW q \in Procs, store_step(q) PROVE get_free_entry(p) \/ find_room(p)
    <2>1. CASE q # p
        <3>1. \/ pc' = pc
              \/ \E label : pc' = [pc EXCEPT ![q] = label]
            BY <1>2 DEF store_step, free_unlink, free_dequeue, free_account, store_expire,
               store_lookup, get_free_entry, get_free_buffer, find_room, store_init_entry,
               store_commit, store_copy, store_set_ready, store_unref, Goto,
               UnlockAndReturn, CallFreeOldest, StoreError
        <3> QED
            BY <1>0, <2>1, <3>1, SMTT(60)
    <2>2. CASE q = p
        BY <1>2, <2>2 DEF store_step, free_unlink, free_dequeue, free_account, store_expire,
               store_lookup, get_free_buffer, store_init_entry,
               store_commit, store_copy, store_set_ready, store_unref
    <2> QED
        BY <2>1, <2>2
<1>3. ASSUME NEW q \in Procs, (\E k \in Keys : fetch(q, k)) \/ release(q) \/ abandon(q)
      PROVE  FALSE
    BY <1>0, <1>3 DEF fetch, release, abandon, Goto
<1>4. ASSUME NEW q \in Procs, crash(q) PROVE crash(p)
    BY <1>0, <1>4 DEF crash, Goto
<1>5. ASSUME \/ tick \/ reset_stats \/ UNCHANGED vars
             \/ \E q \in Procs : refresh_time(q) \/ store_refused(q)
      PROVE  FALSE
    BY <1>5 DEF tick, reset_stats, refresh_time, store_refused, vars
<1> QED
    BY <1>1, <1>2, <1>3, <1>4, <1>5 DEF Next

\* get_free_entry and the loop of get_free_buffer return an error only when the
\* oldest entry is locked: with every queue empty an entry can be added, and with
\* no used entry the heads are in the layout that can always be written to.
THEOREM GivesUpOnlyIfLocked ==
    ASSUME NoKillWhileExpiring, ZoneHoldsAnEntry
    PROVE  Spec => RoomUnlessLocked
<1> DEFINE Room == \A p \in Procs :
        /\ pc[p] \in {"get_free_entry", "find_room"}
        /\ pc'[p] = "idle"
        /\ losses' = losses
        => used_queue # <<>> /\ EntryLocked(p, Head(used_queue))
<1>1. ASSUME IInv, TInv, AInv, [Next]_vars PROVE Room
    <2> SUFFICES ASSUME NEW p \in Procs, pc[p] \in {"get_free_entry", "find_room"},
                        pc'[p] = "idle", losses' = losses
                 PROVE  used_queue # <<>> /\ EntryLocked(p, Head(used_queue))
        OBVIOUS
    <2>1. ~crash(p)
        <3>1. losses \in Nat
            BY <1>1 DEF IInv, TypeOK
        <3> QED
            BY <3>1 DEF crash
    <2>2. get_free_entry(p) \/ find_room(p)
        BY <1>1, <2>1, OwnStep
    <2>3. Agree({}, 0, 0)
        BY <1>1 DEF AInv, AgreeAt, StorePcs
    <2>4. /\ pc \in [Procs -> Pcs] /\ entries_end \in Nat /\ buffers_start \in Int
          /\ buffers_read \in Int /\ buffers_write \in Int
          /\ buffers_write <= BuffersEnd
          /\ EntrySize \in Nat /\ BuffersEnd \in Nat
        BY <1>1, SizesAssumption DEF IInv, TypeOK, HeadsOK
    <2>5. ~CanFreeOldest(p, 0) /\ used_queue # <<>>
        <3>1. CASE get_free_entry(p)
            <4>1. free_queue = <<>> /\ ~EntriesCanGrow /\ ~CanFreeOldest(p, 0)
                BY <2>4, <3>1 DEF get_free_entry, Goto, CallFreeOldest
            <4>2. used_queue # <<>>
                <5> SUFFICES ASSUME used_queue = <<>> PROVE FALSE
                    OBVIOUS
                <5>1. Len(used_queue) = 0 /\ Len(free_queue) = 0
                    BY <4>1
                <5>2. entries_end = 0
                    BY <2>3, <2>4, <5>1 DEF Agree
                <5>3. buffers_start = BuffersEnd
                    BY <1>1, <5>2 DEF AInv
                <5> QED
                    BY <2>4, <4>1, <5>2, <5>3 DEF EntriesCanGrow, ZoneHoldsAnEntry
            <4> QED
                BY <4>1, <4>2
        <3>2. CASE find_room(p)
            <4>1. ~WriteBelowRead /\ ~CanFreeOldest(p, 0)
                BY <2>4, <3>2 DEF find_room, Goto, CallFreeOldest
            <4>2. used_queue # <<>>
                <5> SUFFICES ASSUME used_queue = <<>> PROVE FALSE
                    OBVIOUS
                <5>1. buffers_read = BuffersEnd
                    BY <2>3 DEF Agree
                <5> QED
                    BY <2>4, <4>1, <5>1 DEF WriteBelowRead
            <4> QED
                BY <4>1, <4>2
        <3> QED
            BY <2>2, <3>1, <3>2
    <2> QED
        BY <2>5 DEF CanFreeOldest
<1>2. IInv /\ TInv /\ AInv /\ [Next]_vars => [Room]_vars
    BY <1>1
<1>3. IInv /\ TInv /\ AInv /\ [Next]_vars => AInv'
    BY NextAInv
<1> QED
    BY InitAInv, <1>2, <1>3, TreeInvariance, PTL DEF Spec, RoomUnlessLocked
=============================================================================
