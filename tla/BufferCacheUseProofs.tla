------------------------ MODULE BufferCacheUseProofs -------------------------
(***************************************************************************)
(* Proofs about BufferCache: what a process uses outside the mutex stays   *)
(* as it is, its references are counted, and the cache implements          *)
(* LossyCache.                                                             *)
(*                                                                         *)
(* A process that copies into a buffer or reads one holds no lock.  It is  *)
(* protected by the access times: the entry it uses, and the zone, were    *)
(* accessed at most MaxLag seconds before its cached time, that time is    *)
(* at most MaxLag behind the clock, and nobody frees an entry or resets    *)
(* the zone within the lock expiration of such an access.                  *)
(***************************************************************************)
EXTENDS BufferCacheTreeProofs

\* There are finitely many workers, a handler that uses a buffer ends before the
\* cached time of its worker moves, and the locks outlast two such handlers.
LocksOutlastHandlers ==
    /\ IsFiniteSet(Procs)
    /\ ~HoldAcrossHandlers
    /\ 2 * MaxLag < ENTRY_LOCK_EXPIRATION
    /\ 2 * MaxLag < CACHE_LOCK_EXPIRATION

ClockOK == \A p \in Procs : now[p] <= clock /\ clock <= now[p] + MaxLag

\* p completes a store or reads what it fetched.
User(p) == pc[p] \in WritePcs \cup {"hold"}

\* The entry p uses is linked, is the one p means, was accessed recently, and
\* holds the bytes of its key once they are copied.
UserOK(p) ==
    User(p) =>
        /\ loc[p].entry \in rbtree
        /\ entry[loc[p].entry].key = loc[p].key
        /\ entry[loc[p].entry].start_offset = loc[p].buffer_start
        /\ entry[loc[p].entry].buffer_size = loc[p].size - 1
        /\ now[p] <= entry[loc[p].entry].access_time + MaxLag
        /\ now[p] <= sh_access_time + MaxLag
        /\ pc[p] # "copy" => entry[loc[p].entry].data = loc[p].key
        /\ pc[p] = "hold" => entry[loc[p].entry].state = "READY"

\* What the process in the critical section knows of the users.
OwnerOK(p) ==
    /\ pc[p] = "free_unlink" => Users(loc[p].victim) = {}
    /\ pc[p] = "commit" => /\ entry[loc[p].entry].ref_count = 1
                           /\ entry[loc[p].entry].state = "ALLOCATED"

UInv ==
    /\ ClockOK
    /\ ReadyIsComplete
    /\ ReferencesCounted
    /\ \A p \in Procs : UserOK(p) /\ OwnerOK(p)

-----------------------------------------------------------------------------
(* Lemmas *)

\* The users of an entry can be counted.
LEMMA UsersCounted ==
    ASSUME LocksOutlastHandlers, NEW e
    PROVE  /\ IsFiniteSet(Users(e)) /\ Cardinality(Users(e)) \in Nat
           /\ Users(e) # {} => Cardinality(Users(e)) >= 1
<1>1. IsFiniteSet(Users(e))
    <2>1. Users(e) \in SUBSET Procs
        BY DEF Users
    <2> QED
        BY <2>1, FS_Subset DEF LocksOutlastHandlers
<1>2. Cardinality(Users(e)) \in Nat
    BY <1>1, FS_CardinalityType
<1>3. Users(e) # {} => Cardinality(Users(e)) # 0
    BY <1>1, FS_EmptySet
<1> QED
    BY <1>1, <1>2, <1>3

\* The cached times of two processes are at most MaxLag apart.
LEMMA TimesClose ==
    ASSUME IInv, ClockOK, NEW p \in Procs, NEW q \in Procs
    PROVE  now[q] \in Nat /\ now[p] \in Nat /\ now[q] <= now[p] + MaxLag
<1>1. now[p] \in Nat /\ now[q] \in Nat /\ clock \in Nat /\ MaxLag \in Nat
    BY TimesAssumption DEF IInv, TypeOK
<1> QED
    BY <1>1 DEF ClockOK

\* An entry that is not locked has no users: their references are counted and
\* their accesses are recent.
LEMMA UnlockedUnused ==
    ASSUME LocksOutlastHandlers, IInv, UInv, NEW p \in Procs, NEW e \in EntryAddrs,
           ~EntryLocked(p, e)
    PROVE  Users(e) = {}
<1> SUFFICES ASSUME NEW q \in Users(e) PROVE FALSE
    OBVIOUS
<1>1. q \in Procs /\ User(q) /\ loc[q].entry = e
    BY DEF Users, User
<1>2. e \in rbtree /\ now[q] <= entry[e].access_time + MaxLag
    BY <1>1 DEF UInv, UserOK
<1>3. entry[e].ref_count \in Int /\ entry[e].access_time \in Nat
    BY DEF IInv, TypeOK, Entry
<1>4. entry[e].ref_count # 0
    <2>1. Cardinality(Users(e)) \in Nat /\ Cardinality(Users(e)) >= 1
        BY UsersCounted
    <2>2. entry[e].ref_count >= Cardinality(Users(e))
        BY <1>2 DEF UInv, ReferencesCounted
    <2> QED
        BY <1>3, <2>1, <2>2
<1>5. now[p] \in Nat /\ now[q] \in Nat /\ now[p] <= now[q] + MaxLag
    BY <1>1, TimesClose DEF UInv
<1>6. now[p] >= entry[e].access_time + ENTRY_LOCK_EXPIRATION
    BY <1>3, <1>4, <1>5, TimesAssumption DEF EntryLocked
<1> QED
    BY <1>2, <1>3, <1>5, <1>6, TimesAssumption DEF LocksOutlastHandlers

\* When a reset is allowed nobody uses anything.
LEMMA ResetUnused ==
    ASSUME LocksOutlastHandlers, IInv, UInv, NEW p \in Procs, ResetAllowed(p),
           NEW q \in Procs
    PROVE  ~User(q)
<1> SUFFICES ASSUME User(q) PROVE FALSE
    OBVIOUS
<1>1. now[q] <= sh_access_time + MaxLag /\ sh_access_time \in Nat
    BY DEF UInv, UserOK, IInv, TypeOK
<1>2. now[p] \in Nat /\ now[q] \in Nat /\ now[p] <= now[q] + MaxLag
    BY TimesClose DEF UInv
<1> QED
    BY <1>1, <1>2, TimesAssumption DEF LocksOutlastHandlers, ResetAllowed

\* The users of an entry change only with the process that moves.
LEMMA UsersOfOthers ==
    ASSUME NEW p \in Procs, OthersStay(p), NEW e
    PROVE  /\ Users(e)' \subseteq Users(e) \cup {p}
           /\ Users(e) \subseteq Users(e)' \cup {p}
           /\ p \in Users(e) <=> User(p) /\ loc[p].entry = e
           /\ p \in Users(e)' <=> User(p)' /\ loc'[p].entry = e
    BY DEF Users, User, OthersStay

\* A step of a process that is no user before or after it: it may unlink unused
\* entries and change the ones that are not linked.
Unnoticed(p) ==
    /\ ~User(p) /\ ~User(p)' /\ OthersStay(p)
    /\ rbtree' \subseteq rbtree
    /\ \A e \in rbtree' : entry'[e] = entry[e]
    /\ \A e \in rbtree : e \in rbtree' \/ Users(e) = {}
    /\ UNCHANGED <<sh_access_time, clock, now>>

\* A step that no user of a buffer notices keeps what the counters say of the users.
LEMMA UnnoticedFrame ==
    ASSUME UInv, NEW p \in Procs, Unnoticed(p)
    PROVE  /\ ClockOK' /\ ReadyIsComplete' /\ ReferencesCounted'
           /\ \A q \in Procs : UserOK(q)'
           /\ \A e : Users(e)' = Users(e)
<1>1. \A e : Users(e)' = Users(e)
    BY UsersOfOthers DEF Unnoticed
<1>2. ClockOK'
    BY DEF UInv, ClockOK, Unnoticed
<1>3. ReadyIsComplete'
    BY DEF UInv, ReadyIsComplete, Unnoticed
<1>4. ReferencesCounted'
    BY <1>1 DEF UInv, ReferencesCounted, Unnoticed
<1>5. ASSUME NEW q \in Procs, User(q)' PROVE UserOK(q)'
    <2>1. q # p /\ pc'[q] = pc[q] /\ loc'[q] = loc[q] /\ User(q)
        BY <1>5 DEF Unnoticed, OthersStay, User
    <2>2. loc[q].entry \in rbtree /\ UserOK(q)
        BY <2>1 DEF UInv, UserOK
    <2>3. q \in Users(loc[q].entry)
        BY <2>1 DEF Users, User
    <2>4. loc[q].entry \in rbtree' /\ entry'[loc[q].entry] = entry[loc[q].entry]
        BY <2>2, <2>3 DEF Unnoticed
    <2> QED
        BY <2>1, <2>2, <2>4 DEF UserOK, User, Unnoticed
<1> QED
    BY <1>1, <1>2, <1>3, <1>4, <1>5 DEF UserOK

\* The others while p may be in the critical section.
LEMMA OtherOwners ==
    ASSUME StoreOwner, NEW p \in Procs, mutex = p \/ mutex = None,
           NEW q \in Procs, q # p, pc'[q] = pc[q]
    PROVE  OwnerOK(q)'
<1>1. pc'[q] \notin StorePcs
    BY ProcsAssumption DEF StoreOwner
<1> QED
    BY <1>1 DEF OwnerOK, StorePcs, FreeOldestPcs

\* The use invariant holds initially.
LEMMA InitUInv == LocksOutlastHandlers /\ Init => UInv
<1> SUFFICES ASSUME Init PROVE UInv
    OBVIOUS
<1>1. \A p \in Procs : pc[p] = "idle" /\ now[p] = 0
    BY DEF Init
<1>2. rbtree = {} /\ clock = 0
    BY DEF Init
<1>3. ClockOK
    BY <1>1, <1>2, TimesAssumption DEF ClockOK
<1>4. \A p \in Procs : UserOK(p) /\ OwnerOK(p)
    BY <1>1 DEF UserOK, OwnerOK, User, WritePcs
<1> QED
    BY <1>2, <1>3, <1>4 DEF UInv, ReadyIsComplete, ReferencesCounted

-----------------------------------------------------------------------------
(* The steps inside the critical section *)

\* Taking the lock preserves the use invariant.
LEMMA BeginUInv ==
    ASSUME LocksOutlastHandlers, IInv, TInv, UInv,
           NEW p \in Procs, NEW k \in Keys, NEW n \in Sizes, store_begin(p, k, n)
    PROVE  Unnoticed(p) /\ UInv'
<1>1. /\ mutex = None /\ OthersStay(p) /\ UNCHANGED <<clock, now>> /\ pc[p] = "idle"
      /\ pc'[p] \in {"lookup", "expire", "get_free_entry"}
    BY DEF store_begin, Goto, OthersStay, IInv, TypeOK, time
<1>2. Unnoticed(p)
    <2>1. ~User(p) /\ ~User(p)'
        BY <1>1 DEF User, WritePcs
    <2>2. CASE ~reset
        BY <1>1, <2>1, <2>2 DEF store_begin, sh, Unnoticed
    <2>3. CASE reset
        <3>1. rbtree' = {} /\ UNCHANGED sh_access_time /\ ResetAllowed(p)
            BY <2>3 DEF store_begin, cache_reset
        <3>2. \A q \in Procs : ~User(q)
            BY <3>1, ResetUnused
        <3>3. \A e : Users(e) = {}
            BY <3>2 DEF Users, User
        <3> QED
            BY <1>1, <2>1, <3>1, <3>3 DEF Unnoticed
    <2> QED
        BY <2>2, <2>3
<1>3. OwnerOK(p)'
    BY <1>1 DEF OwnerOK
<1>4. \A q \in Procs : q # p => OwnerOK(q)'
    BY <1>1, OtherOwners DEF OthersStay, IInv
<1> QED
    BY <1>2, <1>3, <1>4, UnnoticedFrame DEF UInv

\* A store that has not taken its entry yet preserves the use invariant.
LEMMA DecidingUInv ==
    ASSUME LocksOutlastHandlers, IInv, TInv, UInv, NEW p \in Procs, Deciding(p)
    PROVE  Unnoticed(p) /\ UInv'
<1>1. /\ pc[p] \in {"expire", "lookup", "get_free_entry", "get_free_buffer", "find_room"}
      /\ mutex = p /\ OthersStay(p)
      /\ UNCHANGED <<sh_access_time, rbtree, used_queue, time>>
      /\ \A e \in EntryAddrs : e # entries_end => entry'[e] = entry[e]
      /\ Leaves(p) \/ Frees(p) \/ Proceeds(p)
    BY DecidingFacts
<1>2. \A e \in rbtree : entry'[e] = entry[e]
    BY <1>1, UsedBelowEnd DEF TInv, LinkedUsed
<1>3. ~User(p) /\ ~User(p)'
    BY <1>1 DEF User, WritePcs, Leaves, Frees, Proceeds
<1>4. Unnoticed(p)
    BY <1>1, <1>2, <1>3 DEF Unnoticed, time
<1>5. OwnerOK(p)'
    <2>1. CASE Frees(p)
        <3>1. /\ pc'[p] = "free_unlink" /\ loc'[p].victim = Head(used_queue)
              /\ used_queue # <<>> /\ ~EntryLocked(p, Head(used_queue))
            BY <2>1 DEF Frees
        <3>2. Head(used_queue) \in EntryAddrs
            BY <3>1, TailFacts DEF IInv, TypeOK
        <3>3. Users(Head(used_queue)) = {}
            BY <3>1, <3>2, UnlockedUnused
        <3>4. Users(Head(used_queue))' = {}
            <4>1. \A e : Users(e)' = Users(e)
                BY <1>4, UnnoticedFrame
            <4> QED
                BY <1>1, <3>3, <4>1 DEF Users
        <3> QED
            BY <1>1, <3>1, <3>4 DEF OwnerOK, Users
    <2>2. CASE Leaves(p) \/ Proceeds(p)
        BY <2>2 DEF Leaves, Proceeds, OwnerOK
    <2> QED
        BY <1>1, <2>1, <2>2
<1>6. \A q \in Procs : q # p => OwnerOK(q)'
    BY <1>1, OtherOwners DEF OthersStay, IInv
<1> QED
    BY <1>4, <1>5, <1>6, UnnoticedFrame DEF UInv

\* Freeing an entry preserves the use invariant.
LEMMA FreeUInv ==
    ASSUME LocksOutlastHandlers, IInv, TInv, UInv, NEW p \in Procs,
           free_unlink(p) \/ free_dequeue(p) \/ free_account(p)
    PROVE  Unnoticed(p) /\ UInv'
<1> DEFINE v == loc[p].victim
<1>1. /\ mutex = p /\ OthersStay(p) /\ pc[p] \in FreeOldestPcs /\ v \in EntryAddrs
      /\ loc[p].caller \in {"expire", "get_free_entry", "find_room"}
      /\ UNCHANGED <<sh_access_time, time>>
      /\ \A e \in EntryAddrs : e # v => entry'[e] = entry[e]
    BY FreeFacts
<1>2. rbtree \subseteq EntryAddrs
    BY DEF IInv, TypeOK
<1>3. /\ pc'[p] \in {"free_dequeue", "free_account", "expire", "get_free_entry", "find_room"}
      /\ rbtree' \subseteq rbtree /\ v \notin rbtree'
      /\ \A e \in rbtree : e \in rbtree' \/ Users(e) = {}
    <2>1. CASE free_unlink(p)
        <3>1. pc[p] = "free_unlink" /\ pc'[p] = "free_dequeue" /\ rbtree' = rbtree \ {v}
            BY <2>1, FreeFacts
        <3>2. Users(v) = {}
            BY <3>1 DEF UInv, OwnerOK
        <3> QED
            BY <3>1, <3>2
    <2>2. CASE free_dequeue(p)
        <3>1. pc[p] = "free_dequeue" /\ pc'[p] = "free_account" /\ rbtree' = rbtree
            BY <2>2, FreeFacts
        <3> QED
            BY <3>1 DEF TInv, StoreOK
    <2>3. CASE free_account(p)
        <3>1. pc[p] = "free_account" /\ pc'[p] = loc[p].caller /\ rbtree' = rbtree
            BY <2>3, FreeFacts
        <3> QED
            BY <1>1, <3>1 DEF TInv, StoreOK
    <2> QED
        BY <2>1, <2>2, <2>3
<1>4. ~User(p) /\ ~User(p)'
    BY <1>1, <1>3 DEF User, WritePcs, FreeOldestPcs
<1>5. Unnoticed(p)
    BY <1>1, <1>2, <1>3, <1>4 DEF Unnoticed, time
<1>6. OwnerOK(p)'
    BY <1>3 DEF OwnerOK
<1>7. \A q \in Procs : q # p => OwnerOK(q)'
    BY <1>1, OtherOwners DEF OthersStay, IInv
<1> QED
    BY <1>5, <1>6, <1>7, UnnoticedFrame DEF UInv

\* Each step that fills the new entry preserves the use invariant.
LEMMA FillUInv ==
    ASSUME LocksOutlastHandlers, IInv, TInv, UInv, NEW p \in Procs, store_init_entry(p)
    PROVE  Unnoticed(p) /\ UInv'
<1> DEFINE x == loc[p].entry
<1>1. /\ mutex = p /\ OthersStay(p) /\ loc' = loc
      /\ pc[p] = "init_entry" /\ pc'[p] = "commit"
      /\ x \in EntryAddrs /\ x \notin Elems(used_queue) /\ entry'[x] = NewEntry(p)
      /\ \A e \in EntryAddrs : e # x => entry'[e] = entry[e]
      /\ UNCHANGED <<sh_access_time, rbtree, time>>
    BY FillFacts
<1>2. x \notin rbtree /\ rbtree \subseteq EntryAddrs
    BY <1>1 DEF TInv, LinkedUsed, IInv, TypeOK
<1>3. ~User(p) /\ ~User(p)'
    BY <1>1 DEF User, WritePcs
<1>4. Unnoticed(p)
    BY <1>1, <1>2, <1>3 DEF Unnoticed, time
<1>5. OwnerOK(p)'
    BY <1>1 DEF OwnerOK, NewEntry
<1>6. \A q \in Procs : q # p => OwnerOK(q)'
    BY <1>1, OtherOwners DEF OthersStay, IInv
<1> QED
    BY <1>4, <1>5, <1>6, UnnoticedFrame DEF UInv

\* The process that commits becomes the first user of its entry.
LEMMA CommitUInv ==
    ASSUME LocksOutlastHandlers, IInv, TInv, UInv, NEW p \in Procs, store_commit(p)
    PROVE  UInv'
<1> DEFINE x == loc[p].entry
<1>1. /\ mutex = p /\ OthersStay(p) /\ loc' = loc /\ pc[p] = "commit" /\ pc'[p] = "copy"
      /\ x \in EntryAddrs /\ rbtree' = rbtree \cup {x}
      /\ sh_access_time' = now[p] /\ entry'[x].access_time = now[p]
      /\ entry'[x].state = entry[x].state /\ entry'[x].ref_count = entry[x].ref_count
      /\ SameNames /\ \A e \in EntryAddrs : e # x => entry'[e] = entry[e]
      /\ UNCHANGED <<clock, now>>
    BY CommitFacts DEF time
<1>2. /\ x \notin rbtree /\ rbtree \subseteq EntryAddrs
      /\ entry[x].key = loc[p].key /\ entry[x].start_offset = loc[p].buffer_start
      /\ entry[x].buffer_size = loc[p].size - 1
      /\ entry[x].ref_count = 1 /\ entry[x].state = "ALLOCATED"
    BY <1>1 DEF TInv, StoreOK, CommitOK, UInv, OwnerOK, IInv, TypeOK
<1>3. ~User(p) /\ User(p)'
    BY <1>1 DEF User, WritePcs
<1>4. \A e \in rbtree : e # x /\ entry'[e] = entry[e]
    BY <1>1, <1>2
<1>5. ClockOK'
    BY <1>1 DEF UInv, ClockOK
<1>6. ReadyIsComplete'
    BY <1>1, <1>2, <1>4 DEF UInv, ReadyIsComplete
<1>7. ReferencesCounted'
    <2>1. ASSUME NEW e \in rbtree PROVE Users(e)' = Users(e)
        <3>1. p \notin Users(e) /\ p \notin Users(e)'
            BY <1>1, <1>3, <1>4, UsersOfOthers
        <3> QED
            BY <1>1, <3>1, UsersOfOthers, SMTT(60)
    <2>2. Users(x)' = {p}
        <3>1. Users(x) = {}
            BY <1>2 DEF Users, UInv, UserOK, User
        <3>2. p \in Users(x)'
            BY <1>1, <1>3, UsersOfOthers
        <3> QED
            BY <1>1, <3>1, <3>2, UsersOfOthers
    <2>3. Cardinality({p}) = 1
        BY FS_Singleton
    <2>4. entry'[x].ref_count >= Cardinality(Users(x)')
        BY <1>1, <1>2, <2>2, <2>3
    <2> QED
        BY <1>1, <1>4, <2>1, <2>4 DEF UInv, ReferencesCounted
<1>8. ASSUME NEW q \in Procs PROVE UserOK(q)'
    <2>1. CASE q = p
        <3>1. now[p] \in Nat /\ MaxLag \in Nat
            BY TimesAssumption DEF IInv, TypeOK
        <3>2. now[p] <= now[p] + MaxLag
            BY <3>1
        <3> QED
            BY <1>1, <1>2, <2>1, <3>2 DEF UserOK, SameNames
    <2>2. CASE q # p
        <3>1. pc'[q] = pc[q] /\ loc'[q] = loc[q] /\ User(q)' = User(q)
            BY <1>1, <2>2 DEF OthersStay, User
        <3>2. now[q] <= now[p] + MaxLag
            BY TimesClose DEF UInv
        <3>3. User(q) => loc[q].entry \in rbtree /\ UserOK(q)
            BY DEF UInv, UserOK
        <3> QED
            BY <1>1, <1>4, <3>1, <3>2, <3>3 DEF UserOK
    <2> QED
        BY <2>1, <2>2
<1>9. \A q \in Procs : OwnerOK(q)'
    <2>1. OwnerOK(p)'
        BY <1>1 DEF OwnerOK
    <2> QED
        BY <1>1, <2>1, OtherOwners DEF OthersStay, IInv
<1> QED
    BY <1>5, <1>6, <1>7, <1>8, <1>9 DEF UInv

-----------------------------------------------------------------------------
(* The steps outside the critical section *)

\* They disturb neither the victim of an eviction nor an entry that is about to
\* be linked.
LEMMA OwnerFrame ==
    ASSUME IInv, TInv, UInv, NEW p \in Procs, OthersStay(p), UNCHANGED rbtree,
           User(p)' => User(p) /\ loc'[p].entry = loc[p].entry,
           \A e \in EntryAddrs : \/ e \in rbtree
                                 \/ /\ entry'[e].ref_count = entry[e].ref_count
                                    /\ entry'[e].state = entry[e].state,
           NEW q \in Procs, q # p
    PROVE  OwnerOK(q)'
<1>1. pc'[q] = pc[q] /\ loc'[q] = loc[q]
    BY DEF OthersStay
<1>2. ASSUME pc[q] = "free_unlink" PROVE Users(loc[q].victim)' = {}
    <2>1. Users(loc[q].victim) = {}
        BY <1>2 DEF UInv, OwnerOK
    <2>2. \A r \in Procs : ~(User(r) /\ loc[r].entry = loc[q].victim)
        BY <2>1 DEF Users, User
    <2>3. \A r \in Procs : User(r)' => User(r) /\ loc'[r].entry = loc[r].entry
        BY DEF OthersStay, User
    <2> QED
        BY <1>1, <2>2, <2>3 DEF Users, User
<1>3. ASSUME pc[q] = "commit"
      PROVE  /\ entry'[loc[q].entry].ref_count = 1
             /\ entry'[loc[q].entry].state = "ALLOCATED"
    <2>1. loc[q].entry \in EntryAddrs /\ loc[q].entry \notin rbtree /\ OwnerOK(q)
        BY <1>3 DEF IInv, LocalsOK, TInv, StoreOK, CommitOK, UInv
    <2> QED
        BY <1>3, <2>1 DEF OwnerOK
<1> QED
    BY <1>1, <1>2, <1>3 DEF OwnerOK

\* They leave the other users what they use.
LEMMA UserFrame ==
    ASSUME IInv, UInv, NEW p \in Procs, OthersStay(p), UNCHANGED <<rbtree, now>>,
           SameNames,
           \A e \in rbtree :
                /\ entry'[e].data = entry[e].data \/ entry'[e].data = entry[e].key
                /\ \/ entry'[e].access_time = entry[e].access_time
                   \/ entry'[e].access_time = now[p]
                /\ entry[e].state = "READY" => entry'[e].state = "READY",
           sh_access_time' = sh_access_time \/ sh_access_time' = now[p],
           NEW q \in Procs, q # p
    PROVE  UserOK(q)'
<1>1. pc'[q] = pc[q] /\ loc'[q] = loc[q] /\ (User(q)' <=> User(q))
    BY DEF OthersStay, User
<1> SUFFICES ASSUME User(q) PROVE UserOK(q)'
    BY <1>1 DEF UserOK
<1>2. UserOK(q) /\ loc[q].entry \in rbtree /\ loc[q].entry \in EntryAddrs
    BY DEF UInv, UserOK, IInv, TypeOK
<1>3. now[q] <= now[p] + MaxLag
    BY TimesClose DEF UInv
<1> QED
    BY <1>1, <1>2, <1>3 DEF UserOK, SameNames

\* A user that stops using its entry is counted no more.
LEMMA UsersLess ==
    ASSUME LocksOutlastHandlers, NEW p \in Procs, OthersStay(p), ~User(p)', NEW e
    PROVE  Cardinality(Users(e)') = IF User(p) /\ loc[p].entry = e
                                    THEN Cardinality(Users(e)) - 1
                                    ELSE Cardinality(Users(e))
<1>1. Users(e)' = Users(e) \ {p}
    BY UsersOfOthers
<1>2. IsFiniteSet(Users(e))
    BY UsersCounted
<1>3. Cardinality(Users(e) \ {p}) =
            IF p \in Users(e) THEN Cardinality(Users(e)) - 1 ELSE Cardinality(Users(e))
    BY <1>2, FS_RemoveElement
<1>4. p \in Users(e) <=> User(p) /\ loc[p].entry = e
    BY DEF Users, User
<1> QED
    BY <1>1, <1>3, <1>4

\* The buffer of another linked entry shares no byte with the one p copies into.
LEMMA CopyTarget ==
    ASSUME IInv, TInv, UInv, NEW p \in Procs, pc[p] = "copy", NEW e \in rbtree
    PROVE  Overlaps(e, loc[p].buffer_start, loc[p].size) <=> e = loc[p].entry
<1> DEFINE x == loc[p].entry
<1>1. /\ x \in rbtree /\ entry[x].start_offset = loc[p].buffer_start
      /\ entry[x].buffer_size = loc[p].size - 1
    BY DEF UInv, UserOK, User, WritePcs
<1>2. /\ x \in EntryAddrs /\ e \in EntryAddrs /\ loc[p].size \in Nat
      /\ loc[p].buffer_start \in Int
    BY <1>1 DEF IInv, TypeOK, Locals
<1>3. /\ entry[x].buffer_size \in Nat /\ entry[x].start_offset \in Int
      /\ entry[e].buffer_size \in Nat /\ entry[e].start_offset \in Int
    BY <1>2 DEF IInv, TypeOK, Entry
<1>4. loc[p].size = entry[x].buffer_size + 1
    BY <1>1, <1>2, <1>3
<1>5. CASE e = x
    BY <1>1, <1>3, <1>4, <1>5 DEF Overlaps
<1>6. CASE e # x
    <2>1. PICK i \in DOMAIN used_queue, j \in DOMAIN used_queue :
                e = used_queue[i] /\ x = used_queue[j]
        BY <1>1 DEF TInv, LinkedUsed, Elems
    <2>2. i # j /\ i \in Int /\ j \in Int
        BY <1>6, <2>1 DEF IInv, TypeOK
    <2>3. Older(e, x) \/ Older(x, e)
        <3>1. i < j \/ j < i
            BY <2>2
        <3> QED
            BY <2>1, <3>1 DEF IInv, RingOK
    <2>4. buffers_read \in Int /\ buffers_write \in Int
        BY DEF IInv, TypeOK
    <2>5. /\ BufferEnd(e) = entry[e].start_offset + entry[e].buffer_size + 1
          /\ BufferEnd(x) = entry[x].start_offset + entry[x].buffer_size + 1
          /\ Start(e) = entry[e].start_offset /\ Start(x) = entry[x].start_offset
        BY DEF BufferEnd, Start
    <2>6. BufferEnd(e) <= Start(x) \/ BufferEnd(x) <= Start(e)
        BY <1>3, <2>3, <2>4, <2>5 DEF Older
    <2>7. ~Overlaps(e, loc[p].buffer_start, loc[p].size)
        <3>0. \A a \in Int, n \in Nat : a + (n + 1) = a + n + 1
            OBVIOUS
        <3>1. /\ loc[p].buffer_start + loc[p].size = BufferEnd(x)
              /\ loc[p].buffer_start = Start(x)
            BY <1>1, <1>3, <1>4, <2>5, <3>0
        <3>2. /\ Start(x) \in Int /\ Start(e) \in Int
              /\ BufferEnd(x) \in Int /\ BufferEnd(e) \in Int
            BY <1>3, <2>5
        <3>3. Overlaps(e, loc[p].buffer_start, loc[p].size) <=>
                    Start(e) < BufferEnd(x) /\ Start(x) < BufferEnd(e)
            BY <2>5, <3>1 DEF Overlaps
        <3> QED
            BY <2>6, <3>2, <3>3
    <2> QED
        BY <1>6, <2>7
<1> QED
    BY <1>5, <1>6

\* Copying into the allocated buffer preserves the use invariant.
LEMMA CopyUInv ==
    ASSUME LocksOutlastHandlers, IInv, TInv, UInv, NEW p \in Procs, store_copy(p)
    PROVE  UInv'
<1> DEFINE x == loc[p].entry
<1>1. /\ pc[p] = "copy" /\ pc'[p] = "set_ready" /\ loc' = loc /\ OthersStay(p)
      /\ UNCHANGED <<rbtree, sh_access_time, clock, now>> /\ SameNames
      /\ \A e \in EntryAddrs : /\ entry'[e].state = entry[e].state
                               /\ entry'[e].ref_count = entry[e].ref_count
                               /\ entry'[e].access_time = entry[e].access_time
    BY CopyFacts DEF sh, time
<1>2. rbtree \subseteq EntryAddrs
    BY DEF IInv, TypeOK
<1>3. User(p) /\ User(p)' /\ UserOK(p) /\ x \in rbtree
    BY <1>1 DEF User, WritePcs, UInv, UserOK
<1>4. /\ \A e \in rbtree : e # x => entry'[e].data = entry[e].data
      /\ entry'[x].data = loc[p].key
    <2>1. \A e \in rbtree : Overlaps(e, loc[p].buffer_start, loc[p].size) <=> e = x
        BY <1>1, CopyTarget
    <2>2. \A e \in rbtree :
            entry'[e].data = IF Overlaps(e, loc[p].buffer_start, loc[p].size)
                             THEN IF entry[e].start_offset = loc[p].buffer_start
                                  THEN loc[p].key ELSE None
                             ELSE entry[e].data
        BY <1>2, CopyFacts
    <2>3. entry[x].start_offset = loc[p].buffer_start
        BY <1>3 DEF UserOK
    <2> QED
        BY <1>3, <2>1, <2>2, <2>3
<1>5. entry[x].key = loc[p].key
    BY <1>3 DEF UserOK
<1>6. ClockOK'
    BY <1>1 DEF UInv, ClockOK
<1>7. ReadyIsComplete'
    BY <1>1, <1>2, <1>4, <1>5 DEF UInv, ReadyIsComplete, SameNames
<1>8. ASSUME NEW e PROVE Users(e)' = Users(e)
    <2>1. p \in Users(e) <=> p \in Users(e)'
        BY <1>1, <1>3, UsersOfOthers
    <2> QED
        BY <1>1, <2>1, UsersOfOthers
<1>9. ReferencesCounted'
    BY <1>1, <1>2, <1>8 DEF UInv, ReferencesCounted
<1>10. UserOK(p)'
    BY <1>1, <1>2, <1>3, <1>4 DEF UserOK, SameNames
<1>11. \A q \in Procs : q # p => UserOK(q)'
    <2>1. \A e \in rbtree : entry'[e].data = entry[e].data \/ entry'[e].data = entry[e].key
        BY <1>4, <1>5
    <2> QED
        BY <1>1, <1>2, <2>1, UserFrame
<1>12. \A q \in Procs : OwnerOK(q)'
    <2>1. OwnerOK(p)'
        BY <1>1 DEF OwnerOK
    <2>2. \A q \in Procs : q # p => OwnerOK(q)'
        BY <1>1, <1>3, OwnerFrame
    <2> QED
        BY <2>1, <2>2
<1> QED
    BY <1>6, <1>7, <1>9, <1>10, <1>11, <1>12 DEF UInv

\* Publishing the entry preserves the use invariant.
LEMMA ReadyUInv ==
    ASSUME LocksOutlastHandlers, IInv, TInv, UInv, NEW p \in Procs, store_set_ready(p)
    PROVE  UInv'
<1> DEFINE x == loc[p].entry
<1>1. /\ pc[p] = "set_ready" /\ pc'[p] = "unref" /\ loc' = loc /\ OthersStay(p)
      /\ UNCHANGED <<rbtree, sh_access_time, clock, now>> /\ SameNames
      /\ \A e \in EntryAddrs :
            /\ entry'[e].state = IF e = x THEN "READY" ELSE entry[e].state
            /\ entry'[e].ref_count = entry[e].ref_count
            /\ entry'[e].access_time = entry[e].access_time
            /\ entry'[e].data = entry[e].data
    BY ReadyFacts DEF sh, time
<1>2. rbtree \subseteq EntryAddrs
    BY DEF IInv, TypeOK
<1>3. User(p) /\ User(p)' /\ UserOK(p) /\ x \in rbtree
    BY <1>1 DEF User, WritePcs, UInv, UserOK
<1>4. entry[x].data = entry[x].key
    BY <1>1, <1>3 DEF UserOK
<1>5. ClockOK'
    BY <1>1 DEF UInv, ClockOK
<1>6. ReadyIsComplete'
    BY <1>1, <1>2, <1>4 DEF UInv, ReadyIsComplete, SameNames
<1>7. ASSUME NEW e PROVE Users(e)' = Users(e)
    <2>1. p \in Users(e) <=> p \in Users(e)'
        BY <1>1, <1>3, UsersOfOthers
    <2> QED
        BY <1>1, <2>1, UsersOfOthers
<1>8. ReferencesCounted'
    BY <1>1, <1>2, <1>7 DEF UInv, ReferencesCounted
<1>9. UserOK(p)'
    BY <1>1, <1>2, <1>3 DEF UserOK, SameNames
<1>10. \A q \in Procs : q # p => UserOK(q)'
    BY <1>1, <1>2, UserFrame
<1>11. \A q \in Procs : OwnerOK(q)'
    <2>1. OwnerOK(p)'
        BY <1>1 DEF OwnerOK
    <2>2. \A q \in Procs : q # p => OwnerOK(q)'
        BY <1>1, <1>3, OwnerFrame
    <2> QED
        BY <2>1, <2>2
<1> QED
    BY <1>5, <1>6, <1>8, <1>9, <1>10, <1>11 DEF UInv

\* What a user that stops using its entry leaves behind.
LEMMA LeavingUInv ==
    ASSUME LocksOutlastHandlers, IInv, TInv, UInv, NEW p \in Procs,
           ~User(p)', OthersStay(p), UNCHANGED <<rbtree, sh_access_time, clock, now>>,
           SameNames, pc'[p] = "idle",
           \A e \in EntryAddrs :
                /\ entry'[e].state = entry[e].state
                /\ entry'[e].access_time = entry[e].access_time
                /\ entry'[e].data = entry[e].data
                /\ \/ entry'[e].ref_count = entry[e].ref_count
                   \/ /\ e \in rbtree /\ User(p) /\ loc[p].entry = e
                      /\ entry'[e].ref_count = entry[e].ref_count - 1
    PROVE  UInv'
<1>1. rbtree \subseteq EntryAddrs
    BY DEF IInv, TypeOK
<1>2. ClockOK'
    BY DEF UInv, ClockOK
<1>3. ReadyIsComplete'
    BY <1>1 DEF UInv, ReadyIsComplete, SameNames
<1>4. ReferencesCounted'
    <2> SUFFICES ASSUME NEW e \in rbtree
                 PROVE  entry'[e].ref_count >= Cardinality(Users(e)')
        BY DEF ReferencesCounted
    <2>1. entry[e].ref_count \in Int /\ entry[e].ref_count >= Cardinality(Users(e))
        BY <1>1 DEF IInv, TypeOK, Entry, UInv, ReferencesCounted
    <2>2. Cardinality(Users(e)) \in Nat
        BY UsersCounted
    <2>3. Cardinality(Users(e)') = IF User(p) /\ loc[p].entry = e
                                   THEN Cardinality(Users(e)) - 1
                                   ELSE Cardinality(Users(e))
        BY UsersLess
    <2>4. \/ entry'[e].ref_count = entry[e].ref_count
          \/ /\ User(p) /\ loc[p].entry = e
             /\ entry'[e].ref_count = entry[e].ref_count - 1
        BY <1>1
    <2> QED
        BY <2>1, <2>2, <2>3, <2>4
<1>5. UserOK(p)' /\ OwnerOK(p)'
    BY DEF UserOK, OwnerOK
<1>6. \A q \in Procs : q # p => UserOK(q)'
    BY <1>1, UserFrame
<1>7. \A q \in Procs : q # p => OwnerOK(q)'
    <2>1. \A e \in EntryAddrs : \/ e \in rbtree
                                \/ /\ entry'[e].ref_count = entry[e].ref_count
                                   /\ entry'[e].state = entry[e].state
        OBVIOUS
    <2> QED
        BY <2>1, OwnerFrame
<1> QED
    BY <1>2, <1>3, <1>4, <1>5, <1>6, <1>7 DEF UInv

\* Dropping a reference preserves the use invariant.
LEMMA UnrefUInv ==
    ASSUME LocksOutlastHandlers, IInv, TInv, UInv, NEW p \in Procs, store_unref(p)
    PROVE  UInv'
<1>1. /\ pc[p] = "unref" /\ pc'[p] = "idle" /\ OthersStay(p)
      /\ UNCHANGED <<rbtree, sh_access_time, clock, now>> /\ SameNames
      /\ \A e \in EntryAddrs :
            /\ entry'[e].state = entry[e].state
            /\ entry'[e].ref_count = IF e = loc[p].entry THEN entry[e].ref_count - 1
                                     ELSE entry[e].ref_count
            /\ entry'[e].access_time = entry[e].access_time
            /\ entry'[e].data = entry[e].data
    BY UnrefFacts DEF sh, time
<1>2. User(p) /\ ~User(p)' /\ loc[p].entry \in rbtree
    BY <1>1 DEF User, WritePcs, UInv, UserOK
<1> QED
    BY <1>1, <1>2, LeavingUInv

\* Releasing a held buffer preserves the use invariant.
LEMMA ReleaseUInv ==
    ASSUME LocksOutlastHandlers, IInv, TInv, UInv, NEW p \in Procs, release(p)
    PROVE  UInv'
<1>1. /\ pc[p] = "hold" /\ pc'[p] = "idle" /\ OthersStay(p)
      /\ UNCHANGED <<rbtree, sh_access_time, clock, now>> /\ SameNames
      /\ \A e \in EntryAddrs :
                /\ entry'[e].state = entry[e].state
                /\ entry'[e].access_time = entry[e].access_time
                /\ entry'[e].data = entry[e].data
                /\ \/ entry'[e].ref_count = entry[e].ref_count
                   \/ /\ e \in rbtree
                      /\ entry[e].key = loc[p].key
                      /\ entry'[e].ref_count = entry[e].ref_count - 1
    BY ReleaseFacts DEF sh, time
<1>2. /\ User(p) /\ ~User(p)' /\ loc[p].entry \in rbtree
      /\ entry[loc[p].entry].key = loc[p].key
    BY <1>1 DEF User, WritePcs, UInv, UserOK
<1>3. \A e \in rbtree : entry[e].key = loc[p].key => e = loc[p].entry
    BY <1>2 DEF TInv, KeysUnique
<1>4. \A e \in EntryAddrs : \/ entry'[e].ref_count = entry[e].ref_count
                            \/ /\ e \in rbtree /\ User(p) /\ loc[p].entry = e
                               /\ entry'[e].ref_count = entry[e].ref_count - 1
    BY <1>1, <1>2, <1>3
<1> QED
    BY <1>1, <1>2, <1>4, LeavingUInv

\* A request that gives up, and a killed worker, preserve the use invariant.
LEMMA IdleUInv ==
    ASSUME LocksOutlastHandlers, IInv, TInv, UInv, NEW p \in Procs, abandon(p) \/ crash(p)
    PROVE  UInv'
<1>1. /\ UNCHANGED <<sh, entry, clock, now>>
      /\ pc' = [pc EXCEPT ![p] = "idle"] /\ loc' = [loc EXCEPT ![p] = NoLocals]
    BY DEF abandon, crash, Goto
<1>2. OthersStay(p) /\ pc'[p] = "idle" /\ ~User(p)'
    BY <1>1 DEF OthersStay, IInv, TypeOK, User, WritePcs
<1>3. SameNames /\ UNCHANGED <<rbtree, sh_access_time, clock, now>>
    BY <1>1 DEF SameNames, sh
<1> QED
    BY <1>1, <1>2, <1>3, LeavingUInv

\* A fetch preserves the use invariant.
LEMMA FetchUInv ==
    ASSUME LocksOutlastHandlers, IInv, TInv, UInv, NEW p \in Procs, NEW k \in Keys,
           fetch(p, k)
    PROVE  UInv'
<1>1. PICK x \in rbtree :
           /\ pc[p] = "idle" /\ mutex = None
           /\ entry[x].key = k /\ entry[x].state = "READY"
           /\ pc'[p] = "hold"
           /\ loc'[p].key = k /\ loc'[p].entry = x
           /\ loc'[p].buffer_start = entry[x].start_offset
           /\ loc'[p].size = entry[x].buffer_size + 1
           /\ OthersStay(p) /\ sh_access_time' = now[p]
           /\ UNCHANGED <<rbtree, clock, now>> /\ SameNames
           /\ \A e \in EntryAddrs :
                /\ entry'[e].state = entry[e].state
                /\ entry'[e].ref_count =
                        IF e = x THEN entry[e].ref_count + 1 ELSE entry[e].ref_count
                /\ entry'[e].access_time =
                        IF e = x THEN now[p] ELSE entry[e].access_time
                /\ entry'[e].data = entry[e].data
    BY FetchFacts DEF time
<1>2. rbtree \subseteq EntryAddrs /\ x \in EntryAddrs
    BY DEF IInv, TypeOK
<1>3. ~User(p) /\ User(p)'
    BY <1>1 DEF User, WritePcs
<1>4. ClockOK'
    BY <1>1 DEF UInv, ClockOK
<1>5. ReadyIsComplete'
    BY <1>1, <1>2 DEF UInv, ReadyIsComplete, SameNames
<1>6. ReferencesCounted'
    <2> SUFFICES ASSUME NEW e \in rbtree
                 PROVE  entry'[e].ref_count >= Cardinality(Users(e)')
        BY <1>1 DEF ReferencesCounted
    <2>1. entry[e].ref_count \in Int /\ entry[e].ref_count >= Cardinality(Users(e))
        BY <1>2 DEF IInv, TypeOK, Entry, UInv, ReferencesCounted
    <2>2. IsFiniteSet(Users(e)) /\ Cardinality(Users(e)) \in Nat
        BY UsersCounted
    <2>3. p \notin Users(e)
        BY <1>3 DEF Users, User
    <2>4. CASE e = x
        <3>1. Users(e)' = Users(e) \cup {p}
            <4>1. p \in Users(e)'
                BY <1>1, <1>3, <2>4 DEF Users, User
            <4> QED
                BY <1>1, <4>1, UsersOfOthers
        <3>2. Cardinality(Users(e) \cup {p}) = Cardinality(Users(e)) + 1
            BY <2>2, <2>3, FS_AddElement
        <3> QED
            BY <1>1, <1>2, <2>1, <2>2, <2>4, <3>1, <3>2
    <2>5. CASE e # x
        <3>1. p \notin Users(e)'
            BY <1>1, <2>5 DEF Users
        <3>2. Users(e)' = Users(e)
            BY <1>1, <2>3, <3>1, UsersOfOthers
        <3> QED
            BY <1>1, <1>2, <2>1, <2>5, <3>2
    <2> QED
        BY <2>4, <2>5
<1>7. UserOK(p)'
    <2>1. now[p] \in Nat /\ MaxLag \in Nat /\ entry[x].buffer_size \in Nat
        BY <1>2, TimesAssumption DEF IInv, TypeOK, Entry
    <2>2. now[p] <= now[p] + MaxLag /\ entry[x].buffer_size = (entry[x].buffer_size + 1) - 1
        BY <2>1
    <2>3. entry[x].data = k
        BY <1>1 DEF UInv, ReadyIsComplete
    <2> QED
        BY <1>1, <1>2, <2>2, <2>3 DEF UserOK, SameNames
<1>8. \A q \in Procs : q # p => UserOK(q)'
    BY <1>1, <1>2, UserFrame
<1>9. \A q \in Procs : OwnerOK(q)'
    <2>1. OwnerOK(p)'
        BY <1>1 DEF OwnerOK
    <2> QED
        BY <1>1, <2>1, OtherOwners DEF OthersStay, IInv
<1> QED
    BY <1>4, <1>5, <1>6, <1>7, <1>8, <1>9 DEF UInv

\* Time passes only while every handler is shorter than MaxLag, and the cached
\* time of a process moves only between its handlers.
LEMMA QuietUInv ==
    ASSUME LocksOutlastHandlers, IInv, TInv, UInv,
           \/ tick \/ reset_stats \/ UNCHANGED vars
           \/ \E p \in Procs : refresh_time(p) \/ store_refused(p)
    PROVE  UInv'
<1>1. UNCHANGED <<rbtree, sh_access_time, entry, pc, loc>>
    BY DEF tick, reset_stats, refresh_time, store_refused, vars, sh
<1>2. \A e : Users(e)' = Users(e)
    BY <1>1 DEF Users
<1>3. ReadyIsComplete' /\ ReferencesCounted'
    BY <1>1, <1>2 DEF UInv, ReadyIsComplete, ReferencesCounted
<1>4. \A q \in Procs : OwnerOK(q)'
    BY <1>1 DEF UInv, OwnerOK, Users
<1>5. \A q \in Procs : User(q) => now'[q] = now[q]
    <2>1. CASE \E p \in Procs : refresh_time(p)
        <3>1. PICK p \in Procs : refresh_time(p)
            BY <2>1
        <3>2. pc[p] = "idle" /\ now' = [now EXCEPT ![p] = clock]
            BY <3>1 DEF refresh_time, LocksOutlastHandlers
        <3> QED
            BY <3>2 DEF User, WritePcs, IInv, TypeOK
    <2>2. CASE UNCHANGED now
        BY <2>2
    <2> QED
        BY <2>1, <2>2 DEF tick, reset_stats, store_refused, vars, time
<1>6. \A q \in Procs : UserOK(q)'
    BY <1>1, <1>5 DEF UInv, UserOK, User
<1>7. ClockOK'
    <2>0. /\ clock \in Nat /\ MaxLag \in Nat /\ now \in [Procs -> Nat]
        BY TimesAssumption DEF IInv, TypeOK
    <2>1. CASE tick
        <3>1. /\ \A p \in Procs : clock + 1 - now[p] <= MaxLag
              /\ clock' = clock + 1 /\ now' = now
            BY <2>1 DEF tick
        <3> QED
            BY <2>0, <3>1 DEF UInv, ClockOK
    <2>2. ASSUME NEW p \in Procs, refresh_time(p) PROVE ClockOK'
        <3>1. clock' = clock /\ now' = [now EXCEPT ![p] = clock]
            BY <2>2 DEF refresh_time
        <3> QED
            BY <2>0, <3>1 DEF UInv, ClockOK
    <2>3. CASE UNCHANGED <<clock, now>>
        BY <2>3 DEF UInv, ClockOK
    <2> QED
        BY <2>1, <2>2, <2>3 DEF reset_stats, store_refused, vars, time
<1> QED
    BY <1>3, <1>4, <1>6, <1>7 DEF UInv

\* Every step preserves the use invariant.
LEMMA NextUInv ==
    ASSUME LocksOutlastHandlers
    PROVE  IInv /\ TInv /\ UInv /\ [Next]_vars => UInv'
<1> SUFFICES ASSUME IInv, TInv, UInv, [Next]_vars PROVE UInv'
    OBVIOUS
<1> QED
    BY NextCases, BeginUInv, DecidingUInv, FreeUInv, FillUInv, CommitUInv, CopyUInv,
       ReadyUInv, UnrefUInv, FetchUInv, ReleaseUInv, IdleUInv, QuietUInv

\* The three invariants together.
THEOREM UseInvariance ==
    ASSUME LocksOutlastHandlers
    PROVE  Spec => [](IInv /\ TInv /\ UInv)
<1>1. Init => UInv
    BY InitUInv
<1>2. IInv /\ TInv /\ UInv /\ [Next]_vars => UInv'
    BY NextUInv
<1> QED
    BY <1>1, <1>2, TreeInvariance, PTL DEF Spec

\* What a fetch returns is complete, and until the handler that fetched it ends the
\* entry is neither freed, moved nor overwritten, for every number of workers, kills
\* and evictions, as long as no handler runs longer than half of the lock times.
THEOREM HeldStaysIntact ==
    ASSUME LocksOutlastHandlers
    PROVE  Spec => []HeldBufferIntact
<1>1. IInv /\ TInv /\ UInv => HeldBufferIntact
    BY DEF UInv, UserOK, User, HeldBufferIntact
<1> QED
    BY <1>1, UseInvariance, PTL

\* No unref or release, late or repeated, takes away the reference of another user.
THEOREM CountsCoverUsers ==
    ASSUME LocksOutlastHandlers
    PROVE  Spec => []ReferencesCounted
<1>1. IInv /\ TInv /\ UInv => ReferencesCounted
    BY DEF UInv
<1> QED
    BY <1>1, UseInvariance, PTL

-----------------------------------------------------------------------------
(* The refinement *)

\* The abstract state: the keys that are ready, and what each process reads.
Avail == {entry[e].key : e \in {x \in rbtree : entry[x].state = "READY"}}
Held == [p \in Procs |->
            IF pc[p] = "hold" THEN <<loc[p].key, entry[loc[p].entry].data>> ELSE <<>>]

\* What a process reads are the bytes of the key it asked for, so the abstract
\* state depends only on who reads which key.
LEMMA HeldIsKey ==
    ASSUME UInv
    PROVE  /\ \A p \in Procs : Held[p] = IF pc[p] = "hold"
                                         THEN <<loc[p].key, loc[p].key>> ELSE <<>>
           /\ Held = [p \in Procs |-> Held[p]]
    BY DEF UInv, UserOK, User, Held

\* A process that is reading keeps its key available.
LEMMA HeldAvailable ==
    ASSUME UInv, NEW q \in Procs, pc[q] = "hold"
    PROVE  /\ loc[q].entry \in rbtree /\ entry[loc[q].entry].key = loc[q].key
           /\ entry[loc[q].entry].state = "READY" /\ loc[q].key \in Avail
           /\ q \in Users(loc[q].entry)
<1>1. User(q)
    BY DEF User
<1>2. /\ loc[q].entry \in rbtree /\ entry[loc[q].entry].key = loc[q].key
      /\ entry[loc[q].entry].state = "READY"
    BY <1>1 DEF UInv, UserOK
<1> QED
    BY <1>1, <1>2 DEF Avail, Users, User

\* Steps of the abstract specification, in terms of Avail and Held.
Stutters == Avail' = Avail /\ Held' = Held
Publishes == \E k \in Keys : Avail' = Avail \cup {k} /\ Held' = Held
Loses == /\ Avail \subseteq Keys
         /\ Avail' \subseteq Avail
         /\ \A q \in Procs : pc[q] = "hold" => loc[q].key \in Avail'
         /\ Held' = Held
Fetches == \E p \in Procs : \E k \in Keys :
              /\ pc[p] # "hold" /\ k \in Avail /\ Avail' = Avail
              /\ Held' = [Held EXCEPT ![p] = <<k, k>>]
Releases == \E p \in Procs :
              /\ pc[p] = "hold" /\ Avail' = Avail
              /\ Held' = [Held EXCEPT ![p] = <<>>]

\* What a step may do to the mapped state is a step of the abstract cache or a stutter.
LEMMA AbstractStep ==
    ASSUME UInv, Stutters \/ Publishes \/ Loses \/ Fetches \/ Releases
    PROVE  [Abstract!Next]_(Abstract!vars)
<1>1. CASE Stutters
    BY <1>1 DEF Stutters, Avail, Held, Abstract!vars
<1>2. CASE Publishes
    <2>1. PICK k \in Keys : Avail' = Avail \cup {k} /\ Held' = Held
        BY <1>2 DEF Publishes
    <2>2. Abstract!Publish(k)
        BY <2>1 DEF Abstract!Publish, Avail, Held
    <2> QED
        BY <2>2 DEF Abstract!Next
<1>3. CASE Loses
    <2>0. PICK ks \in SUBSET Keys : ks = Avail \ Avail'
        BY <1>3 DEF Loses
    <2>1. Avail' = Avail \ ks /\ Held' = Held
        BY <1>3, <2>0 DEF Loses
    <2>2. \A q \in Procs : Held[q] # <<>> => Held[q][1] \notin ks
        <3>1. \A q \in Procs : Held[q] # <<>> => pc[q] = "hold" /\ Held[q][1] = loc[q].key
            BY HeldIsKey
        <3> QED
            BY <1>3, <2>0, <3>1 DEF Loses
    <2>3. ks \cap Abstract!HeldKeys = {}
        <3> SUFFICES ASSUME NEW h \in Abstract!HeldKeys PROVE h \notin ks
            OBVIOUS
        <3>1. PICK q \in {r \in Procs : Held[r] # <<>>} : h = Held[q][1]
            BY Zenon DEF Abstract!HeldKeys, Held
        <3> QED
            BY <2>2, <3>1
    <2>4. Abstract!Lose(ks)
        BY <2>1, <2>3 DEF Abstract!Lose, Avail, Held
    <2> QED
        BY <2>4 DEF Abstract!Next
<1>4. CASE Fetches
    <2>1. PICK p \in Procs, k \in Keys :
              /\ pc[p] # "hold" /\ k \in Avail /\ Avail' = Avail
              /\ Held' = [Held EXCEPT ![p] = <<k, k>>]
        BY <1>4 DEF Fetches
    <2>2. Held[p] = <<>>
        BY <2>1 DEF Held
    <2>3. Abstract!Fetch(p, k)
        BY <2>1, <2>2 DEF Abstract!Fetch, Avail, Held
    <2> QED
        BY <2>3 DEF Abstract!Next
<1>5. CASE Releases
    <2>1. PICK p \in Procs :
              /\ pc[p] = "hold" /\ Avail' = Avail
              /\ Held' = [Held EXCEPT ![p] = <<>>]
        BY <1>5 DEF Releases
    <2>2. Held[p] # <<>>
        BY <2>1 DEF Held
    <2>3. Abstract!Release(p)
        BY <2>1, <2>2 DEF Abstract!Release, Avail, Held
    <2> QED
        BY <2>3 DEF Abstract!Next
<1> QED
    BY <1>1, <1>2, <1>3, <1>4, <1>5

\* Initial states map to initial states.
LEMMA AbstractInit == Init => Abstract!Init
<1> SUFFICES ASSUME Init PROVE Abstract!Init
    OBVIOUS
<1>1. Avail = {}
    BY DEF Init, Avail
<1>2. Held = [p \in Procs |-> <<>>]
    BY DEF Init, Held
<1> QED
    BY <1>1, <1>2 DEF Abstract!Init, Avail, Held

\* Nobody starts or stops reading, and nobody's key changes.
LEMMA SameHeld ==
    ASSUME UInv, UInv', NEW p \in Procs, OthersStay(p), pc[p] # "hold", pc'[p] # "hold"
    PROVE  Held' = Held
<1>1. \A q \in Procs : Held'[q] = IF pc'[q] = "hold"
                                  THEN <<loc'[q].key, loc'[q].key>> ELSE <<>>
    BY HeldIsKey DEF UInv, UserOK, User, Held
<1>2. \A q \in Procs : Held[q] = IF pc[q] = "hold"
                                 THEN <<loc[q].key, loc[q].key>> ELSE <<>>
    BY HeldIsKey
<1>3. \A q \in Procs : Held'[q] = Held[q]
    BY <1>1, <1>2 DEF OthersStay
<1> QED
    BY <1>3 DEF Held

\* Linked entries, their keys and states determine what is available.
LEMMA SameAvail ==
    ASSUME rbtree' = rbtree,
           \A e \in rbtree : /\ entry'[e].key = entry[e].key
                             /\ entry'[e].state = entry[e].state
    PROVE  Avail' = Avail
    BY DEF Avail

\* A step that only drops unused entries is a loss of the abstract cache.
LEMMA UnnoticedLoses ==
    ASSUME TInv, UInv, UInv', NEW p \in Procs, Unnoticed(p)
    PROVE  Loses
<1>1. /\ ~User(p) /\ ~User(p)' /\ OthersStay(p) /\ rbtree' \subseteq rbtree
      /\ \A e \in rbtree' : entry'[e] = entry[e]
      /\ \A e \in rbtree : e \in rbtree' \/ Users(e) = {}
    BY DEF Unnoticed
<1>2. Held' = Held
    BY <1>1, SameHeld DEF User
<1>3. Avail \subseteq Keys /\ Avail' \subseteq Avail
    BY <1>1 DEF Avail, TInv, KeysUnique
<1>4. ASSUME NEW q \in Procs, pc[q] = "hold" PROVE loc[q].key \in Avail'
    <2>1. /\ loc[q].entry \in rbtree /\ entry[loc[q].entry].key = loc[q].key
          /\ entry[loc[q].entry].state = "READY" /\ q \in Users(loc[q].entry)
        BY <1>4, HeldAvailable
    <2>2. loc[q].entry \in rbtree' /\ entry'[loc[q].entry] = entry[loc[q].entry]
        BY <1>1, <2>1
    <2> QED
        BY <2>1, <2>2 DEF Avail
<1> QED
    BY <1>2, <1>3, <1>4 DEF Loses

\* A process that stops reading.
LEMMA LeavingReleases ==
    ASSUME UInv, UInv', NEW p \in Procs, OthersStay(p), pc'[p] = "idle",
           rbtree' = rbtree,
           \A e \in rbtree : /\ entry'[e].key = entry[e].key
                             /\ entry'[e].state = entry[e].state
    PROVE  Stutters \/ Releases
<1>1. Avail' = Avail
    BY SameAvail
<1>2. CASE pc[p] # "hold"
    BY <1>1, <1>2, SameHeld DEF Stutters
<1>3. CASE pc[p] = "hold"
    <2>1. \A q \in Procs : Held'[q] = IF pc'[q] = "hold"
                                      THEN <<loc'[q].key, loc'[q].key>> ELSE <<>>
        BY HeldIsKey DEF UInv, UserOK, User, Held
    <2>2. \A q \in Procs : Held[q] = IF pc[q] = "hold"
                                     THEN <<loc[q].key, loc[q].key>> ELSE <<>>
        BY HeldIsKey
    <2>3. \A q \in Procs : Held'[q] = IF q = p THEN <<>> ELSE Held[q]
        BY <2>1, <2>2 DEF OthersStay
    <2>4. Held' = [Held EXCEPT ![p] = <<>>]
        BY <2>3 DEF Held
    <2> QED
        BY <1>1, <1>3, <2>4 DEF Releases
<1> QED
    BY <1>2, <1>3

\* The steps that change what is stored are steps of the abstract cache.
LEMMA WriteRefines ==
    ASSUME IInv, TInv, UInv, UInv', NEW p \in Procs,
           store_commit(p) \/ store_copy(p) \/ store_set_ready(p) \/ store_unref(p)
    PROVE  Stutters \/ Publishes \/ Releases
<1>0. rbtree \subseteq EntryAddrs
    BY DEF IInv, TypeOK
<1>1. CASE store_commit(p)
    <2> DEFINE x == loc[p].entry
    <2>1. /\ pc[p] = "commit" /\ pc'[p] = "copy" /\ OthersStay(p)
          /\ rbtree' = rbtree \cup {x} /\ x \in EntryAddrs
          /\ entry'[x].state = entry[x].state
          /\ \A e \in EntryAddrs : e # x => entry'[e] = entry[e]
        BY <1>1, CommitFacts
    <2>2. entry[x].state = "ALLOCATED" /\ x \notin rbtree
        BY <2>1 DEF UInv, OwnerOK, TInv, StoreOK, CommitOK
    <2>3. /\ entry'[x].state # "READY"
          /\ \A e \in rbtree : e \in rbtree' /\ entry'[e] = entry[e]
        BY <1>0, <2>1, <2>2
    <2>4. Avail' = Avail
        BY <2>1, <2>3 DEF Avail
    <2>5. Held' = Held
        BY <2>1, SameHeld
    <2> QED
        BY <2>4, <2>5 DEF Stutters
<1>2. CASE store_copy(p)
    <2>1. /\ pc[p] = "copy" /\ pc'[p] = "set_ready" /\ OthersStay(p) /\ rbtree' = rbtree
          /\ \A e \in rbtree : /\ entry'[e].key = entry[e].key
                               /\ entry'[e].state = entry[e].state
        BY <1>0, <1>2, CopyFacts DEF sh, SameNames
    <2> QED
        BY <2>1, SameAvail, SameHeld DEF Stutters
<1>3. CASE store_set_ready(p)
    <2> DEFINE x == loc[p].entry
    <2>1. /\ pc[p] = "set_ready" /\ pc'[p] = "unref" /\ OthersStay(p) /\ rbtree' = rbtree
          /\ \A e \in rbtree :
                /\ entry'[e].key = entry[e].key
                /\ entry'[e].state = IF e = x THEN "READY" ELSE entry[e].state
        BY <1>0, <1>3, ReadyFacts DEF sh, SameNames
    <2>2. x \in rbtree /\ entry[x].key \in Keys
        BY <2>1 DEF UInv, UserOK, User, WritePcs, TInv, KeysUnique
    <2>3. Avail' = Avail \cup {entry[x].key}
        BY <2>1, <2>2 DEF Avail
    <2>4. Held' = Held
        BY <2>1, SameHeld
    <2> QED
        BY <2>2, <2>3, <2>4 DEF Publishes
<1>4. CASE store_unref(p)
    <2>1. /\ pc'[p] = "idle" /\ OthersStay(p) /\ rbtree' = rbtree
          /\ \A e \in rbtree : /\ entry'[e].key = entry[e].key
                               /\ entry'[e].state = entry[e].state
        BY <1>0, <1>4, UnrefFacts DEF sh, SameNames
    <2> QED
        BY <2>1, LeavingReleases
<1> QED
    BY <1>1, <1>2, <1>3, <1>4

\* The steps of a fetch are steps of the abstract cache.
LEMMA ReadRefines ==
    ASSUME IInv, TInv, UInv, UInv', NEW p \in Procs,
           (\E k \in Keys : fetch(p, k)) \/ release(p) \/ abandon(p) \/ crash(p)
    PROVE  Stutters \/ Fetches \/ Releases
<1>0. rbtree \subseteq EntryAddrs
    BY DEF IInv, TypeOK
<1>1. ASSUME NEW k \in Keys, fetch(p, k) PROVE Fetches
    <2>1. PICK x \in rbtree :
            /\ pc[p] = "idle" /\ entry[x].key = k /\ entry[x].state = "READY"
            /\ pc'[p] = "hold" /\ loc'[p].key = k /\ OthersStay(p) /\ rbtree' = rbtree
            /\ \A e \in EntryAddrs : /\ entry'[e].key = entry[e].key
                                     /\ entry'[e].state = entry[e].state
        BY <1>1, FetchFacts DEF SameNames
    <2>2. Avail' = Avail
        BY <1>0, <2>1, SameAvail
    <2>3. k \in Avail
        BY <2>1 DEF Avail
    <2>4. \A q \in Procs : Held'[q] = IF pc'[q] = "hold"
                                      THEN <<loc'[q].key, loc'[q].key>> ELSE <<>>
        BY HeldIsKey DEF UInv, UserOK, User, Held
    <2>5. \A q \in Procs : Held[q] = IF pc[q] = "hold"
                                     THEN <<loc[q].key, loc[q].key>> ELSE <<>>
        BY HeldIsKey
    <2>6. \A q \in Procs : Held'[q] = IF q = p THEN <<k, k>> ELSE Held[q]
        BY <2>1, <2>4, <2>5 DEF OthersStay
    <2>7. Held' = [Held EXCEPT ![p] = <<k, k>>]
        BY <2>6 DEF Held
    <2> QED
        BY <2>1, <2>2, <2>3, <2>7 DEF Fetches
<1>2. CASE release(p)
    <2>1. /\ pc'[p] = "idle" /\ OthersStay(p) /\ rbtree' = rbtree
          /\ \A e \in rbtree : /\ entry'[e].key = entry[e].key
                               /\ entry'[e].state = entry[e].state
        BY <1>0, <1>2, ReleaseFacts DEF sh, SameNames
    <2> QED
        BY <2>1, LeavingReleases
<1>3. CASE abandon(p) \/ crash(p)
    <2>1. /\ UNCHANGED <<sh, entry>>
          /\ pc' = [pc EXCEPT ![p] = "idle"] /\ loc' = [loc EXCEPT ![p] = NoLocals]
        BY <1>3 DEF abandon, crash, Goto
    <2>2. pc'[p] = "idle" /\ OthersStay(p) /\ rbtree' = rbtree
        BY <2>1 DEF OthersStay, IInv, TypeOK, sh
    <2> QED
        BY <2>1, <2>2, LeavingReleases
<1> QED
    BY <1>1, <1>2, <1>3

\* Every step is a step of the abstract cache or a stutter.
LEMMA NextRefines ==
    ASSUME LocksOutlastHandlers, IInv, TInv, UInv, UInv', [Next]_vars
    PROVE  [Abstract!Next]_(Abstract!vars)
<1>1. ASSUME NEW p \in Procs, NEW k \in Keys, NEW n \in Sizes, store_begin(p, k, n)
      PROVE  Loses
    BY <1>1, BeginUInv, UnnoticedLoses
<1>2. ASSUME NEW p \in Procs,
             \/ Deciding(p) \/ free_unlink(p) \/ free_dequeue(p) \/ free_account(p)
             \/ store_init_entry(p)
      PROVE  Loses
    BY <1>2, DecidingUInv, FreeUInv, FillUInv, UnnoticedLoses
<1>3. ASSUME \/ tick \/ reset_stats \/ UNCHANGED vars
             \/ \E p \in Procs : refresh_time(p) \/ store_refused(p)
      PROVE  Stutters
    <2>1. UNCHANGED <<rbtree, entry, pc, loc>>
        BY <1>3 DEF tick, reset_stats, refresh_time, store_refused, vars, sh
    <2> QED
        BY <2>1 DEF Stutters, Avail, Held
<1>4. Stutters \/ Publishes \/ Loses \/ Fetches \/ Releases
    BY <1>1, <1>2, <1>3, NextCases, WriteRefines, ReadRefines
<1> QED
    BY <1>4, AbstractStep

\* The shared-memory cache implements the cache its callers rely on: it loses keys
\* that nobody reads, never one that is being read, and hands out nothing but the
\* complete bytes of the key asked for.
THEOREM Refinement ==
    ASSUME LocksOutlastHandlers
    PROVE  Spec => ImplementsLossyCache
<1>1. (IInv /\ TInv /\ UInv) /\ (IInv /\ TInv /\ UInv)' /\ [Next]_vars
            => [Abstract!Next]_(Abstract!vars)
    BY NextRefines
<1> QED
    BY <1>1, AbstractInit, UseInvariance, PTL DEF Spec, ImplementsLossyCache, Abstract!Spec
=============================================================================
